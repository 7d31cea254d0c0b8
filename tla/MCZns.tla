-------------------------------- MODULE MCZns --------------------------------
EXTENDS Zns

\* One buffer for all zones, whole program units (ZNS_PROTOTYPE): every
\* command, one after the other.
Prototype == [page |-> 1, unit |-> 2, size |-> 4, wunit |-> 2, shared |-> TRUE, wb |-> 4,
              zrwa |-> 0, fg |-> 0, zwb |-> 0, cmds |-> 5, lens |-> {2, 3}, sqs |-> {1}, full |-> FALSE, endless |-> FALSE,
              acts |-> {"write", "append", "read", "close", "finish", "open", "reset", "offline"}]

\* The same device, with commands of two queues that wait for each other, for
\* ever, and a worker that may be out of work entries.
Race == [Prototype EXCEPT !.cmds = 0, !.endless = TRUE, !.full = TRUE, !.wunit = 1, !.size = 2, !.wb = 3, !.lens = {1, 2},
                          !.sqs = {1, 2}, !.acts = {"write", "append", "reset"}]

\* A buffer for each zone, writes smaller than a page, and a zone that is not
\* a multiple of the program unit (WD_ZN540).
Zn540 == [page |-> 2, unit |-> 2, size |-> 6, wunit |-> 1, shared |-> FALSE, wb |-> 6,
          zrwa |-> 0, fg |-> 0, zwb |-> 0, cmds |-> 4, lens |-> {1, 2, 4}, sqs |-> {1}, full |-> FALSE, endless |-> FALSE,
          acts |-> {"write", "append", "finish", "reset"}]

\* A ZRWA of two blocks, as the handlers would have it, and none, as both
\* devices are configured.
Zrwa == [page |-> 1, unit |-> 2, size |-> 4, wunit |-> 1, shared |-> TRUE, wb |-> 4,
         zrwa |-> 2, fg |-> 1, zwb |-> 3, cmds |-> 5, lens |-> {1, 2}, sqs |-> {1}, full |-> FALSE, endless |-> FALSE,
         acts |-> {"write", "append", "close", "finish", "open", "reset", "zflush"}]
NoZrwa == [Zrwa EXCEPT !.zrwa = 0, !.fg = 0, !.zwb = 0, !.cmds = 3]

MCConfigs == {Prototype, Race, Zn540, Zrwa, NoZrwa}

=============================================================================
