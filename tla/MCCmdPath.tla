----------------------------- MODULE MCCmdPath -----------------------------
(***************************************************************************)
(* CmdPath with two workers.  Sessions: two submission queues that share a  *)
(* completion queue; a queue pair that is deleted and made again; a polled  *)
(* pair, with more queues asked for than there are; and admin commands only *)
(* with an abort among them.                                                *)
(***************************************************************************)
EXTENDS CmdPath

SetFeatures(n)    == Cmd("set_features", 0, 0, n, FALSE)
CreateCq(q, irq)  == Cmd("create_cq", q, 0, 0, irq)
CreateSq(q, c)    == Cmd("create_sq", q, c, 0, FALSE)
DeleteSq(q)       == Cmd("delete_sq", q, 0, 0, FALSE)
DeleteCq(q)       == Cmd("delete_cq", q, 0, 0, FALSE)
Plain(op)         == Cmd(op, 0, 0, 0, FALSE)

Start(d, cmds) == [depth |-> d, cmds |-> cmds]

MCPlans ==
    { << Start(2, <<SetFeatures(2), CreateCq(1, TRUE), CreateSq(1, 1), CreateSq(2, 1),
                    DeleteSq(1), DeleteSq(2), DeleteCq(1)>>) >>,
      << Start(2, <<SetFeatures(1), CreateCq(1, TRUE), CreateSq(1, 1), DeleteSq(1), DeleteCq(1),
                    CreateCq(1, TRUE), CreateSq(1, 1), DeleteSq(1), DeleteCq(1)>>),
         Start(2, <<Plain("identify")>>) >>,
      << Start(3, <<SetFeatures(3), CreateCq(2, FALSE), CreateSq(1, 2), DeleteSq(1), DeleteCq(2)>>),
         Start(3, <<Plain("get_log_page")>>) >>,
      << Start(3, <<Plain("other"), Plain("abort"), Plain("get_features"), Plain("identify")>>),
         Start(2, <<Plain("other"), Plain("get_log_page")>>), Start(3, <<Plain("other")>>) >> }
=============================================================================
