----------------------------- MODULE Zns_proofs -----------------------------
(***************************************************************************)
(* What is proved of the zoned FTL, for every number of zones, every        *)
(* configuration and every sequence of commands: its types, that counters,  *)
(* states and write pointers agree, where appends are placed, and that the  *)
(* write buffers are accounted for.                                        *)
(*                                                                         *)
(* The core is an invariant of a device d, DevInv, that every operation on  *)
(* one zone keeps: it is stated for a device and not for the variable dev,  *)
(* because a command for all zones is a composition of such operations.     *)
(***************************************************************************)
EXTENDS Zns, Induction, SequenceTheorems

Types == {"ACTIVE", "OPEN", "ZRWA"}

ZoneDescs == [state : States, wp : Nat, zrwav : {0, 1}]

Devs == [zone : [Zones -> ZoneDescs], res : [Types -> 0 .. NZones], wb : [Zones -> Nat],
         zwb : [Zones -> Nat], written : [Zones -> SUBSET Nat], leaked : [Zones -> Int],
         split : BOOLEAN, zleaked : Nat]

\* Zone z may have descriptor x when the blocks w have been accepted for it.
ZoneInv(z, x, w) ==
    /\ zone_to_slba(z) <= x.wp /\ x.wp <= zone_to_slba(z + 1)
    /\ x.state = "EMPTY" => x.wp = zone_to_slba(z) /\ x.zrwav = 0
    /\ x.wp = zone_to_slba(z + 1) => x.state = "FULL"
    /\ x.zrwav = 0 => w = zone_to_slba(z) .. x.wp - 1

OpenIn(d)   == {z \in Zones : d.zone[z].state \in Opened}
ActiveIn(d) == {z \in Zones : d.zone[z].state \in Active}
ZrwaIn(d)   == {z \in Zones : d.zone[z].state \in Active /\ d.zone[z].zrwav = 1}

DevInv(d) ==
    /\ d \in Devs
    /\ d.res["OPEN"] = Cardinality(OpenIn(d))
    /\ d.res["ACTIVE"] = Cardinality(ActiveIn(d))
    /\ d.res["ZRWA"] = Cardinality(ZrwaIn(d)) + d.zleaked
    /\ \A z \in Zones : ZoneInv(z, d.zone[z], d.written[z])

\* A command in a queue.  An append names its zone until it is refused while
\* that zone is full.
Ops == {"write", "append", "read", "close", "finish", "open", "reset", "offline", "zflush"}

Cmds == [op : Ops, named : Zones, slba : Nat, n : Nat, opt : {0, 1}, all : BOOLEAN, moved : BOOLEAN]

CmdInv(c) ==
    /\ c \in Cmds
    /\ c.op \in {"write", "append"} => c.n >= 1
    /\ c.op \notin {"write", "append"} => lba_to_zone(c.slba) \in Zones
    /\ c.op = "append" /\ ~c.moved => lba_to_zone(c.slba) = c.named
    /\ c.all => c.op # "zflush"

IInv ==
    /\ cfg \in Configs
    /\ DevInv(dev)
    /\ pend \in [Zones -> Seq(Nat)] /\ zpend \in [Zones -> Seq(Nat)]
    /\ sq \in [SQs -> {NoCmd} \cup Cmds]
    /\ \A q \in SQs : sq[q] # NoCmd => CmdInv(sq[q])
    /\ fault \in {"none", "assert", "divide", "wild"}
    /\ fault = "divide" => cfg.fg = 0 /\ dev.zone[0].zrwav = 1 /\ dev.zone[0].wp = 0
    /\ AppendInItsZone
    /\ cmds \in 0 .. cfg.cmds

-----------------------------------------------------------------------------
(* Configurations and addresses. *)

\* What a configuration provides.
LEMMA CfgFacts ==
    ASSUME cfg \in Configs
    PROVE  /\ cfg.page \in Nat \ {0} /\ cfg.unit \in Nat \ {0} /\ cfg.wunit \in Nat \ {0}
           /\ cfg.size \in Nat /\ cfg.size > 1 /\ NZones * cfg.size < U64
           /\ cfg.shared \in BOOLEAN /\ cfg.wb \in Nat /\ \A n \in cfg.lens : n \in 1 .. cfg.wb
           /\ cfg.zrwa \in Nat /\ cfg.fg \in 0 .. cfg.zrwa /\ (cfg.fg = 0 => cfg.zrwa = 0)
           /\ cfg.zwb \in Nat /\ cfg.cmds \in Nat /\ cfg.full \in BOOLEAN /\ cfg.endless \in BOOLEAN
           /\ NZones \in Nat \ {0} /\ U32 \in Nat /\ U64 \in Nat /\ NZones * cfg.size < U32
<1>1. /\ cfg \in ConfigType
      /\ NZones \in Nat \ {0} /\ U32 \in Nat /\ U64 \in Nat /\ U32 <= U64
    BY ConfigsSound
<1>2. PICK n : n = NZones * cfg.size
    OBVIOUS
<1>3. cfg.size \in Nat /\ n < U32
    BY <1>1, <1>2 DEF ConfigType
<1>4. n \in Int
    BY <1>1, <1>2, <1>3
<1>5. n < U64
    BY <1>1, <1>3, <1>4
<1> QED
    BY <1>1, <1>2, <1>3, <1>5 DEF ConfigType

\* Products and quotients.
LEMMA Products ==
    ASSUME NEW z \in Nat, NEW m \in Nat, NEW s \in Nat
    PROVE  /\ z * s \in Nat /\ (z + 1) * s = z * s + s
           /\ z <= m => z * s <= m * s
           /\ s > 0 => (z * s = 0 => z = 0)
<1>1. z * s \in Nat /\ (z + 1) * s = z * s + s
    OBVIOUS
<1>2. ASSUME z <= m
      PROVE  z * s <= m * s
  <2>1. m * s = z * s + (m - z) * s /\ (m - z) * s >= 0
    BY <1>2
  <2> QED
    BY <1>1, <2>1
<1>3. ASSUME s > 0, z * s = 0
      PROVE  z = 0
  <2>1. z >= 1 => z * s >= s
    <3>1. ASSUME z >= 1
          PROVE  z * s >= s
      <4>1. z * s = s + (z - 1) * s /\ (z - 1) * s >= 0
        BY <3>1
      <4> QED
        BY <4>1
    <3> QED
      BY <3>1
  <2> QED
    BY <1>3, <2>1
<1> QED
    BY <1>1, <1>2, <1>3

\* The quotient of x is z exactly for the s numbers from z * s on.
LEMMA Quotient ==
    ASSUME NEW x \in Nat, NEW z \in Nat, NEW s \in Nat, s > 0
    PROVE  /\ x \div s \in Nat
           /\ x \div s = z <=> z * s <= x /\ x < z * s + s
<1>1. PICK y \in Nat : y = x \div s /\ y * s <= x /\ x < y * s + s
    OBVIOUS
<1>2. ASSUME z * s <= x, x < z * s + s
      PROVE  y = z
  <2>1. CASE y < z
    <3>1. (y + 1) * s <= z * s /\ (y + 1) * s = y * s + s /\ z * s \in Nat /\ y * s \in Nat
      BY <2>1, Products
    <3> QED
      BY <1>1, <1>2, <3>1
  <2>2. CASE z < y
    <3>1. (z + 1) * s <= y * s /\ (z + 1) * s = z * s + s /\ z * s \in Nat /\ y * s \in Nat
      BY <2>2, Products
    <3> QED
      BY <1>1, <1>2, <3>1
  <2> QED
    BY <2>1, <2>2
<1> QED
    BY <1>1, <1>2

\* Zones lie one after the other, and 64 bits hold every address.
LEMMA Addr ==
    ASSUME cfg \in Configs
    PROVE  /\ \A z \in Nat : /\ zone_to_slba(z) \in Nat
                             /\ zone_to_slba(z + 1) = zone_to_slba(z) + cfg.size
                             /\ zone_to_slba(z) = 0 => z = 0
           /\ \A z \in Zones : z \in Nat /\ z + 1 \in Nat /\ zone_to_slba(z + 1) < U64
           /\ \A x \in Nat : lba_to_zone(x) \in Nat
           /\ \A x \in Nat, z \in Nat :
                lba_to_zone(x) = z <=> zone_to_slba(z) <= x /\ x < zone_to_slba(z) + cfg.size
<1>1. PICK s \in Nat : s = cfg.size /\ s > 1 /\ NZones * s < U64 /\ U64 \in Nat /\ NZones \in Nat
    BY CfgFacts
<1>2. ASSUME NEW z \in Nat
      PROVE  /\ zone_to_slba(z) \in Nat
             /\ zone_to_slba(z + 1) = zone_to_slba(z) + cfg.size
             /\ zone_to_slba(z) = 0 => z = 0
    BY <1>1, Products DEF zone_to_slba
<1>3. ASSUME NEW z \in Zones
      PROVE  z \in Nat /\ z + 1 \in Nat /\ zone_to_slba(z + 1) < U64
  <2>1. z \in Nat /\ z + 1 \in Nat /\ z + 1 <= NZones
    BY <1>1 DEF Zones
  <2>2. (z + 1) * s <= NZones * s /\ (z + 1) * s \in Nat /\ NZones * s \in Nat
    BY <1>1, <2>1, Products
  <2>3. (z + 1) * s < U64
    BY <1>1, <2>2
  <2> QED
    BY <1>1, <2>1, <2>3 DEF zone_to_slba
<1>4. ASSUME NEW x \in Nat, NEW z \in Nat
      PROVE  /\ lba_to_zone(x) \in Nat
             /\ lba_to_zone(x) = z <=> zone_to_slba(z) <= x /\ x < zone_to_slba(z) + cfg.size
  <2>1. x \div s \in Nat /\ (x \div s = z <=> z * s <= x /\ x < z * s + s)
    <3>1. s > 0
      BY <1>1
    <3> QED
      BY <3>1, Quotient
  <2>2. lba_to_zone(x) = x \div s /\ zone_to_slba(z) = z * s
    BY <1>1 DEF zone_to_slba, lba_to_zone
  <2> QED
    BY <1>1, <2>1, <2>2
<1> QED
    BY <1>2, <1>3, <1>4

\* The first block of a zone lies in it.
LEMMA ZoneStart ==
    ASSUME cfg \in Configs, NEW z \in Zones
    PROVE  zone_to_slba(z) \in Nat /\ lba_to_zone(zone_to_slba(z)) = z
<1>1. PICK x \in Nat : x = zone_to_slba(z) /\ z \in Nat
    BY Addr
<1>2. cfg.size \in Nat /\ cfg.size > 1
    BY CfgFacts
<1>3. zone_to_slba(z) <= x /\ x < zone_to_slba(z) + cfg.size
    BY <1>1, <1>2
<1> QED
    BY <1>1, <1>3, Addr

-----------------------------------------------------------------------------
(* One zone changes. *)

\* Sets of zones that differ in zone z at most.
LEMMA CountOne ==
    ASSUME NEW S \in SUBSET Zones, NEW T \in SUBSET Zones, NEW z \in Zones,
           \A y \in Zones : y # z => (y \in S <=> y \in T),
           NEW i \in {0, 1}, NEW j \in {0, 1}, i = 1 <=> z \in T, j = 1 <=> z \in S
    PROVE  /\ Cardinality(S) \in 0 .. NZones /\ Cardinality(T) \in 0 .. NZones
           /\ z \in S => Cardinality(S) >= 1
           /\ z \notin S => Cardinality(S) < NZones
           /\ Cardinality(T) = Cardinality(S) + i - j
<1>1. IsFiniteSet(Zones) /\ Cardinality(Zones) = NZones /\ NZones \in Nat
    BY ConfigsSound, FS_Interval DEF Zones
<1>2. ASSUME NEW U \in SUBSET Zones
      PROVE  IsFiniteSet(U) /\ Cardinality(U) \in Nat /\ Cardinality(U) <= NZones
    BY <1>1, FS_Subset, FS_CardinalityType
<1> DEFINE R == S \ {z}
<1>3. R \in SUBSET Zones /\ z \notin R /\ R \cup {z} \in SUBSET Zones
    OBVIOUS
<1>4. IsFiniteSet(R) /\ Cardinality(R) \in Nat /\ Cardinality(R \cup {z}) = Cardinality(R) + 1
      /\ Cardinality(R \cup {z}) <= NZones
    BY <1>2, <1>3, FS_AddElement
<1>5. /\ z \in S => S = R \cup {z}
      /\ z \notin S => S = R
      /\ z \in T => T = R \cup {z}
      /\ z \notin T => T = R
    OBVIOUS
<1> HIDE DEF R
<1>6. Cardinality(S) = IF z \in S THEN Cardinality(R) + 1 ELSE Cardinality(R)
    BY <1>4, <1>5
<1>7. Cardinality(T) = IF z \in T THEN Cardinality(R) + 1 ELSE Cardinality(R)
    BY <1>4, <1>5
<1> QED
    BY <1>1, <1>4, <1>6, <1>7

\* One for a zone that counts as open, active, or holding a ZRWA.
IsOpen(x)   == IF x.state \in Opened THEN 1 ELSE 0
IsActive(x) == IF x.state \in Active THEN 1 ELSE 0
HasZrwa(x)  == IF x.state \in Active /\ x.zrwav = 1 THEN 1 ELSE 0

\* The three are zero or one.
LEMMA Ones ==
    ASSUME NEW x
    PROVE  /\ IsOpen(x) \in {0, 1} /\ (IsOpen(x) = 1 <=> x.state \in Opened)
           /\ IsActive(x) \in {0, 1} /\ (IsActive(x) = 1 <=> x.state \in Active)
           /\ HasZrwa(x) \in {0, 1} /\ (HasZrwa(x) = 1 <=> x.state \in Active /\ x.zrwav = 1)
BY DEF IsOpen, IsActive, HasZrwa

\* What e has to be when zone z of d becomes x.
ZoneBecomes(d, e, z, x) ==
    /\ e \in Devs /\ x \in ZoneDescs
    /\ e.zone = [d.zone EXCEPT ![z] = x]
    /\ \A y \in Zones : y # z => e.written[y] = d.written[y]
    /\ ZoneInv(z, x, e.written[z])
    /\ e.res["OPEN"] = d.res["OPEN"] + IsOpen(x) - IsOpen(d.zone[z])
    /\ e.res["ACTIVE"] = d.res["ACTIVE"] + IsActive(x) - IsActive(d.zone[z])
    /\ e.res["ZRWA"] = d.res["ZRWA"] + HasZrwa(x) - HasZrwa(d.zone[z]) + e.zleaked - d.zleaked

\* What the counters tell of a zone.
LEMMA Counted ==
    ASSUME NEW d, DevInv(d), NEW z \in Zones
    PROVE  /\ d \in Devs /\ d.zone[z] \in ZoneDescs /\ ZoneInv(z, d.zone[z], d.written[z])
           /\ \A type \in Types : d.res[type] \in 0 .. NZones
           /\ d.zone[z].state \in Opened => d.res["OPEN"] \in 1 .. NZones
           /\ d.zone[z].state \notin Opened => d.res["OPEN"] \in 0 .. NZones - 1
           /\ d.zone[z].state \in Active => d.res["ACTIVE"] \in 1 .. NZones
           /\ d.zone[z].state \notin Active => d.res["ACTIVE"] \in 0 .. NZones - 1
           /\ d.zone[z].state \in Active /\ d.zone[z].zrwav = 1 => d.res["ZRWA"] \in 1 .. NZones
<1>1. d \in Devs /\ d.zone[z] \in ZoneDescs /\ ZoneInv(z, d.zone[z], d.written[z])
    BY DEF DevInv, Devs
<1>2. \A type \in Types : d.res[type] \in 0 .. NZones
    BY <1>1 DEF Devs
<1>3. NZones \in Nat
    BY ConfigsSound
<1>4. /\ d.zone[z].state \in Opened => d.res["OPEN"] \in 1 .. NZones
      /\ d.zone[z].state \notin Opened => d.res["OPEN"] \in 0 .. NZones - 1
  <2>1. OpenIn(d) \in SUBSET Zones /\ (z \in OpenIn(d) <=> d.zone[z].state \in Opened)
    BY DEF OpenIn
  <2>2. PICK c : c = Cardinality(OpenIn(d)) /\ c \in 0 .. NZones /\ (z \in OpenIn(d) => c >= 1)
                 /\ (z \notin OpenIn(d) => c < NZones)
    BY <2>1, Ones, CountOne
  <2> QED
    BY <1>3, <2>1, <2>2 DEF DevInv
<1>5. /\ d.zone[z].state \in Active => d.res["ACTIVE"] \in 1 .. NZones
      /\ d.zone[z].state \notin Active => d.res["ACTIVE"] \in 0 .. NZones - 1
  <2>1. ActiveIn(d) \in SUBSET Zones /\ (z \in ActiveIn(d) <=> d.zone[z].state \in Active)
    BY DEF ActiveIn
  <2>2. PICK c : c = Cardinality(ActiveIn(d)) /\ c \in 0 .. NZones /\ (z \in ActiveIn(d) => c >= 1)
                 /\ (z \notin ActiveIn(d) => c < NZones)
    BY <2>1, Ones, CountOne
  <2> QED
    BY <1>3, <2>1, <2>2 DEF DevInv
<1>6. d.zone[z].state \in Active /\ d.zone[z].zrwav = 1 => d.res["ZRWA"] \in 1 .. NZones
  <2>1. ZrwaIn(d) \in SUBSET Zones
        /\ (z \in ZrwaIn(d) <=> d.zone[z].state \in Active /\ d.zone[z].zrwav = 1)
    BY DEF ZrwaIn
  <2>2. PICK c : c = Cardinality(ZrwaIn(d)) /\ c \in 0 .. NZones /\ (z \in ZrwaIn(d) => c >= 1)
    BY <2>1, Ones, CountOne
  <2>3. d.zleaked \in Nat /\ d.res["ZRWA"] \in 0 .. NZones
    BY <1>1, <1>2 DEF Devs, Types
  <2> QED
    BY <1>3, <2>1, <2>2, <2>3 DEF DevInv
<1> QED
    BY <1>1, <1>2, <1>4, <1>5, <1>6

\* A change of one zone that the counters follow keeps the invariant.
LEMMA OneZone ==
    ASSUME NEW d, NEW e, NEW z \in Zones, NEW x, DevInv(d), ZoneBecomes(d, e, z, x)
    PROVE  DevInv(e)
<1>1. /\ d \in Devs /\ e \in Devs /\ x \in ZoneDescs /\ d.zone \in [Zones -> ZoneDescs]
      /\ e.zone[z] = x /\ \A y \in Zones : y # z => e.zone[y] = d.zone[y]
    BY DEF DevInv, ZoneBecomes, Devs
<1>2. /\ d.res["OPEN"] \in Int /\ d.res["ACTIVE"] \in Int /\ d.res["ZRWA"] \in Int
      /\ d.zleaked \in Int /\ e.zleaked \in Int
    BY <1>1, ConfigsSound DEF Devs, Types
<1>3. e.res["OPEN"] = Cardinality(OpenIn(e))
  <2>1. /\ OpenIn(d) \in SUBSET Zones /\ OpenIn(e) \in SUBSET Zones
        /\ \A y \in Zones : y # z => (y \in OpenIn(d) <=> y \in OpenIn(e))
        /\ (z \in OpenIn(d) <=> d.zone[z].state \in Opened)
        /\ (z \in OpenIn(e) <=> x.state \in Opened)
    BY <1>1 DEF OpenIn
  <2>2. PICK i \in {0, 1}, j \in {0, 1} : /\ i = IsOpen(x) /\ (i = 1 <=> z \in OpenIn(e))
                                         /\ j = IsOpen(d.zone[z]) /\ (j = 1 <=> z \in OpenIn(d))
    <3>1. IsOpen(x) \in {0, 1} /\ (IsOpen(x) = 1 <=> x.state \in Opened)
      BY Ones
    <3>2. IsOpen(d.zone[z]) \in {0, 1} /\ (IsOpen(d.zone[z]) = 1 <=> d.zone[z].state \in Opened)
      BY Ones
    <3>3. (IsOpen(x) = 1 <=> z \in OpenIn(e)) /\ (IsOpen(d.zone[z]) = 1 <=> z \in OpenIn(d))
      BY <2>1, <3>1, <3>2
    <3> QED
      BY <3>1, <3>2, <3>3
  <2>3. Cardinality(OpenIn(e)) = Cardinality(OpenIn(d)) + i - j /\ Cardinality(OpenIn(d)) \in 0 .. NZones
    BY <2>1, <2>2, CountOne
  <2>4. /\ e.res["OPEN"] = d.res["OPEN"] + i - j
        /\ d.res["OPEN"] = Cardinality(OpenIn(d))
    BY <2>2 DEF DevInv, ZoneBecomes
  <2> QED
    BY <1>2, <2>3, <2>4
<1>4. e.res["ACTIVE"] = Cardinality(ActiveIn(e))
  <2>1. /\ ActiveIn(d) \in SUBSET Zones /\ ActiveIn(e) \in SUBSET Zones
        /\ \A y \in Zones : y # z => (y \in ActiveIn(d) <=> y \in ActiveIn(e))
        /\ (z \in ActiveIn(d) <=> d.zone[z].state \in Active)
        /\ (z \in ActiveIn(e) <=> x.state \in Active)
    BY <1>1 DEF ActiveIn
  <2>2. PICK i \in {0, 1}, j \in {0, 1} : /\ i = IsActive(x) /\ (i = 1 <=> z \in ActiveIn(e))
                                         /\ j = IsActive(d.zone[z]) /\ (j = 1 <=> z \in ActiveIn(d))
    <3>1. IsActive(x) \in {0, 1} /\ (IsActive(x) = 1 <=> x.state \in Active)
      BY Ones
    <3>2. IsActive(d.zone[z]) \in {0, 1} /\ (IsActive(d.zone[z]) = 1 <=> d.zone[z].state \in Active)
      BY Ones
    <3>3. (IsActive(x) = 1 <=> z \in ActiveIn(e)) /\ (IsActive(d.zone[z]) = 1 <=> z \in ActiveIn(d))
      BY <2>1, <3>1, <3>2
    <3> QED
      BY <3>1, <3>2, <3>3
  <2>3. Cardinality(ActiveIn(e)) = Cardinality(ActiveIn(d)) + i - j /\ Cardinality(ActiveIn(d)) \in 0 .. NZones
    BY <2>1, <2>2, CountOne
  <2>4. /\ e.res["ACTIVE"] = d.res["ACTIVE"] + i - j
        /\ d.res["ACTIVE"] = Cardinality(ActiveIn(d))
    BY <2>2 DEF DevInv, ZoneBecomes
  <2> QED
    BY <1>2, <2>3, <2>4
<1>5. e.res["ZRWA"] = Cardinality(ZrwaIn(e)) + e.zleaked
  <2>1. /\ ZrwaIn(d) \in SUBSET Zones /\ ZrwaIn(e) \in SUBSET Zones
        /\ \A y \in Zones : y # z => (y \in ZrwaIn(d) <=> y \in ZrwaIn(e))
        /\ (z \in ZrwaIn(d) <=> d.zone[z].state \in Active /\ d.zone[z].zrwav = 1)
        /\ (z \in ZrwaIn(e) <=> x.state \in Active /\ x.zrwav = 1)
    BY <1>1 DEF ZrwaIn
  <2>2. PICK i \in {0, 1}, j \in {0, 1} : /\ i = HasZrwa(x) /\ (i = 1 <=> z \in ZrwaIn(e))
                                         /\ j = HasZrwa(d.zone[z]) /\ (j = 1 <=> z \in ZrwaIn(d))
    <3>1. HasZrwa(x) \in {0, 1} /\ (HasZrwa(x) = 1 <=> x.state \in Active /\ x.zrwav = 1)
      BY Ones
    <3>2. HasZrwa(d.zone[z]) \in {0, 1} /\ (HasZrwa(d.zone[z]) = 1 <=> d.zone[z].state \in Active /\ d.zone[z].zrwav = 1)
      BY Ones
    <3>3. (HasZrwa(x) = 1 <=> z \in ZrwaIn(e)) /\ (HasZrwa(d.zone[z]) = 1 <=> z \in ZrwaIn(d))
      BY <2>1, <3>1, <3>2
    <3> QED
      BY <3>1, <3>2, <3>3
  <2>3. Cardinality(ZrwaIn(e)) = Cardinality(ZrwaIn(d)) + i - j /\ Cardinality(ZrwaIn(d)) \in 0 .. NZones
    BY <2>1, <2>2, CountOne
  <2>4. /\ e.res["ZRWA"] = d.res["ZRWA"] + i - j + e.zleaked - d.zleaked
        /\ d.res["ZRWA"] = Cardinality(ZrwaIn(d)) + d.zleaked
    BY <2>2 DEF DevInv, ZoneBecomes
  <2> QED
    BY <1>2, <2>3, <2>4
<1>6. \A y \in Zones : ZoneInv(y, e.zone[y], e.written[y])
    BY <1>1 DEF DevInv, ZoneBecomes
<1> QED
    BY <1>1, <1>3, <1>4, <1>5, <1>6 DEF DevInv

-----------------------------------------------------------------------------
(* The primitives. *)

\* What matters of a device.
Made(e, zone, res, written, zleaked) ==
    e \in Devs /\ e.zone = zone /\ e.res = res /\ e.written = written /\ e.zleaked = zleaked

\* A counter that is not zero goes down by one, and does not wrap.
LEMMA ReleaseMade ==
    ASSUME cfg \in Configs, NEW d \in Devs, NEW type \in Types, d.res[type] \in 1 .. NZones
    PROVE  Made(release_zone_resource(d, type), d.zone, [d.res EXCEPT ![type] = d.res[type] - 1],
                d.written, d.zleaked)
<1>1. NZones \in Nat /\ U32 \in Nat /\ NZones < U32
  <2>1. PICK s \in Nat : s = cfg.size /\ s > 1 /\ NZones * s < U32 /\ U32 \in Nat /\ NZones \in Nat
    BY CfgFacts
  <2>2. NZones * 1 <= NZones * s
  <3>1. NZones * s = NZones * 1 + NZones * (s - 1) /\ NZones * (s - 1) >= 0
    BY <2>1
  <3> QED
    BY <2>1, <3>1
  <2> QED
    BY <2>1, <2>2
<1>2. PICK n \in 0 .. NZones : n = d.res[type] - 1 /\ n \in 0 .. U32 - 1
    BY <1>1
<1>3. (d.res[type] - 1) % U32 = n
    BY <1>1, <1>2, Remainder
<1>4. release_zone_resource(d, type) = [d EXCEPT !.res[type] = n]
    BY <1>3 DEF release_zone_resource
<1>5. [d.res EXCEPT ![type] = n] \in [Types -> 0 .. NZones]
    BY <1>2 DEF Devs
<1>6. [d EXCEPT !.res[type] = n] = [d EXCEPT !.res = [d.res EXCEPT ![type] = n]]
    BY DEF Devs
<1>7. PICK e : e = [d EXCEPT !.res = [d.res EXCEPT ![type] = n]]
    OBVIOUS
<1>8. Made(e, d.zone, [d.res EXCEPT ![type] = n], d.written, d.zleaked)
    BY <1>5, <1>7 DEF Devs, Made
<1> QED
    BY <1>2, <1>4, <1>6, <1>7, <1>8

\* A counter below its limit goes up by one.
LEMMA AcquireMade ==
    ASSUME NEW d \in Devs, NEW type \in Types, d.res[type] \in 0 .. NZones - 1
    PROVE  Made(acquire_zone_resource(d, type), d.zone, [d.res EXCEPT ![type] = d.res[type] + 1],
                d.written, d.zleaked)
<1>1. NZones \in Nat
    BY ConfigsSound
<1>2. PICK n \in 0 .. NZones : n = d.res[type] + 1
    BY <1>1
<1>3. acquire_zone_resource(d, type) = [d EXCEPT !.res[type] = n]
    BY <1>1, <1>2 DEF acquire_zone_resource
<1>4. [d.res EXCEPT ![type] = n] \in [Types -> 0 .. NZones]
    BY <1>2 DEF Devs
<1>5. [d EXCEPT !.res[type] = n] = [d EXCEPT !.res = [d.res EXCEPT ![type] = n]]
    BY DEF Devs
<1>6. PICK e : e = [d EXCEPT !.res = [d.res EXCEPT ![type] = n]]
    OBVIOUS
<1>7. Made(e, d.zone, [d.res EXCEPT ![type] = n], d.written, d.zleaked)
    BY <1>4, <1>6 DEF Devs, Made
<1> QED
    BY <1>2, <1>3, <1>5, <1>6, <1>7

\* The descriptor of one zone is replaced.
LEMMA ZoneMade ==
    ASSUME NEW d \in Devs, NEW z \in Zones, NEW x \in ZoneDescs, NEW e,
           e = [d EXCEPT !.zone = [d.zone EXCEPT ![z] = x]]
    PROVE  Made(e, [d.zone EXCEPT ![z] = x], d.res, d.written, d.zleaked)
<1>1. [d.zone EXCEPT ![z] = x] \in [Zones -> ZoneDescs]
    BY DEF Devs
<1> QED
    BY <1>1 DEF Devs, Made

\* The state of one zone is replaced.
LEMMA StateMade ==
    ASSUME NEW d \in Devs, NEW z \in Zones, NEW s \in States
    PROVE  /\ [d.zone[z] EXCEPT !.state = s] \in ZoneDescs
           /\ Made(change_zone_state(d, z, s), [d.zone EXCEPT ![z] = [d.zone[z] EXCEPT !.state = s]],
                   d.res, d.written, d.zleaked)
<1>1. d.zone[z] \in ZoneDescs /\ d.zone \in [Zones -> ZoneDescs]
    BY DEF Devs
<1>2. PICK x : x = [d.zone[z] EXCEPT !.state = s]
    OBVIOUS
<1>3. x \in ZoneDescs
    BY <1>1, <1>2 DEF ZoneDescs
<1>4. change_zone_state(d, z, s) = [d EXCEPT !.zone = [d.zone EXCEPT ![z] = x]]
    BY <1>1, <1>2 DEF change_zone_state, Devs
<1>5. PICK e : e = [d EXCEPT !.zone = [d.zone EXCEPT ![z] = x]]
    OBVIOUS
<1>6. Made(e, [d.zone EXCEPT ![z] = x], d.res, d.written, d.zleaked)
    BY <1>3, <1>5, ZoneMade
<1> QED
    BY <1>2, <1>3, <1>4, <1>5, <1>6

\* What zone z counts for can be given back.
CanRelease(d, z) ==
    /\ d \in Devs
    /\ d.zone[z].state \in Opened => d.res["OPEN"] \in 1 .. NZones
    /\ d.zone[z].state \in Active => d.res["ACTIVE"] \in 1 .. NZones
    /\ d.zone[z].state \in Active /\ d.zone[z].zrwav = 1 => d.res["ZRWA"] \in 1 .. NZones

GivesBack(d, e, z) ==
    /\ e.zleaked = d.zleaked
    /\ e.res["OPEN"] = d.res["OPEN"] - IsOpen(d.zone[z])
    /\ e.res["ACTIVE"] = d.res["ACTIVE"] - IsActive(d.zone[z])
    /\ e.res["ZRWA"] = d.res["ZRWA"] - HasZrwa(d.zone[z])

Released(d, e, z) ==
    e \in Devs /\ e.zone = d.zone /\ e.written = d.written /\ GivesBack(d, e, z)

\* All that zone z counts for is given back.
LEMMA AllReleased ==
    ASSUME cfg \in Configs, NEW d, NEW z \in Zones, CanRelease(d, z)
    PROVE  Released(d, ReleaseAll(d, z), z)
<1>0. /\ d \in Devs /\ d.res \in [Types -> 0 .. NZones] /\ NZones \in Nat
      /\ "OPEN" \in Types /\ "ACTIVE" \in Types /\ "ZRWA" \in Types
    BY ConfigsSound DEF CanRelease, Devs, Types
<1>1. PICK x : x = d.zone[z]
    OBVIOUS
<1>2. PICK o : o = IF x.state \in Opened THEN release_zone_resource(d, "OPEN") ELSE d
    OBVIOUS
<1>3. /\ o \in Devs /\ o.zone = d.zone /\ o.written = d.written /\ o.zleaked = d.zleaked
      /\ o.res["OPEN"] = d.res["OPEN"] - IsOpen(x)
      /\ o.res["ACTIVE"] = d.res["ACTIVE"] /\ o.res["ZRWA"] = d.res["ZRWA"]
  <2>1. CASE x.state \in Opened
    <3>1. Made(o, d.zone, [d.res EXCEPT !["OPEN"] = d.res["OPEN"] - 1], d.written, d.zleaked)
      BY <1>0, <1>1, <1>2, <2>1, ReleaseMade DEF CanRelease
    <3> QED
      BY <1>0, <2>1, <3>1 DEF Made, IsOpen
  <2>2. CASE x.state \notin Opened
    BY <1>0, <1>2, <2>2 DEF IsOpen
  <2> QED
    BY <2>1, <2>2
<1>4. PICK a : a = IF x.state \in Active THEN release_zone_resource(o, "ACTIVE") ELSE o
    OBVIOUS
<1>5. /\ a \in Devs /\ a.zone = d.zone /\ a.written = d.written /\ a.zleaked = d.zleaked
      /\ a.res["OPEN"] = d.res["OPEN"] - IsOpen(x)
      /\ a.res["ACTIVE"] = d.res["ACTIVE"] - IsActive(x) /\ a.res["ZRWA"] = d.res["ZRWA"]
  <2>1. CASE x.state \in Active
    <3>1. o.res["ACTIVE"] \in 1 .. NZones
      BY <1>1, <1>3, <2>1 DEF CanRelease
    <3>2. Made(a, o.zone, [o.res EXCEPT !["ACTIVE"] = o.res["ACTIVE"] - 1], o.written, o.zleaked)
      BY <1>0, <1>3, <1>4, <2>1, <3>1, ReleaseMade
    <3>3. o.res \in [Types -> 0 .. NZones]
      BY <1>3 DEF Devs
    <3> QED
      BY <1>0, <1>3, <2>1, <3>2, <3>3 DEF Made, IsActive
  <2>2. CASE x.state \notin Active
    BY <1>0, <1>3, <1>4, <2>2 DEF IsActive
  <2> QED
    BY <2>1, <2>2
<1>6. PICK e : e = IF x.state \in Active /\ x.zrwav = 1 THEN release_zone_resource(a, "ZRWA") ELSE a
    OBVIOUS
<1>7. /\ e \in Devs /\ e.zone = d.zone /\ e.written = d.written /\ e.zleaked = d.zleaked
      /\ e.res["OPEN"] = d.res["OPEN"] - IsOpen(x)
      /\ e.res["ACTIVE"] = d.res["ACTIVE"] - IsActive(x)
      /\ e.res["ZRWA"] = d.res["ZRWA"] - HasZrwa(x)
  <2>1. CASE x.state \in Active /\ x.zrwav = 1
    <3>1. a.res["ZRWA"] \in 1 .. NZones
      BY <1>1, <1>5, <2>1 DEF CanRelease
    <3>2. Made(e, a.zone, [a.res EXCEPT !["ZRWA"] = a.res["ZRWA"] - 1], a.written, a.zleaked)
      BY <1>0, <1>5, <1>6, <2>1, <3>1, ReleaseMade
    <3>3. a.res \in [Types -> 0 .. NZones]
      BY <1>5 DEF Devs
    <3> QED
      BY <1>0, <1>5, <2>1, <3>2, <3>3 DEF Made, HasZrwa
  <2>2. CASE ~(x.state \in Active /\ x.zrwav = 1)
    BY <1>0, <1>5, <1>6, <2>2 DEF HasZrwa
  <2> QED
    BY <2>1, <2>2
<1>8. e = ReleaseAll(d, z)
    BY <1>1, <1>2, <1>4, <1>6 DEF ReleaseAll
<1> QED
    BY <1>1, <1>7, <1>8 DEF Released, GivesBack

-----------------------------------------------------------------------------
(* Zone management keeps the invariant of a device. *)

\* The fields of a descriptor whose state changes.
LEMMA NewState ==
    ASSUME NEW x \in ZoneDescs, NEW s \in States, NEW y, y = [x EXCEPT !.state = s]
    PROVE  y \in ZoneDescs /\ y.state = s /\ y.wp = x.wp /\ y.zrwav = x.zrwav
BY DEF ZoneDescs

\* A write buffer exists for every zone.
LEMMA BufIn ==
    ASSUME cfg \in Configs, NEW z \in Zones
    PROVE  BufOf(z) \in Zones
BY ConfigsSound DEF BufOf, Zones

\* A program unit has blocks.
LEMMA UnitFacts ==
    ASSUME cfg \in Configs
    PROVE  UnitBlocks \in Nat /\ UnitBlocks > 0
<1>1. PICK p \in Nat, u \in Nat : p = cfg.page /\ u = cfg.unit /\ p > 0 /\ u > 0
    BY CfgFacts
<1>2. p * u = (p - 1) * u + u /\ (p - 1) * u >= 0
    BY <1>1
<1>3. p * u \in Nat /\ p * u > 0
    BY <1>1, <1>2
<1> QED
    BY <1>1, <1>3 DEF UnitBlocks

\* The buffer that a zone holds is a number of blocks.
LEMMA DropMade ==
    ASSUME cfg \in Configs, NEW d \in Devs, NEW z \in Zones
    PROVE  Made(Drop(d, z), d.zone, d.res, d.written, d.zleaked)
<1>1. Held(d, z) \in Int
  <2>1. UnitBlocks \in Nat /\ UnitBlocks > 0
    BY UnitFacts
  <2>2. d.zone[z].wp - zone_to_slba(z) \in Int
    BY Addr DEF Devs, ZoneDescs
  <2>3. (d.zone[z].wp - zone_to_slba(z)) % UnitBlocks \in Int
    BY <2>1, <2>2
  <2> QED
    BY <2>3 DEF Held
<1>2. BufOf(z) \in Zones
    BY BufIn
<1>3. PICK l : l = [d.leaked EXCEPT ![BufOf(z)] = d.leaked[BufOf(z)] + Held(d, z)]
    OBVIOUS
<1>4. l \in [Zones -> Int]
    BY <1>1, <1>2, <1>3 DEF Devs
<1>5. Drop(d, z) = [d EXCEPT !.leaked = l]
    BY <1>3 DEF Drop, Devs
<1> QED
    BY <1>4, <1>5 DEF Made, Devs

\* Closing a zone keeps the invariant.
LEMMA CloseZoneInv ==
    ASSUME cfg \in Configs, NEW d, DevInv(d), NEW z \in Zones
    PROVE  DevInv(close_zone(d, z))
<1>1. CASE d.zone[z].state \notin Opened
    BY <1>1 DEF close_zone
<1>2. CASE d.zone[z].state \in Opened
  <2>1. PICK x \in ZoneDescs : /\ x = d.zone[z] /\ ZoneInv(z, x, d.written[z]) /\ d \in Devs
                               /\ d.res["OPEN"] \in 1 .. NZones
    BY <1>2, Counted
  <2>2. PICK y : y = [x EXCEPT !.state = "CLOSED"]
    OBVIOUS
  <2>3. "CLOSED" \in States /\ "OPEN" \in Types
    BY DEF States, Active, Types
  <2>4. y \in ZoneDescs /\ y.state = "CLOSED" /\ y.wp = x.wp /\ y.zrwav = x.zrwav
    BY <2>2, <2>3, NewState
  <2>5. PICK c : c = change_zone_state(d, z, "CLOSED")
    OBVIOUS
  <2>6. Made(c, [d.zone EXCEPT ![z] = y], d.res, d.written, d.zleaked)
    BY <2>1, <2>2, <2>3, <2>5, StateMade
  <2>7. PICK e : e = release_zone_resource(c, "OPEN")
    OBVIOUS
  <2>8. Made(e, [d.zone EXCEPT ![z] = y], [d.res EXCEPT !["OPEN"] = d.res["OPEN"] - 1], d.written, d.zleaked)
    <3>1. c \in Devs /\ c.zone = [d.zone EXCEPT ![z] = y] /\ c.res = d.res /\ c.written = d.written
          /\ c.zleaked = d.zleaked
      BY <2>6 DEF Made
    <3>2. Made(e, c.zone, [c.res EXCEPT !["OPEN"] = c.res["OPEN"] - 1], c.written, c.zleaked)
      BY <2>1, <2>3, <2>7, <3>1, ReleaseMade
    <3> QED
      BY <3>1, <3>2
  <2>9. ZoneInv(z, y, e.written[z])
    BY <1>2, <2>1, <2>4, <2>8 DEF ZoneInv, Made, Opened
  <2>10. /\ IsOpen(x) = 1 /\ IsOpen(y) = 0 /\ IsActive(x) = 1 /\ IsActive(y) = 1
         /\ HasZrwa(x) = HasZrwa(y)
    BY <1>2, <2>1, <2>4 DEF IsOpen, IsActive, HasZrwa, Opened, Active
  <2>11. HasZrwa(x) \in Int /\ d.zleaked \in Int /\ d.res \in [Types -> 0 .. NZones] /\ NZones \in Nat
    BY <2>1, Ones, ConfigsSound DEF Devs
  <2>12. ZoneBecomes(d, e, z, y)
    BY <2>1, <2>4, <2>8, <2>9, <2>10, <2>11 DEF ZoneBecomes, Made, Types
  <2>13. e = close_zone(d, z)
    BY <1>2, <2>5, <2>7 DEF close_zone
  <2> QED
    BY <2>12, <2>13, OneZone
<1> QED
    BY <1>1, <1>2

\* A zone gives back what it counts for and becomes y, which counts for nothing.
LEMMA RetireInv ==
    ASSUME cfg \in Configs, NEW d, DevInv(d), NEW z \in Zones, NEW c, NEW e, NEW y \in ZoneDescs,
           GivesBack(d, c, z), e \in Devs, e.res = c.res, e.zleaked = c.zleaked,
           e.zone = [d.zone EXCEPT ![z] = y], y.state \notin Active,
           \A v \in Zones : v # z => e.written[v] = d.written[v], ZoneInv(z, y, e.written[z])
    PROVE  DevInv(e)
<1>1. IsOpen(y) = 0 /\ IsActive(y) = 0 /\ HasZrwa(y) = 0
    BY DEF IsOpen, IsActive, HasZrwa, Active
<1>2. /\ d \in Devs /\ d.zleaked \in Int /\ d.res["OPEN"] \in Int /\ d.res["ACTIVE"] \in Int /\ d.res["ZRWA"] \in Int
    BY ConfigsSound DEF Devs, DevInv, Types
<1>3. PICK i \in {0, 1}, j \in {0, 1}, k \in {0, 1} :
        i = IsOpen(d.zone[z]) /\ j = IsActive(d.zone[z]) /\ k = HasZrwa(d.zone[z])
    BY Ones
<1>4. /\ e.res["OPEN"] = d.res["OPEN"] - i /\ e.res["ACTIVE"] = d.res["ACTIVE"] - j
      /\ e.res["ZRWA"] = d.res["ZRWA"] - k /\ e.zleaked = d.zleaked
    BY <1>3 DEF GivesBack
<1>5. /\ e.res["OPEN"] = d.res["OPEN"] + 0 - i /\ e.res["ACTIVE"] = d.res["ACTIVE"] + 0 - j
      /\ e.res["ZRWA"] = d.res["ZRWA"] + 0 - k + e.zleaked - d.zleaked
    BY <1>2, <1>4
<1>6. ZoneBecomes(d, e, z, y)
    BY <1>1, <1>3, <1>5 DEF ZoneBecomes
<1> QED
    BY <1>6, OneZone

\* What finish and reset give back.
LEMMA DroppedReleased ==
    ASSUME cfg \in Configs, NEW d, DevInv(d), NEW z \in Zones
    PROVE  Released(d, ReleaseAll(Drop(d, z), z), z)
<1>1. d \in Devs
    BY DEF DevInv
<1>2. PICK c : c = Drop(d, z)
    OBVIOUS
<1>3. Made(c, d.zone, d.res, d.written, d.zleaked)
    BY <1>1, <1>2, DropMade
<1>4. CanRelease(c, z)
    BY <1>3, Counted DEF Made, CanRelease
<1>5. Released(c, ReleaseAll(c, z), z)
    BY <1>4, AllReleased
<1> QED
    BY <1>2, <1>3, <1>5 DEF Released, GivesBack, Made

\* Finishing a zone keeps the invariant.
LEMMA FinishInv ==
    ASSUME cfg \in Configs, NEW d, DevInv(d), NEW z \in Zones
    PROVE  DevInv(finish_zone(d, z))
<1>1. CASE d.zone[z].state = "FULL"
    BY <1>1 DEF finish_zone
<1>2. CASE d.zone[z].state # "FULL"
  <2>1. PICK c : c = ReleaseAll(Drop(d, z), z)
    OBVIOUS
  <2>2. Released(d, c, z)
    BY <2>1, DroppedReleased
  <2>3. PICK x \in ZoneDescs : x = d.zone[z] /\ ZoneInv(z, x, d.written[z])
    BY Counted
  <2>4. PICK y : y = [x EXCEPT !.state = "FULL"]
    OBVIOUS
  <2>5. "FULL" \in States /\ "FULL" \notin Active
    BY DEF States, Active, Opened
  <2>6. y \in ZoneDescs /\ y.state = "FULL" /\ y.wp = x.wp /\ y.zrwav = x.zrwav
    BY <2>4, <2>5, NewState
  <2>7. PICK e : e = change_zone_state(c, z, "FULL")
    OBVIOUS
  <2>8. c \in Devs /\ c.zone = d.zone /\ c.written = d.written /\ GivesBack(d, c, z)
    BY <2>2 DEF Released
  <2>9. Made(e, [c.zone EXCEPT ![z] = [c.zone[z] EXCEPT !.state = "FULL"]], c.res, c.written, c.zleaked)
    BY <2>5, <2>7, <2>8, StateMade
  <2>10. /\ e \in Devs /\ e.zone = [d.zone EXCEPT ![z] = y] /\ e.res = c.res /\ e.zleaked = c.zleaked
         /\ e.written = d.written
    BY <2>3, <2>4, <2>8, <2>9 DEF Made
  <2>11. ZoneInv(z, y, e.written[z])
    BY <2>3, <2>6, <2>10 DEF ZoneInv
  <2>12. DevInv(e)
    BY <2>5, <2>6, <2>8, <2>10, <2>11, RetireInv
  <2> QED
    BY <1>2, <2>1, <2>7, <2>12 DEF finish_zone
<1> QED
    BY <1>1, <1>2

\* Resetting a zone keeps the invariant.
LEMMA ResetInv ==
    ASSUME cfg \in Configs, NEW d, DevInv(d), NEW z \in Zones
    PROVE  DevInv(reset_zone(d, z))
<1>1. PICK c : c = ReleaseAll(Drop(d, z), z)
    OBVIOUS
<1>2. Released(d, c, z)
    BY <1>1, DroppedReleased
<1>3. "EMPTY" \in States /\ "EMPTY" \notin Active
    BY DEF States, Active, Opened
<1>4. PICK r : r = change_zone_state(c, z, "EMPTY")
    OBVIOUS
<1>5. c \in Devs /\ c.zone = d.zone /\ c.written = d.written /\ GivesBack(d, c, z)
    BY <1>2 DEF Released
<1>6. Made(r, [c.zone EXCEPT ![z] = [c.zone[z] EXCEPT !.state = "EMPTY"]], c.res, c.written, c.zleaked)
    BY <1>3, <1>4, <1>5, StateMade
<1>7. PICK s \in Nat : s = zone_to_slba(z) /\ zone_to_slba(z + 1) = s + cfg.size
    BY Addr
<1>8. cfg.size \in Nat /\ cfg.size > 1 /\ cfg.zwb \in Nat
    BY CfgFacts
<1>9. PICK y : y = [state |-> "EMPTY", wp |-> s, zrwav |-> 0]
    OBVIOUS
<1>10. y \in ZoneDescs
    BY <1>3, <1>9 DEF ZoneDescs
<1>11. PICK w : w = [r.written EXCEPT ![z] = {}]
    OBVIOUS
<1>12. PICK b : b = [r.zwb EXCEPT ![z] = IF cfg.zwb > 0 THEN cfg.zwb ELSE r.zwb[z]]
    OBVIOUS
<1>13. r \in Devs /\ d.zone \in [Zones -> ZoneDescs]
    BY <1>6 DEF Made, Devs, DevInv
<1>14. w \in [Zones -> SUBSET Nat] /\ b \in [Zones -> Nat]
    BY <1>8, <1>11, <1>12, <1>13 DEF Devs
<1>15. PICK f : f = [d.zone EXCEPT ![z] = y]
    OBVIOUS
<1>16. f \in [Zones -> ZoneDescs]
    BY <1>10, <1>13, <1>15
<1>17. PICK e : e = [r EXCEPT !.zone = f, !.written = w, !.zwb = b]
    OBVIOUS
<1>18. e = reset_zone(d, z)
  <2>1. r.zone = [d.zone EXCEPT ![z] = [d.zone[z] EXCEPT !.state = "EMPTY"]] /\ d.zone[z] \in ZoneDescs
    BY <1>5, <1>6, <1>13 DEF Made
  <2>2. [r.zone EXCEPT ![z].wp = s, ![z].zrwav = 0] = f
    <3>1. [[d.zone[z] EXCEPT !.state = "EMPTY"] EXCEPT !.wp = s, !.zrwav = 0] = y
      <4>1. PICK x \in ZoneDescs : x = d.zone[z]
        BY <2>1
      <4>2. PICK u : u = [[x EXCEPT !.state = "EMPTY"] EXCEPT !.wp = s, !.zrwav = 0]
        OBVIOUS
      <4>3. u \in ZoneDescs /\ u.state = "EMPTY" /\ u.wp = s /\ u.zrwav = 0
        BY <1>3, <4>2 DEF ZoneDescs
      <4>4. u = y
        BY <1>9, <4>3 DEF ZoneDescs
      <4> QED
        BY <4>1, <4>2, <4>4
    <3> QED
      BY <1>13, <1>15, <2>1, <3>1
  <2>3. reset_zone(d, z) =
            [r EXCEPT !.zone[z].wp = s, !.zone[z].zrwav = 0,
                      !.written[z] = {}, !.zwb[z] = IF cfg.zwb > 0 THEN cfg.zwb ELSE @]
    BY <1>1, <1>4, <1>7 DEF reset_zone
  <2>4. reset_zone(d, z) = [r EXCEPT !.zone = [r.zone EXCEPT ![z].wp = s, ![z].zrwav = 0],
                                     !.written = w, !.zwb = b]
    BY <1>11, <1>12, <1>13, <2>3 DEF Devs
  <2> QED
    BY <1>17, <2>2, <2>4
<1>19. e \in Devs /\ e.zone = f /\ e.written = w /\ e.res = c.res /\ e.zleaked = c.zleaked
    BY <1>6, <1>13, <1>14, <1>16, <1>17 DEF Made, Devs
<1>20. w[z] = {} /\ \A v \in Zones : v # z => w[v] = d.written[v]
    BY <1>5, <1>6, <1>11, <1>13 DEF Made, Devs
<1>21. ZoneInv(z, y, w[z])
    BY <1>7, <1>8, <1>9, <1>20 DEF ZoneInv
<1>22. DevInv(e)
  <2>1. y.state \notin Active
    BY <1>3, <1>9
  <2>2. e.zone = [d.zone EXCEPT ![z] = y] /\ ZoneInv(z, y, e.written[z])
    BY <1>15, <1>19, <1>21
  <2>3. \A v \in Zones : v # z => e.written[v] = d.written[v]
    BY <1>19, <1>20
  <2> QED
    BY <1>5, <1>10, <1>19, <2>1, <2>2, <2>3, RetireInv
<1> QED
    BY <1>18, <1>22

\* Zone z, which was not open, is open in e.
Opening(d, e, z, s) ==
    /\ e \in Devs /\ e.zone = [d.zone EXCEPT ![z] = [d.zone[z] EXCEPT !.state = s]]
    /\ e.written = d.written /\ e.zleaked = d.zleaked
    /\ e.res["OPEN"] = d.res["OPEN"] + 1
    /\ e.res["ACTIVE"] = d.res["ACTIVE"] + 1 - IsActive(d.zone[z])
    /\ e.res["ZRWA"] = d.res["ZRWA"]

\* An empty or a closed zone is opened.
LEMMA OpenMade ==
    ASSUME NEW d \in Devs, NEW z \in Zones, NEW s \in Opened,
           d.res["OPEN"] \in 0 .. NZones - 1, d.zone[z].state \in {"EMPTY", "CLOSED"},
           d.zone[z].state = "EMPTY" => d.res["ACTIVE"] \in 0 .. NZones - 1,
           NEW a, a = IF d.zone[z].state = "EMPTY" THEN acquire_zone_resource(d, "ACTIVE") ELSE d,
           NEW e, e = change_zone_state(acquire_zone_resource(a, "OPEN"), z, s)
    PROVE  Opening(d, e, z, s)
<1>0. /\ d.res \in [Types -> 0 .. NZones] /\ NZones \in Nat /\ s \in States
      /\ "OPEN" \in Types /\ "ACTIVE" \in Types /\ "ZRWA" \in Types
    BY ConfigsSound DEF Devs, Types, States, Active
<1>1. /\ a \in Devs /\ a.zone = d.zone /\ a.written = d.written /\ a.zleaked = d.zleaked
      /\ a.res["OPEN"] = d.res["OPEN"] /\ a.res["ZRWA"] = d.res["ZRWA"]
      /\ a.res["ACTIVE"] = d.res["ACTIVE"] + 1 - IsActive(d.zone[z])
  <2>1. CASE d.zone[z].state = "EMPTY"
    <3>1. Made(a, d.zone, [d.res EXCEPT !["ACTIVE"] = d.res["ACTIVE"] + 1], d.written, d.zleaked)
      BY <1>0, <2>1, AcquireMade
    <3>2. IsActive(d.zone[z]) = 0
      BY <2>1 DEF IsActive, Active, Opened
    <3> QED
      BY <1>0, <3>1, <3>2 DEF Made
  <2>2. CASE d.zone[z].state = "CLOSED"
    <3>1. IsActive(d.zone[z]) = 1 /\ a = d
      BY <2>2 DEF IsActive, Active, Opened
    <3> QED
      BY <1>0, <3>1
  <2> QED
    BY <2>1, <2>2
<1>2. PICK b : b = acquire_zone_resource(a, "OPEN")
    OBVIOUS
<1>3. Made(b, a.zone, [a.res EXCEPT !["OPEN"] = a.res["OPEN"] + 1], a.written, a.zleaked)
    BY <1>0, <1>1, <1>2, AcquireMade
<1>4. a.res \in [Types -> 0 .. NZones]
    BY <1>1 DEF Devs
<1>5. /\ b \in Devs /\ b.zone = d.zone /\ b.written = d.written /\ b.zleaked = d.zleaked
      /\ b.res["OPEN"] = d.res["OPEN"] + 1 /\ b.res["ZRWA"] = d.res["ZRWA"]
      /\ b.res["ACTIVE"] = d.res["ACTIVE"] + 1 - IsActive(d.zone[z])
    BY <1>0, <1>1, <1>3, <1>4 DEF Made
<1>6. Made(e, [b.zone EXCEPT ![z] = [b.zone[z] EXCEPT !.state = s]], b.res, b.written, b.zleaked)
    BY <1>0, <1>2, <1>5, StateMade
<1> QED
    BY <1>5, <1>6 DEF Opening, Made

\* Where the zone is and stays sound, opening it keeps the invariant.
LEMMA OpeningInv ==
    ASSUME cfg \in Configs, NEW d, DevInv(d), NEW z \in Zones, NEW s \in Opened, NEW e,
           d.zone[z].state \in {"EMPTY", "CLOSED"}, Opening(d, e, z, s)
    PROVE  DevInv(e)
<1>1. PICK x \in ZoneDescs : x = d.zone[z] /\ ZoneInv(z, x, d.written[z]) /\ d \in Devs
    BY Counted
<1>2. PICK y : y = [x EXCEPT !.state = s]
    OBVIOUS
<1>3. y \in ZoneDescs /\ y.state = s /\ y.wp = x.wp /\ y.zrwav = x.zrwav
    BY <1>2, NewState DEF States, Active
<1>4. IsOpen(x) = 0 /\ IsOpen(y) = 1 /\ IsActive(y) = 1 /\ HasZrwa(y) = HasZrwa(x)
  <2>1. IsOpen(x) = 0 /\ IsOpen(y) = 1 /\ IsActive(y) = 1
    BY <1>1, <1>3 DEF IsOpen, IsActive, Opened, Active
  <2>2. x.state = "EMPTY" => x.zrwav = 0
    BY <1>1 DEF ZoneInv
  <2>3. HasZrwa(y) = HasZrwa(x)
    BY <1>1, <1>3, <2>2 DEF HasZrwa, Opened, Active
  <2> QED
    BY <2>1, <2>3
<1>5. ZoneInv(z, y, e.written[z])
    BY <1>1, <1>3 DEF ZoneInv, Opening, Opened
<1>6. PICK k \in {0, 1}, j \in {0, 1} : k = HasZrwa(x) /\ j = IsActive(x)
    BY Ones
<1>7. d.zleaked \in Int /\ d.res["OPEN"] \in Int /\ d.res["ACTIVE"] \in Int /\ d.res["ZRWA"] \in Int
    BY <1>1, ConfigsSound DEF Devs, Types
<1>8. /\ e.res["OPEN"] = d.res["OPEN"] + 1 - 0
      /\ e.res["ACTIVE"] = d.res["ACTIVE"] + 1 - j
      /\ e.res["ZRWA"] = d.res["ZRWA"] + k - k + e.zleaked - d.zleaked
    BY <1>1, <1>6, <1>7 DEF Opening
<1>9. ZoneBecomes(d, e, z, y)
    BY <1>1, <1>2, <1>3, <1>4, <1>5, <1>6, <1>8 DEF ZoneBecomes, Opening
<1> QED
    BY <1>9, OneZone

\* Opening a zone, with a ZRWA or without, keeps the invariant.
LEMMA OpenInv ==
    ASSUME cfg \in Configs, NEW d, DevInv(d), NEW z \in Zones, NEW zrwa \in {0, 1}
    PROVE  DevInv(open_zone(d, z, zrwa))
<1> DEFINE state == d.zone[z].state
           short == \/ is_zone_resource_full(d, "ACTIVE") \/ is_zone_resource_full(d, "OPEN")
                    \/ (zrwa = 1 /\ is_zone_resource_full(d, "ZRWA"))
           f     == IF zrwa = 1
                    THEN [acquire_zone_resource(d, "ZRWA") EXCEPT !.zone[z].zrwav = 1] ELSE d
           fromEmpty  == change_zone_state(
                            acquire_zone_resource(acquire_zone_resource(f, "ACTIVE"), "OPEN"), z, "OPENED_EXPL")
           fromClosed == change_zone_state(acquire_zone_resource(d, "OPEN"), z, "OPENED_EXPL")
<1>0. open_zone(d, z, zrwa) =
        CASE state = "EMPTY" /\ ~short -> fromEmpty
          [] state = "CLOSED" /\ ~is_zone_resource_full(d, "OPEN") -> fromClosed
          [] state = "OPENED_IMPL" -> change_zone_state(d, z, "OPENED_EXPL")
          [] OTHER -> d
    BY DEF open_zone
<1>1. PICK x \in ZoneDescs : /\ x = d.zone[z] /\ ZoneInv(z, x, d.written[z]) /\ d \in Devs
                             /\ (x.state \notin Opened => d.res["OPEN"] \in 0 .. NZones - 1)
                             /\ (x.state \notin Active => d.res["ACTIVE"] \in 0 .. NZones - 1)
    BY Counted
<1>2. /\ d.res \in [Types -> 0 .. NZones] /\ NZones \in Nat /\ d.zone \in [Zones -> ZoneDescs]
      /\ "OPEN" \in Types /\ "ACTIVE" \in Types /\ "ZRWA" \in Types
      /\ "OPENED_EXPL" \in Opened /\ "OPENED_EXPL" \in States
    BY <1>1, ConfigsSound DEF Devs, Types, Opened, States, Active
<1>3. ASSUME state = "EMPTY", ~short
      PROVE  DevInv(fromEmpty)
  <2>1. x.state = "EMPTY" /\ x.state \notin Active /\ x.state \notin Opened /\ x.zrwav = 0
    BY <1>1, <1>3 DEF Active, Opened, ZoneInv
  <2>2. CASE zrwa = 0
    <3>1. f = d
      BY <2>2
    <3>2. PICK a : a = acquire_zone_resource(d, "ACTIVE")
      OBVIOUS
    <3>3. PICK e : e = change_zone_state(acquire_zone_resource(a, "OPEN"), z, "OPENED_EXPL")
      OBVIOUS
    <3>4. a = IF d.zone[z].state = "EMPTY" THEN acquire_zone_resource(d, "ACTIVE") ELSE d
      BY <1>3, <3>2
    <3>5. Opening(d, e, z, "OPENED_EXPL")
      BY <1>1, <1>2, <2>1, <3>3, <3>4, OpenMade
    <3>6. DevInv(e)
      BY <1>1, <1>2, <2>1, <3>5, OpeningInv
    <3> QED
      BY <3>1, <3>2, <3>3, <3>6
  <2>3. CASE zrwa = 1
    <3>1. d.res["ZRWA"] \in 0 .. NZones - 1
      BY <1>2, <1>3, <2>3 DEF is_zone_resource_full
    <3>2. PICK g : g = acquire_zone_resource(d, "ZRWA")
      OBVIOUS
    <3>3. Made(g, d.zone, [d.res EXCEPT !["ZRWA"] = d.res["ZRWA"] + 1], d.written, d.zleaked)
      BY <1>1, <1>2, <3>1, <3>2, AcquireMade
    <3>4. PICK v : v = [x EXCEPT !.zrwav = 1]
      OBVIOUS
    <3>5. v \in ZoneDescs /\ v.state = "EMPTY" /\ v.wp = x.wp /\ v.zrwav = 1
      BY <2>1, <3>4 DEF ZoneDescs
    <3>6. PICK h : h = [g EXCEPT !.zone = [g.zone EXCEPT ![z] = v]]
      OBVIOUS
    <3>7. h = f
      <4>1. f = [g EXCEPT !.zone[z].zrwav = 1]
        BY <2>3, <3>2
      <4>2. g \in Devs /\ g.zone[z] = x
        BY <1>1, <3>3 DEF Made
      <4> QED
        BY <3>4, <3>6, <4>1, <4>2 DEF Devs
    <3>8. Made(h, [g.zone EXCEPT ![z] = v], g.res, g.written, g.zleaked)
      <4>1. g \in Devs
        BY <3>3 DEF Made
      <4> QED
        BY <3>5, <3>6, <4>1, ZoneMade
    <3>9. /\ h \in Devs /\ h.zone = [d.zone EXCEPT ![z] = v] /\ h.zone[z] = v /\ h.written = d.written
          /\ h.zleaked = d.zleaked
          /\ h.res["OPEN"] = d.res["OPEN"] /\ h.res["ACTIVE"] = d.res["ACTIVE"]
          /\ h.res["ZRWA"] = d.res["ZRWA"] + 1
      BY <1>2, <3>3, <3>8 DEF Made
    <3>10. PICK a : a = acquire_zone_resource(h, "ACTIVE")
      OBVIOUS
    <3>11. PICK e : e = change_zone_state(acquire_zone_resource(a, "OPEN"), z, "OPENED_EXPL")
      OBVIOUS
    <3>12. a = IF h.zone[z].state = "EMPTY" THEN acquire_zone_resource(h, "ACTIVE") ELSE h
      BY <3>5, <3>9, <3>10
    <3>13. Opening(h, e, z, "OPENED_EXPL")
      <4>1. h.res["OPEN"] \in 0 .. NZones - 1 /\ h.res["ACTIVE"] \in 0 .. NZones - 1
            /\ h.zone[z].state = "EMPTY"
        BY <1>1, <2>1, <3>5, <3>9
      <4> QED
        BY <1>2, <3>9, <3>11, <3>12, <4>1, OpenMade
    <3>14. PICK y : y = [v EXCEPT !.state = "OPENED_EXPL"]
      OBVIOUS
    <3>15. y \in ZoneDescs /\ y.state = "OPENED_EXPL" /\ y.wp = x.wp /\ y.zrwav = 1
      BY <1>2, <3>5, <3>14, NewState
    <3>16. e \in Devs /\ e.zone = [d.zone EXCEPT ![z] = y] /\ e.written = d.written /\ e.zleaked = d.zleaked
      BY <1>2, <3>9, <3>13, <3>14 DEF Opening
    <3>17. ZoneInv(z, y, e.written[z])
      BY <1>1, <2>1, <3>15 DEF ZoneInv
    <3>18. /\ IsOpen(x) = 0 /\ IsOpen(y) = 1 /\ IsActive(x) = 0 /\ IsActive(y) = 1 /\ IsActive(v) = 0
           /\ HasZrwa(x) = 0 /\ HasZrwa(y) = 1
      BY <2>1, <3>5, <3>15 DEF IsOpen, IsActive, HasZrwa, Opened, Active
    <3>19. /\ e.res["OPEN"] = d.res["OPEN"] + 1 /\ e.res["ACTIVE"] = d.res["ACTIVE"] + 1 - 0
           /\ e.res["ZRWA"] = d.res["ZRWA"] + 1
      BY <3>9, <3>13, <3>18 DEF Opening
    <3>20. d.zleaked \in Int /\ d.res["OPEN"] \in Int /\ d.res["ACTIVE"] \in Int /\ d.res["ZRWA"] \in Int
      BY <1>1, <1>2 DEF Devs
    <3>21. /\ e.res["OPEN"] = d.res["OPEN"] + 1 - 0 /\ e.res["ACTIVE"] = d.res["ACTIVE"] + 1 - 0
           /\ e.res["ZRWA"] = d.res["ZRWA"] + 1 - 0 + e.zleaked - d.zleaked
      BY <3>16, <3>19, <3>20
    <3>22. ZoneBecomes(d, e, z, y)
      BY <1>1, <3>15, <3>16, <3>17, <3>18, <3>21 DEF ZoneBecomes
    <3>23. DevInv(e)
      BY <3>22, OneZone
    <3> QED
      BY <3>7, <3>10, <3>11, <3>23
  <2> QED
    BY <2>2, <2>3
<1>4. ASSUME state = "CLOSED", ~is_zone_resource_full(d, "OPEN")
      PROVE  DevInv(fromClosed)
  <2>1. PICK e : e = change_zone_state(acquire_zone_resource(d, "OPEN"), z, "OPENED_EXPL")
    OBVIOUS
  <2>2. d = IF d.zone[z].state = "EMPTY" THEN acquire_zone_resource(d, "ACTIVE") ELSE d
    BY <1>4
  <2>3. d.res["OPEN"] \in 0 .. NZones - 1
    BY <1>2, <1>4 DEF is_zone_resource_full
  <2>4. Opening(d, e, z, "OPENED_EXPL")
    BY <1>1, <1>2, <1>4, <2>1, <2>2, <2>3, OpenMade
  <2>5. DevInv(e)
    BY <1>1, <1>2, <1>4, <2>4, OpeningInv
  <2> QED
    BY <2>1, <2>5
<1>5. ASSUME state = "OPENED_IMPL"
      PROVE  DevInv(change_zone_state(d, z, "OPENED_EXPL"))
  <2>1. PICK e : e = change_zone_state(d, z, "OPENED_EXPL")
    OBVIOUS
  <2>2. PICK y : y = [x EXCEPT !.state = "OPENED_EXPL"]
    OBVIOUS
  <2>3. y \in ZoneDescs /\ y.state = "OPENED_EXPL" /\ y.wp = x.wp /\ y.zrwav = x.zrwav
    BY <1>2, <2>2, NewState
  <2>4. Made(e, [d.zone EXCEPT ![z] = y], d.res, d.written, d.zleaked)
    BY <1>1, <1>2, <2>1, <2>2, StateMade
  <2>5. x.state = "OPENED_IMPL" /\ ZoneInv(z, y, e.written[z])
    BY <1>1, <1>5, <2>3, <2>4 DEF ZoneInv, Made
  <2>6. IsOpen(x) = 1 /\ IsOpen(y) = 1 /\ IsActive(x) = 1 /\ IsActive(y) = 1 /\ HasZrwa(x) = HasZrwa(y)
    BY <2>3, <2>5 DEF IsOpen, IsActive, HasZrwa, Opened, Active
  <2>7. PICK k \in {0, 1} : k = HasZrwa(x)
    BY Ones
  <2>8. d.zleaked \in Int /\ d.res["OPEN"] \in Int /\ d.res["ACTIVE"] \in Int /\ d.res["ZRWA"] \in Int
    BY <1>1, <1>2 DEF Devs
  <2>9. /\ e.res["OPEN"] = d.res["OPEN"] + 1 - 1 /\ e.res["ACTIVE"] = d.res["ACTIVE"] + 1 - 1
        /\ e.res["ZRWA"] = d.res["ZRWA"] + k - k + e.zleaked - d.zleaked
    BY <2>4, <2>8 DEF Made
  <2>10. ZoneBecomes(d, e, z, y)
    BY <1>1, <2>3, <2>4, <2>5, <2>6, <2>7, <2>9 DEF ZoneBecomes, Made
  <2> QED
    BY <2>1, <2>10, OneZone
<1> HIDE DEF state, short, fromEmpty, fromClosed
<1> QED
    BY <1>0, <1>3, <1>4, <1>5

\* The write pointer of one zone is replaced.
LEMMA WpMade ==
    ASSUME NEW d \in Devs, NEW z \in Zones, NEW n \in Nat, NEW x, x = [d.zone[z] EXCEPT !.wp = n],
           NEW e, e = [d EXCEPT !.zone[z].wp = n]
    PROVE  /\ x \in ZoneDescs /\ x.state = d.zone[z].state /\ x.wp = n /\ x.zrwav = d.zone[z].zrwav
           /\ Made(e, [d.zone EXCEPT ![z] = x], d.res, d.written, d.zleaked)
<1>1. PICK v \in ZoneDescs : v = d.zone[z] /\ d.zone \in [Zones -> ZoneDescs]
    BY DEF Devs
<1>2. x \in ZoneDescs /\ x.state = v.state /\ x.wp = n /\ x.zrwav = v.zrwav
    BY <1>1 DEF ZoneDescs
<1>3. e = [d EXCEPT !.zone = [d.zone EXCEPT ![z] = x]]
    BY <1>1 DEF Devs
<1>4. Made(e, [d.zone EXCEPT ![z] = x], d.res, d.written, d.zleaked)
    BY <1>2, <1>3, ZoneMade
<1> QED
    BY <1>1, <1>2, <1>4

\* An explicit flush of a ZRWA keeps the invariant.
LEMMA FlushInv ==
    ASSUME cfg \in Configs, NEW d, DevInv(d), NEW slba \in Nat, lba_to_zone(slba) \in Zones
    PROVE  DevInv(flush_explicit_zrwa(d, slba))
<1>1. PICK z \in Zones : z = lba_to_zone(slba)
    OBVIOUS
<1>2. PICK x \in ZoneDescs : x = d.zone[z] /\ ZoneInv(z, x, d.written[z]) /\ d \in Devs
    BY Counted
<1>3. /\ z \in Nat /\ zone_to_slba(z) \in Nat /\ cfg.size \in Nat
      /\ zone_to_slba(z) <= slba /\ slba < zone_to_slba(z) + cfg.size
      /\ zone_to_slba(z + 1) = zone_to_slba(z) + cfg.size
    BY <1>1, Addr, CfgFacts
<1>4. PICK moved : moved = [d EXCEPT !.zone[z].wp = slba + 1]
    OBVIOUS
<1>5. PICK y : y = [d.zone[z] EXCEPT !.wp = slba + 1]
    OBVIOUS
<1>6. /\ y \in ZoneDescs /\ y.state = x.state /\ y.wp = slba + 1 /\ y.zrwav = x.zrwav
      /\ Made(moved, [d.zone EXCEPT ![z] = y], d.res, d.written, d.zleaked)
  <2>1. slba + 1 \in Nat
    OBVIOUS
  <2> QED
    BY <1>2, <1>4, <1>5, <2>1, WpMade
<1>7. moved \in Devs /\ moved.zone = [d.zone EXCEPT ![z] = y] /\ moved.zone[z] = y
      /\ moved.res = d.res /\ moved.written = d.written /\ moved.zleaked = d.zleaked
    BY <1>2, <1>6 DEF Made, Devs
<1>8. HasZrwa(x) = HasZrwa(y) /\ IsOpen(x) = IsOpen(y) /\ IsActive(x) = IsActive(y)
    BY <1>6 DEF HasZrwa, IsOpen, IsActive
<1>9. ASSUME x.zrwav = 1, x.state \in Active, slba + 1 # zone_to_slba(z) + cfg.size
      PROVE  DevInv(moved)
  <2>1. ZoneInv(z, y, moved.written[z])
    BY <1>3, <1>6, <1>9 DEF ZoneInv, Active, Opened
  <2>2. PICK i \in {0, 1}, j \in {0, 1}, k \in {0, 1} : i = IsOpen(x) /\ j = IsActive(x) /\ k = HasZrwa(x)
    BY Ones
  <2>3. d.zleaked \in Int /\ d.res["OPEN"] \in Int /\ d.res["ACTIVE"] \in Int /\ d.res["ZRWA"] \in Int
    BY <1>2, ConfigsSound DEF Devs, Types
  <2>4. /\ moved.res["OPEN"] = d.res["OPEN"] + i - i /\ moved.res["ACTIVE"] = d.res["ACTIVE"] + j - j
        /\ moved.res["ZRWA"] = d.res["ZRWA"] + k - k + moved.zleaked - d.zleaked
    BY <1>7, <2>3
  <2>5. ZoneBecomes(d, moved, z, y)
    BY <1>2, <1>6, <1>7, <1>8, <2>1, <2>2, <2>4 DEF ZoneBecomes
  <2> QED
    BY <2>5, OneZone
<1>10. ASSUME x.zrwav = 1, x.state \in Active, slba + 1 = zone_to_slba(z) + cfg.size
       PROVE  DevInv(change_zone_state(ReleaseAll(moved, z), z, "FULL"))
  <2>1. CanRelease(moved, z)
    BY <1>2, <1>6, <1>7, Counted DEF CanRelease
  <2>2. PICK c : c = ReleaseAll(moved, z)
    OBVIOUS
  <2>3. Released(moved, c, z)
    BY <2>1, <2>2, AllReleased
  <2>4. c \in Devs /\ c.zone = [d.zone EXCEPT ![z] = y] /\ c.zone[z] = y /\ c.written = d.written /\ GivesBack(d, c, z)
    BY <1>2, <1>7, <1>8, <2>3 DEF Released, GivesBack
  <2>5. "FULL" \in States /\ "FULL" \notin Active
    BY DEF States, Active, Opened
  <2>6. PICK u : u = [y EXCEPT !.state = "FULL"]
    OBVIOUS
  <2>7. u \in ZoneDescs /\ u.state = "FULL" /\ u.wp = y.wp /\ u.zrwav = y.zrwav
    BY <1>6, <2>5, <2>6, NewState
  <2>8. PICK e : e = change_zone_state(c, z, "FULL")
    OBVIOUS
  <2>9. Made(e, [c.zone EXCEPT ![z] = u], c.res, c.written, c.zleaked)
    BY <2>4, <2>5, <2>6, <2>8, StateMade
  <2>10. /\ e \in Devs /\ e.zone = [d.zone EXCEPT ![z] = u] /\ e.res = c.res /\ e.zleaked = c.zleaked
         /\ e.written = d.written
    BY <2>4, <2>9 DEF Made
  <2>11. ZoneInv(z, u, e.written[z])
    BY <1>3, <1>6, <1>10, <2>7 DEF ZoneInv
  <2>12. DevInv(e)
    BY <2>4, <2>5, <2>7, <2>10, <2>11, RetireInv
  <2> QED
    BY <2>2, <2>8, <2>12
<1>11. PICK k : k = ((slba - x.wp + 1) % U64) % cfg.fg
    OBVIOUS
<1>12. flush_explicit_zrwa(d, slba) =
        IF ~FlushDivides(d, slba) \/ k # 0 \/ x.state \notin Active THEN d
        ELSE IF slba + 1 = zone_to_slba(z) + cfg.size
             THEN change_zone_state(ReleaseAll(moved, z), z, "FULL")
             ELSE moved
    BY <1>1, <1>2, <1>4, <1>11 DEF flush_explicit_zrwa
<1>13. FlushDivides(d, slba) => x.zrwav = 1
    BY <1>1, <1>2 DEF FlushDivides
<1> QED
    BY <1>9, <1>10, <1>12, <1>13

\* A management command for one zone keeps the invariant.
LEMMA SendInv ==
    ASSUME cfg \in Configs, NEW d, DevInv(d), NEW c \in Cmds, NEW slba \in Nat, lba_to_zone(slba) \in Zones
    PROVE  DevInv(zmgmt_send(d, c, slba))
<1>1. PICK z \in Zones : z = lba_to_zone(slba)
    OBVIOUS
<1>2. c.opt \in {0, 1}
    BY DEF Cmds
<1>3. /\ DevInv(close_zone(d, z)) /\ DevInv(finish_zone(d, z)) /\ DevInv(open_zone(d, z, c.opt))
      /\ DevInv(reset_zone(d, z)) /\ DevInv(flush_explicit_zrwa(d, slba))
    BY <1>2, CloseZoneInv, FinishInv, OpenInv, ResetInv, FlushInv
<1> QED
    BY <1>1, <1>3 DEF zmgmt_send

\* What each command for a zone keeps, a command for all zones keeps.
LEMMA SendAllKept ==
    ASSUME cfg \in Configs, NEW S, NEW d \in S, NEW c,
           \A v \in S, z \in Zones : zmgmt_send(v, c, zone_to_slba(z)) \in S
    PROVE  SendToAll(d, c) \in S
<1> DEFINE after(n, v) == zmgmt_send(v, c, zone_to_slba(n - 1))
           Follows(h) == h = [n \in 0 .. NZones |-> IF n = 0 THEN d ELSE after(n, h[n - 1])]
           step == [p \in (1 .. NZones) \X S |-> after(p[1], p[2])]
<1>0. NZones \in Nat
    BY ConfigsSound
<1>1. ASSUME NEW n \in 1 .. NZones, NEW v \in S
      PROVE  after(n, v) \in S
  <2>1. n - 1 \in Zones
    BY <1>0 DEF Zones
  <2> QED
    BY <2>1
<1>2. \A p \in (1 .. NZones) \X S : step[p] = after(p[1], p[2]) /\ after(p[1], p[2]) \in S
  <2> SUFFICES ASSUME NEW p \in (1 .. NZones) \X S
               PROVE  step[p] = after(p[1], p[2]) /\ after(p[1], p[2]) \in S
    OBVIOUS
  <2>1. p[1] \in 1 .. NZones /\ p[2] \in S
    OBVIOUS
  <2> HIDE DEF after
  <2> QED
    BY <1>1, <2>1
<1> HIDE DEF after
<1>3. step \in [(1 .. NZones) \X S -> S]
    BY <1>2
<1>4. PICK st : st = step
    OBVIOUS
<1>5. st \in [(1 .. NZones) \X S -> S] /\ \A p \in (1 .. NZones) \X S : st[p] = after(p[1], p[2])
    BY <1>2, <1>3, <1>4
<1> HIDE DEF step
<1>6. PICK g : IsPath(g, NZones, S, d, st)
    BY <1>0, <1>5, PathExists
<1>7. g \in [0 .. NZones -> S]
      /\ \A i \in 0 .. NZones : g[i] = IF i = 0 THEN d ELSE st[<<i, g[i - 1]>>]
    BY <1>6 DEF IsPath
<1>8. ASSUME NEW i \in 0 .. NZones
      PROVE  g[i] = IF i = 0 THEN d ELSE after(i, g[i - 1])
  <2>1. CASE i = 0
    BY <2>1, <1>7
  <2>2. CASE i # 0
    <3>1. i \in 1 .. NZones /\ i - 1 \in 0 .. NZones /\ g[i - 1] \in S
      BY <1>0, <1>7, <2>2
    <3>2. <<i, g[i - 1]>> \in (1 .. NZones) \X S
      BY <3>1
    <3>3. st[<<i, g[i - 1]>>] = after(i, g[i - 1])
      BY <1>5, <3>2
    <3> QED
      BY <2>2, <3>3, <1>7
  <2> QED
    BY <2>1, <2>2
<1>9. Follows(g)
    BY <1>7, <1>8
<1> DEFINE at == CHOOSE h : Follows(h)
<1>10. SendToAll(d, c) = at[NZones]
    BY DEF SendToAll, after
<1>11. Follows(at)
  <2> HIDE DEF Follows
  <2> QED
    BY <1>9
<1> HIDE DEF at
<1>12. \A n \in 0 .. NZones : at[n] = IF n = 0 THEN d ELSE after(n, at[n - 1])
    BY <1>11
<1> DEFINE T == {n \in 0 .. NZones : at[n] \in S}
<1>13. 0 \in T
    BY <1>0, <1>12
<1>14. ASSUME NEW n \in 0 .. NZones - 1, n \in T
       PROVE  n + 1 \in T
  <2>1. n + 1 \in 1 .. NZones /\ n + 1 \in 0 .. NZones /\ n + 1 # 0 /\ (n + 1) - 1 = n /\ at[n] \in S
    BY <1>0, <1>14
  <2>2. at[n + 1] = after(n + 1, at[n])
    BY <1>12, <2>1
  <2> QED
    BY <1>1, <2>1, <2>2
<1>15. \A n \in 0 .. NZones : n \in T
  <2> HIDE DEF T
  <2> QED
    BY <1>0, <1>13, <1>14, UpTo
<1>16. at[NZones] \in S
    BY <1>0, <1>15
<1> QED
    BY <1>10, <1>16

\* A command for all zones keeps the invariant, one zone after the other.
LEMMA SendAllInv ==
    ASSUME cfg \in Configs, NEW d, DevInv(d), NEW c \in Cmds
    PROVE  DevInv(SendToAll(d, c))
<1>1. PICK S : S = {v \in Devs : DevInv(v)}
    OBVIOUS
<1>2. \A v \in S, z \in Zones : zmgmt_send(v, c, zone_to_slba(z)) \in S
  <2> SUFFICES ASSUME NEW v \in S, NEW z \in Zones
               PROVE  zmgmt_send(v, c, zone_to_slba(z)) \in S
    OBVIOUS
  <2>1. zone_to_slba(z) \in Nat /\ lba_to_zone(zone_to_slba(z)) = z
    BY ZoneStart
  <2>2. DevInv(v)
    BY <1>1
  <2>3. DevInv(zmgmt_send(v, c, zone_to_slba(z)))
    BY <2>1, <2>2, SendInv
  <2> QED
    BY <1>1, <2>3 DEF DevInv
<1>3. d \in S
    BY <1>1 DEF DevInv
<1>4. SendToAll(d, c) \in S
    BY <1>2, <1>3, SendAllKept
<1> QED
    BY <1>1, <1>4

-----------------------------------------------------------------------------
(* Writes. *)

\* In o zone z of d is open, with its descriptor x, and about to be written.
Prepared(d, o, z, x) ==
    /\ o \in Devs /\ x \in ZoneDescs /\ o.zone = [d.zone EXCEPT ![z] = x]
    /\ x.state \in Opened /\ x.wp = d.zone[z].wp /\ x.zrwav = d.zone[z].zrwav
    /\ o.zleaked = d.zleaked
    /\ o.res["OPEN"] = d.res["OPEN"] + 1 - IsOpen(d.zone[z])
    /\ o.res["ACTIVE"] = d.res["ACTIVE"] + 1 - IsActive(d.zone[z])
    /\ o.res["ZRWA"] = d.res["ZRWA"] + HasZrwa(x) - HasZrwa(d.zone[z])
    /\ \A y \in Zones : y # z => o.written[y] = d.written[y]

\* Moving the write pointer of a zone keeps the invariant, whether the zone
\* gets full or not.
LEMMA AdvanceInv ==
    ASSUME cfg \in Configs, NEW d, DevInv(d), NEW z \in Zones, NEW o, NEW x, Prepared(d, o, z, x),
           NEW n \in Nat, n > 0, x.wp + n <= zone_to_slba(z + 1),
           x.zrwav = 0 => o.written[z] = zone_to_slba(z) .. x.wp + n - 1
    PROVE  DevInv(increase_write_ptr(o, z, n))
<1>1. PICK v \in ZoneDescs : v = d.zone[z] /\ ZoneInv(z, v, d.written[z]) /\ d \in Devs
                             /\ (v.state \in Opened => d.res["OPEN"] \in 1 .. NZones)
                             /\ (v.state \in Active => d.res["ACTIVE"] \in 1 .. NZones)
    BY Counted
<1>2. /\ d.zleaked \in Int /\ d.res["OPEN"] \in 0 .. NZones /\ d.res["ACTIVE"] \in 0 .. NZones
      /\ d.res["ZRWA"] \in 0 .. NZones /\ NZones \in Nat /\ d.zone \in [Zones -> ZoneDescs]
    BY <1>1, ConfigsSound DEF Devs, Types
<1>3. PICK i \in {0, 1}, j \in {0, 1}, k \in {0, 1} : i = IsOpen(v) /\ j = IsActive(v) /\ k = HasZrwa(v)
    BY Ones
<1>4. /\ o \in Devs /\ x \in ZoneDescs /\ o.zone = [d.zone EXCEPT ![z] = x] /\ o.zone[z] = x
      /\ x.state \in Opened /\ x.wp = v.wp /\ x.zrwav = v.zrwav /\ o.zleaked = d.zleaked
      /\ \A y \in Zones : y # z => o.written[y] = d.written[y]
    BY <1>1, <1>2 DEF Prepared
<1>5. x.zrwav \in {0, 1} /\ x.wp \in Nat /\ HasZrwa(x) = x.zrwav
    BY <1>4 DEF ZoneDescs, HasZrwa, Active
<1>6. /\ o.res["OPEN"] = d.res["OPEN"] + 1 - i /\ o.res["ACTIVE"] = d.res["ACTIVE"] + 1 - j
      /\ o.res["ZRWA"] = d.res["ZRWA"] + x.zrwav - k
    BY <1>1, <1>3, <1>5 DEF Prepared
<1>7. o.res["OPEN"] \in 1 .. NZones /\ o.res["ACTIVE"] \in 1 .. NZones /\ o.res \in [Types -> 0 .. NZones]
  <2>1. o.res \in [Types -> 0 .. NZones] /\ o.res["OPEN"] \in 0 .. NZones /\ o.res["ACTIVE"] \in 0 .. NZones
    BY <1>4 DEF Devs, Types
  <2>2. (i = 1 => d.res["OPEN"] >= 1) /\ (j = 1 => d.res["ACTIVE"] >= 1)
    BY <1>1, <1>2, <1>3, Ones
  <2>3. o.res["OPEN"] >= 1
    BY <1>2, <1>6, <2>1, <2>2
  <2>4. o.res["ACTIVE"] >= 1
    BY <1>2, <1>6, <2>1, <2>2
  <2> QED
    BY <1>2, <2>1, <2>3, <2>4
<1>8. PICK m \in Nat : m = x.wp + n
    BY <1>5
<1>9. PICK moved : moved = [o EXCEPT !.zone[z].wp = m]
    OBVIOUS
<1>10. PICK y : y = [x EXCEPT !.wp = m]
    OBVIOUS
<1>11. /\ y \in ZoneDescs /\ y.state = x.state /\ y.wp = m /\ y.zrwav = x.zrwav
       /\ Made(moved, [o.zone EXCEPT ![z] = y], o.res, o.written, o.zleaked)
  <2>1. y = [o.zone[z] EXCEPT !.wp = m]
    BY <1>4, <1>10
  <2>2. /\ y \in ZoneDescs /\ y.state = o.zone[z].state /\ y.wp = m /\ y.zrwav = o.zone[z].zrwav
        /\ Made(moved, [o.zone EXCEPT ![z] = y], o.res, o.written, o.zleaked)
    <3>1. o \in Devs
      BY <1>4
    <3> QED
      BY <1>9, <2>1, <3>1, WpMade
  <2> QED
    BY <1>4, <2>2
<1>12. /\ moved \in Devs /\ moved.zone = [d.zone EXCEPT ![z] = y] /\ moved.zone[z] = y
       /\ moved.res = o.res /\ moved.written = o.written /\ moved.zleaked = o.zleaked
    BY <1>2, <1>4, <1>11 DEF Made
<1>13. /\ zone_to_slba(z) \in Nat /\ zone_to_slba(z + 1) = zone_to_slba(z) + cfg.size /\ cfg.size \in Nat
    BY Addr, CfgFacts
<1>14. moved = [o EXCEPT !.zone[z].wp = @ + n]
    BY <1>4, <1>8, <1>9 DEF Devs
<1>15. CASE m # zone_to_slba(z) + cfg.size
  <2>1. increase_write_ptr(o, z, n) = moved
    BY <1>11, <1>12, <1>14, <1>15 DEF increase_write_ptr
  <2>2. ZoneInv(z, y, moved.written[z])
    BY <1>1, <1>4, <1>5, <1>8, <1>11, <1>12, <1>13, <1>15 DEF ZoneInv, Opened
  <2>3. IsOpen(y) = 1 /\ IsActive(y) = 1 /\ HasZrwa(y) = x.zrwav
    BY <1>4, <1>5, <1>11 DEF IsOpen, IsActive, HasZrwa, Active
  <2>4. moved.res["ZRWA"] = d.res["ZRWA"] + x.zrwav - k + moved.zleaked - d.zleaked
    <3>1. moved.zleaked = d.zleaked /\ moved.res["ZRWA"] = o.res["ZRWA"]
      BY <1>4, <1>12
    <3>2. PICK p \in Int, r \in Int : p = d.zleaked /\ r = d.res["ZRWA"]
      BY <1>2
    <3>3. PICK u \in Int : u = x.zrwav
      BY <1>5
    <3>4. r + u - k = r + u - k + p - p
      OBVIOUS
    <3> QED
      BY <1>6, <3>1, <3>2, <3>3, <3>4
  <2>5. ZoneBecomes(d, moved, z, y)
    BY <1>1, <1>3, <1>4, <1>6, <1>11, <1>12, <2>2, <2>3, <2>4 DEF ZoneBecomes
  <2> QED
    BY <2>1, <2>5, OneZone
<1>16. CASE m = zone_to_slba(z) + cfg.size
  <2>1. PICK r : r = release_zone_resource(moved, "OPEN")
    OBVIOUS
  <2>2. "OPEN" \in Types /\ "ACTIVE" \in Types /\ "ZRWA" \in Types /\ "FULL" \in States
    BY DEF Types, States
  <2>3. Made(r, moved.zone, [moved.res EXCEPT !["OPEN"] = moved.res["OPEN"] - 1], moved.written, moved.zleaked)
    BY <1>7, <1>12, <2>1, <2>2, ReleaseMade
  <2>4. /\ r \in Devs /\ r.zone = moved.zone /\ r.written = o.written /\ r.zleaked = d.zleaked
        /\ r.res["OPEN"] = o.res["OPEN"] - 1 /\ r.res["ACTIVE"] = o.res["ACTIVE"] /\ r.res["ZRWA"] = o.res["ZRWA"]
    BY <1>4, <1>7, <1>12, <2>2, <2>3 DEF Made
  <2>5. PICK s : s = release_zone_resource(r, "ACTIVE")
    OBVIOUS
  <2>6. Made(s, r.zone, [r.res EXCEPT !["ACTIVE"] = r.res["ACTIVE"] - 1], r.written, r.zleaked)
    BY <1>7, <2>2, <2>4, <2>5, ReleaseMade
  <2>7. r.res \in [Types -> 0 .. NZones]
    BY <2>4 DEF Devs
  <2>8. /\ s \in Devs /\ s.zone = moved.zone /\ s.written = o.written /\ s.zleaked = d.zleaked
        /\ s.res["OPEN"] = o.res["OPEN"] - 1 /\ s.res["ACTIVE"] = o.res["ACTIVE"] - 1
        /\ s.res["ZRWA"] = o.res["ZRWA"]
    BY <2>2, <2>4, <2>6, <2>7 DEF Made
  <2>9. PICK f : f = change_zone_state(s, z, "FULL")
    OBVIOUS
  <2>10. PICK u : u = [y EXCEPT !.state = "FULL"]
    OBVIOUS
  <2>11. u \in ZoneDescs /\ u.state = "FULL" /\ u.wp = m /\ u.zrwav = x.zrwav
    BY <1>11, <2>2, <2>10, NewState
  <2>12. Made(f, [s.zone EXCEPT ![z] = u], s.res, s.written, s.zleaked)
    BY <1>12, <2>2, <2>8, <2>9, <2>10, StateMade
  <2>13. f \in Devs /\ f.zone = [d.zone EXCEPT ![z] = u] /\ f.res = s.res /\ f.written = o.written
         /\ f.zleaked = d.zleaked
    BY <1>12, <2>8, <2>12 DEF Made
  <2>14. PICK e : e = [f EXCEPT !.zleaked = d.zleaked + x.zrwav]
    OBVIOUS
  <2>15. d.zleaked + x.zrwav \in Nat
    BY <1>1, <1>5 DEF Devs
  <2>16. /\ e \in Devs /\ e.zone = [d.zone EXCEPT ![z] = u] /\ e.res = s.res /\ e.written = o.written
         /\ e.zleaked = d.zleaked + x.zrwav
    BY <2>13, <2>14, <2>15 DEF Devs
  <2>17. increase_write_ptr(o, z, n) = e
    <3>1. f = change_zone_state(release_zone_resource(release_zone_resource(moved, "OPEN"), "ACTIVE"), z, "FULL")
      BY <2>1, <2>5, <2>9
    <3>2. increase_write_ptr(o, z, n) = [f EXCEPT !.zleaked = @ + o.zone[z].zrwav]
      BY <1>11, <1>12, <1>14, <1>16, <3>1 DEF increase_write_ptr
    <3> QED
      BY <1>4, <2>13, <2>14, <3>2 DEF Devs
  <2>18. ZoneInv(z, u, e.written[z])
    BY <1>1, <1>4, <1>5, <1>8, <1>13, <1>16, <2>11, <2>16 DEF ZoneInv
  <2>19. IsOpen(u) = 0 /\ IsActive(u) = 0 /\ HasZrwa(u) = 0
    BY <2>11 DEF IsOpen, IsActive, HasZrwa, Active, Opened
  <2>20. /\ e.res["OPEN"] = d.res["OPEN"] + 0 - i /\ e.res["ACTIVE"] = d.res["ACTIVE"] + 0 - j
         /\ e.res["ZRWA"] = d.res["ZRWA"] + 0 - k + e.zleaked - d.zleaked
    <3>0. /\ e.res["OPEN"] = o.res["OPEN"] - 1 /\ e.res["ACTIVE"] = o.res["ACTIVE"] - 1
          /\ e.res["ZRWA"] = o.res["ZRWA"]
      BY <2>8, <2>16, Zenon
    <3>2. d.res["OPEN"] \in Int /\ d.res["ACTIVE"] \in Int /\ d.res["ZRWA"] \in Int /\ d.zleaked \in Int
          /\ x.zrwav \in Int /\ i \in Int /\ j \in Int /\ k \in Int
      BY <1>2, <1>5
    <3>3. e.zleaked = d.zleaked + x.zrwav
      BY <2>16
    <3>4. e.res["OPEN"] = d.res["OPEN"] + 0 - i
      BY <1>6, <3>0, <3>2
    <3>6. e.res["ACTIVE"] = d.res["ACTIVE"] + 0 - j
      BY <1>6, <3>0, <3>2
    <3>5. e.res["ZRWA"] = d.res["ZRWA"] + 0 - k + e.zleaked - d.zleaked
      BY <1>6, <3>0, <3>2, <3>3
    <3> QED
      BY <3>4, <3>5, <3>6
  <2>21. ZoneBecomes(d, e, z, u)
    BY <1>1, <1>3, <1>4, <2>11, <2>16, <2>18, <2>19, <2>20 DEF ZoneBecomes
  <2> QED
    BY <2>17, <2>21, OneZone
<1> QED
    BY <1>15, <1>16

\* The command at the head of a queue, when it is a write to an existing zone.
LEMMA WriteHead ==
    ASSUME IInv, NEW q \in SQs, IsWrite(q), ZoneOf(q) \in Zones
    PROVE  /\ cfg \in Configs /\ DevInv(dev) /\ CmdInv(sq[q]) /\ sq[q] \in Cmds
           /\ sq[q].slba \in Nat /\ sq[q].n \in Nat /\ sq[q].n >= 1
           /\ dev.zone[ZoneOf(q)] \in ZoneDescs /\ dev.zone[ZoneOf(q)].wp \in Nat
           /\ StartOf(q) \in Nat /\ BufOf(ZoneOf(q)) \in Zones
<1>1. cfg \in Configs /\ DevInv(dev) /\ CmdInv(sq[q]) /\ sq[q] \in Cmds
    BY DEF IInv, IsWrite, CmdInv
<1>2. sq[q].slba \in Nat /\ sq[q].n \in Nat /\ sq[q].n >= 1
    BY <1>1 DEF Cmds, CmdInv, IsWrite
<1>3. dev.zone[ZoneOf(q)] \in ZoneDescs
    BY <1>1, Counted
<1>4. dev.zone[ZoneOf(q)].wp \in Nat
    BY <1>3 DEF ZoneDescs
<1>5. BufOf(ZoneOf(q)) \in Zones
    BY <1>1, BufIn
<1> QED
    BY <1>1, <1>2, <1>3, <1>4, <1>5 DEF StartOf

\* What the checks of a write leave: it begins at the write pointer, stays in
\* its zone, and finds the resources to open it.
LEMMA WriteChecked ==
    ASSUME IInv, NEW q \in SQs, IsWrite(q), NEW z \in Zones, z = ZoneOf(q),
           NEW x, x = dev.zone[z], WriteStatus(z, StartOf(q), sq[q].n) = "SUCCESS"
    PROVE  /\ StartOf(q) = x.wp /\ x.state # "FULL" /\ lba_to_zone(x.wp) = z
           /\ x.wp + sq[q].n <= zone_to_slba(z + 1)
           /\ x.state = "EMPTY" => dev.res["ACTIVE"] # NZones
           /\ x.state \in {"EMPTY", "CLOSED"} => dev.res["OPEN"] # NZones
<1>1. /\ cfg \in Configs /\ DevInv(dev) /\ x \in ZoneDescs /\ x.wp \in Nat
      /\ sq[q].n \in Nat /\ sq[q].n >= 1 /\ StartOf(q) \in Nat
    BY WriteHead
<1>2. PICK slba, n \in Nat : slba = StartOf(q) /\ n = sq[q].n /\ n >= 1
    BY <1>1
<1>3. /\ SameZone(slba, n) /\ slba = x.wp /\ x.state # "FULL"
      /\ x.state = "EMPTY" => dev.res["ACTIVE"] # NZones
      /\ x.state \in {"EMPTY", "CLOSED"} => dev.res["OPEN"] # NZones
    BY <1>2 DEF WriteStatus, is_zone_resource_full
<1>4. ZoneInv(z, x, dev.written[z]) /\ z \in Nat
    BY <1>1, Counted, Addr
<1>5. /\ zone_to_slba(z) \in Nat /\ zone_to_slba(z + 1) = zone_to_slba(z) + cfg.size /\ cfg.size \in Nat
    BY <1>1, <1>4, Addr, CfgFacts
<1>6. zone_to_slba(z) <= x.wp /\ x.wp < zone_to_slba(z) + cfg.size
    BY <1>1, <1>3, <1>4, <1>5 DEF ZoneInv
<1>7. lba_to_zone(x.wp) = z
    BY <1>1, <1>4, <1>6, Addr
<1>8. PICK m \in Nat : m = x.wp + n - 1 /\ lba_to_zone(m) = z
  <2>1. x.wp + n - 1 \in Nat
    BY <1>1, <1>2
  <2>2. lba_to_zone(x.wp + n - 1) = z
    BY <1>3, <1>7 DEF SameZone
  <2> QED
    BY <2>1, <2>2
<1>9. m < zone_to_slba(z) + cfg.size
    BY <1>1, <1>4, <1>8, Addr
<1>10. x.wp + n <= zone_to_slba(z + 1)
    BY <1>1, <1>2, <1>5, <1>8, <1>9
<1> QED
    BY <1>2, <1>3, <1>7, <1>10

\* What is written of a device, apart from its zones.
LEMMA TakenMade ==
    ASSUME NEW d \in Devs, NEW b \in [Zones -> Nat], NEW w \in [Zones -> SUBSET Nat], NEW s \in BOOLEAN,
           NEW e, e = [d EXCEPT !.wb = b, !.written = w, !.split = s]
    PROVE  Made(e, d.zone, d.res, w, d.zleaked)
BY DEF Devs, Made

\* A zone that is not full is open when it is written.
LEMMA PrepareWrite ==
    ASSUME cfg \in Configs, NEW d, DevInv(d), NEW z \in Zones, NEW t, NEW w,
           Made(t, d.zone, d.res, w, d.zleaked), \A y \in Zones : y # z => w[y] = d.written[y],
           d.zone[z].state # "FULL",
           d.zone[z].state = "EMPTY" => d.res["ACTIVE"] # NZones,
           d.zone[z].state \in {"EMPTY", "CLOSED"} => d.res["OPEN"] # NZones
    PROVE  /\ OpenForWrite(t, z).written = w
           /\ \E x : Prepared(d, OpenForWrite(t, z), z, x)
<1>1. PICK v \in ZoneDescs : v = d.zone[z] /\ ZoneInv(z, v, d.written[z]) /\ d \in Devs
    BY Counted
<1>2. /\ t \in Devs /\ t.zone = d.zone /\ t.zone[z] = v /\ t.res = d.res /\ t.written = w /\ t.zleaked = d.zleaked
      /\ d.zone \in [Zones -> ZoneDescs] /\ d.res \in [Types -> 0 .. NZones] /\ NZones \in Nat
    BY <1>1, ConfigsSound DEF Made, Devs
<1>3. d.res["OPEN"] \in 0 .. NZones /\ d.res["ACTIVE"] \in 0 .. NZones /\ d.res["ZRWA"] \in 0 .. NZones
    BY <1>2 DEF Types
<1>4. PICK k \in {0, 1}, j \in {0, 1} : k = HasZrwa(v) /\ j = IsActive(v)
    BY Ones
<1>5. v.state \in States /\ (v.state = "EMPTY" => v.zrwav = 0)
    BY <1>1 DEF ZoneInv, ZoneDescs
<1>6. PICK o : o = OpenForWrite(t, z)
    OBVIOUS
<1>7. CASE v.state \in {"EMPTY", "CLOSED"}
  <2>1. PICK a : a = IF t.zone[z].state = "EMPTY" THEN acquire_zone_resource(t, "ACTIVE") ELSE t
    OBVIOUS
  <2>2. o = change_zone_state(acquire_zone_resource(a, "OPEN"), z, "OPENED_IMPL")
    BY <1>2, <1>6, <1>7, <2>1 DEF OpenForWrite
  <2>3. /\ t.res["OPEN"] \in 0 .. NZones - 1 /\ t.zone[z].state \in {"EMPTY", "CLOSED"}
        /\ t.zone[z].state = "EMPTY" => t.res["ACTIVE"] \in 0 .. NZones - 1
    BY <1>1, <1>2, <1>3, <1>7
  <2>4. Opening(t, o, z, "OPENED_IMPL")
    <3>1. "OPENED_IMPL" \in Opened /\ t \in Devs
      BY <1>2 DEF Opened
    <3> QED
      BY <2>1, <2>2, <2>3, <3>1, OpenMade
  <2>5. PICK x : x = [v EXCEPT !.state = "OPENED_IMPL"]
    OBVIOUS
  <2>6. x \in ZoneDescs /\ x.state = "OPENED_IMPL" /\ x.wp = v.wp /\ x.zrwav = v.zrwav
    BY <2>5, NewState DEF States, Active, Opened
  <2>7. /\ o \in Devs /\ o.zone = [d.zone EXCEPT ![z] = x] /\ o.written = w /\ o.zleaked = d.zleaked
        /\ o.res["OPEN"] = d.res["OPEN"] + 1 /\ o.res["ACTIVE"] = d.res["ACTIVE"] + 1 - j
        /\ o.res["ZRWA"] = d.res["ZRWA"]
    BY <1>2, <1>4, <2>4, <2>5 DEF Opening
  <2>8. IsOpen(v) = 0 /\ HasZrwa(x) = k
    <3>1. IsOpen(v) = 0
      BY <1>7 DEF IsOpen, Opened
    <3>2. HasZrwa(x) = HasZrwa(v)
      BY <1>5, <1>7, <2>6 DEF HasZrwa, Active, Opened
    <3> QED
      BY <1>4, <3>1, <3>2
  <2>9. o.res["OPEN"] = d.res["OPEN"] + 1 - 0
    BY <1>3, <2>7
  <2>10. o.res["ZRWA"] = d.res["ZRWA"] + k - k
    BY <1>3, <2>7
  <2>11. Prepared(d, o, z, x)
    BY <1>1, <1>4, <2>6, <2>7, <2>8, <2>9, <2>10 DEF Prepared, Opened
  <2> QED
    BY <1>6, <2>7, <2>11
<1>8. CASE v.state \notin {"EMPTY", "CLOSED"}
  <2>1. o = t
    BY <1>2, <1>6, <1>8 DEF OpenForWrite
  <2>2. v.state \in Opened
    BY <1>1, <1>5, <1>8 DEF States, Active
  <2>3. IsOpen(v) = 1 /\ IsActive(v) = 1
    BY <2>2 DEF IsOpen, IsActive, Active
  <2>4. d.zone = [d.zone EXCEPT ![z] = v]
    BY <1>1, <1>2
  <2>5. t.res["OPEN"] = d.res["OPEN"] + 1 - 1 /\ t.res["ACTIVE"] = d.res["ACTIVE"] + 1 - 1
    BY <1>2, <1>3
  <2>6. t.res["ZRWA"] = d.res["ZRWA"] + k - k
    BY <1>2, <1>3
  <2>7. Prepared(d, t, z, v)
    BY <1>1, <1>2, <1>4, <2>2, <2>3, <2>4, <2>5, <2>6 DEF Prepared
  <2> QED
    BY <1>2, <1>6, <2>1, <2>7
<1> QED
    BY <1>7, <1>8

-----------------------------------------------------------------------------
(* The actions. *)

\* The queues hold commands of hosts.
QueueInv == sq \in [SQs -> {NoCmd} \cup Cmds] /\ \A q \in SQs : sq[q] # NoCmd => CmdInv(sq[q])

\* What an action has to show, for the variables that it changes.
LEMMA StepInv ==
    ASSUME IInv, cfg' = cfg, DevInv(dev'), QueueInv',
           pend' \in [Zones -> Seq(Nat)], zpend' \in [Zones -> Seq(Nat)],
           fault' \in {"none", "assert", "divide", "wild"},
           fault' = "divide" => cfg.fg = 0 /\ dev'.zone[0].zrwav = 1 /\ dev'.zone[0].wp = 0,
           AppendInItsZone', cmds' \in 0 .. cfg.cmds
    PROVE  IInv'
<1>1. DevInv(dev)'
    BY DEF DevInv, Devs, ZoneInv, zone_to_slba, OpenIn, ActiveIn, ZrwaIn
<1>2. (cfg \in Configs)'
    BY DEF IInv
<1> QED
    BY <1>1, <1>2 DEF IInv, QueueInv

\* The queues stay as they are.
LEMMA QueuesKept ==
    ASSUME IInv, cfg' = cfg, sq' = sq
    PROVE  QueueInv'
BY DEF IInv, QueueInv, CmdInv, lba_to_zone

\* The head of a queue is answered, or replaced by a sound command.
LEMMA QueuesSet ==
    ASSUME IInv, cfg' = cfg, NEW q \in SQs, NEW c, c = NoCmd \/ CmdInv(c), sq' = [sq EXCEPT ![q] = c]
    PROVE  QueueInv'
<1>1. c \in {NoCmd} \cup Cmds
    BY DEF CmdInv
<1>2. sq' \in [SQs -> {NoCmd} \cup Cmds]
    BY <1>1 DEF IInv
<1>3. ASSUME NEW p \in SQs, sq'[p] # NoCmd
      PROVE  CmdInv(sq'[p])
  <2>1. CASE p = q
    BY <1>3, <2>1 DEF IInv
  <2>2. CASE p # q
    BY <1>3, <2>2 DEF IInv
  <2> QED
    BY <2>1, <2>2
<1>4. ASSUME NEW p \in SQs, sq'[p] # NoCmd
      PROVE  CmdInv(sq[p])'
  <2>1. CmdInv(sq'[p])
    BY <1>3, <1>4
  <2> QED
    BY <2>1 DEF CmdInv, lba_to_zone
<1> QED
    BY <1>2, <1>4 DEF QueueInv

\* A queue whose head is answered.
LEMMA QueuesAnswered ==
    ASSUME IInv, cfg' = cfg, NEW q \in SQs, Answered(q)
    PROVE  QueueInv'
BY QueuesSet DEF Answered

\* A read is answered.
LEMMA ReadInv ==
    ASSUME IInv, NEW q \in SQs, Running, zns_read(q), cfg' = cfg, cmds' = cmds
    PROVE  IInv'
<1>1. /\ DevInv(dev') /\ pend' \in [Zones -> Seq(Nat)] /\ zpend' \in [Zones -> Seq(Nat)]
      /\ fault' = "none" /\ cmds' \in 0 .. cfg.cmds /\ AppendInItsZone'
    BY DEF IInv, zns_read, Running, AppendInItsZone
<1>2. QueueInv'
    BY QueuesAnswered DEF zns_read
<1> QED
    BY <1>1, <1>2, StepInv

\* A write past the last zone ends the dispatcher.
LEMMA NoZoneInv ==
    ASSUME IInv, NEW q \in SQs, Running, NoSuchZone(q), cfg' = cfg, cmds' = cmds
    PROVE  IInv'
<1>1. /\ DevInv(dev') /\ pend' \in [Zones -> Seq(Nat)] /\ zpend' \in [Zones -> Seq(Nat)]
      /\ fault' = "wild" /\ cmds' \in 0 .. cfg.cmds /\ AppendInItsZone'
    BY DEF IInv, NoSuchZone, AppendInItsZone
<1>2. QueueInv'
    BY QueuesKept DEF NoSuchZone
<1> QED
    BY <1>1, <1>2, StepInv

\* A write without buffer stays at the head.  An append is left with the
\* block it would start at, which is in the zone it names unless that is full.
LEMMA RefusedInv ==
    ASSUME IInv, NEW q \in SQs, Running, zns_write_refused(q), cfg' = cfg, cmds' = cmds
    PROVE  IInv'
<1>1. PICK z \in Zones : z = ZoneOf(q) /\ IsWrite(q)
    BY DEF zns_write_refused
<1>2. /\ cfg \in Configs /\ DevInv(dev) /\ CmdInv(sq[q]) /\ sq[q] \in Cmds /\ sq[q].slba \in Nat
      /\ StartOf(q) \in Nat /\ dev.zone[z] \in ZoneDescs /\ dev.zone[z].wp \in Nat
    BY <1>1, WriteHead
<1>3. PICK x \in ZoneDescs : x = dev.zone[z] /\ ZoneInv(z, x, dev.written[z])
    BY <1>2, Counted
<1>4. PICK m \in BOOLEAN : m = (sq[q].moved \/ (sq[q].op = "append" /\ x.state = "FULL"))
    OBVIOUS
<1>5. PICK c : c = [sq[q] EXCEPT !.slba = StartOf(q), !.moved = m]
    OBVIOUS
<1>6. c \in Cmds /\ c.op = sq[q].op /\ c.slba = StartOf(q) /\ c.moved = m /\ c.n = sq[q].n
      /\ c.named = sq[q].named /\ c.all = sq[q].all
    BY <1>2, <1>4, <1>5 DEF Cmds
<1>7. sq' = [sq EXCEPT ![q] = c]
  <2>1. sq' = [sq EXCEPT ![q].slba = StartOf(q),
                         ![q].moved = @ \/ (sq[q].op = "append" /\ dev.zone[z].state = "FULL")]
    BY <1>1 DEF zns_write_refused
  <2>2. sq \in [SQs -> {NoCmd} \cup Cmds]
    BY DEF IInv
  <2>3. sq' = [sq EXCEPT ![q].slba = StartOf(q), ![q].moved = m]
    BY <1>2, <1>3, <1>4, <2>1, <2>2 DEF Cmds
  <2> QED
    BY <1>5, <2>2, <2>3
<1>8. c.op = "append" /\ ~c.moved => lba_to_zone(c.slba) = c.named
  <2> SUFFICES ASSUME c.op = "append", ~c.moved
               PROVE  lba_to_zone(c.slba) = c.named
    OBVIOUS
  <2>1. sq[q].op = "append" /\ ~sq[q].moved /\ x.state # "FULL"
    BY <1>2, <1>4, <1>6
  <2>2. z = sq[q].named
    BY <1>1, <1>2, <2>1 DEF CmdInv, ZoneOf
  <2>3. StartOf(q) = x.wp
    BY <1>1, <1>3, <2>1 DEF StartOf
  <2>4. /\ zone_to_slba(z) \in Nat /\ zone_to_slba(z + 1) = zone_to_slba(z) + cfg.size /\ cfg.size \in Nat /\ z \in Nat
    BY <1>2, Addr, CfgFacts
  <2>5. zone_to_slba(z) <= x.wp /\ x.wp < zone_to_slba(z) + cfg.size
    BY <1>2, <1>3, <2>1, <2>4 DEF ZoneInv
  <2>6. lba_to_zone(x.wp) = z
    BY <1>2, <1>3, <2>4, <2>5, Addr
  <2> QED
    BY <1>6, <2>2, <2>3, <2>6
<1>9. CmdInv(c)
    BY <1>1, <1>2, <1>6, <1>8 DEF CmdInv, IsWrite
<1>10. QueueInv'
    BY <1>7, <1>9, QueuesSet
<1>11. /\ DevInv(dev') /\ pend' \in [Zones -> Seq(Nat)] /\ zpend' \in [Zones -> Seq(Nat)]
       /\ fault' = "none" /\ cmds' \in 0 .. cfg.cmds /\ AppendInItsZone'
    BY DEF IInv, zns_write_refused, Running, AppendInItsZone
<1> QED
    BY <1>10, <1>11, StepInv

\* The invariant reads neither the buffers nor what was lost of them.
LEMMA SameDev ==
    ASSUME NEW d, DevInv(d), NEW e, Made(e, d.zone, d.res, d.written, d.zleaked)
    PROVE  DevInv(e)
BY DEF Made, DevInv, OpenIn, ActiveIn, ZrwaIn

\* An error takes buffer and nothing else.
LEMMA ErrorInv ==
    ASSUME IInv, NEW q \in SQs, Running, zns_write_error(q), cfg' = cfg, cmds' = cmds
    PROVE  IInv'
<1>1. PICK z \in Zones : z = ZoneOf(q) /\ IsWrite(q)
    BY DEF zns_write_error
<1>2. DevInv(dev) /\ sq[q].n \in Nat /\ BufOf(z) \in Zones /\ dev \in Devs
    BY <1>1, WriteHead DEF DevInv
<1>3. PICK b \in Zones, n \in Nat : b = BufOf(z) /\ n = sq[q].n
    BY <1>2
<1>4. dev.wb[b] >= n /\ dev' = [dev EXCEPT !.wb[b] = @ - n, !.leaked[b] = @ + n]
    BY <1>1, <1>3 DEF zns_write_error
<1>5. PICK w, l : w = [dev.wb EXCEPT ![b] = @ - n] /\ l = [dev.leaked EXCEPT ![b] = @ + n]
    OBVIOUS
<1>6. w \in [Zones -> Nat] /\ l \in [Zones -> Int]
  <2>1. dev.wb \in [Zones -> Nat] /\ dev.leaked \in [Zones -> Int] /\ dev.wb[b] \in Nat /\ dev.leaked[b] \in Int
    BY <1>2 DEF Devs
  <2>2. dev.wb[b] - n \in Nat /\ dev.leaked[b] + n \in Int
    BY <1>4, <2>1
  <2> QED
    BY <1>5, <2>1, <2>2
<1>7. dev' = [dev EXCEPT !.wb = w, !.leaked = l]
    BY <1>2, <1>4, <1>5 DEF Devs
<1>8. Made(dev', dev.zone, dev.res, dev.written, dev.zleaked)
    BY <1>2, <1>6, <1>7 DEF Devs, Made
<1>9. DevInv(dev')
    BY <1>2, <1>8, SameDev
<1>10. QueueInv'
    BY QueuesAnswered DEF zns_write_error
<1>11. /\ pend' \in [Zones -> Seq(Nat)] /\ zpend' \in [Zones -> Seq(Nat)]
       /\ fault' = "none" /\ cmds' \in 0 .. cfg.cmds /\ AppendInItsZone'
    BY DEF IInv, zns_write_error, Running, AppendInItsZone
<1> QED
    BY <1>9, <1>10, <1>11, StepInv

\* What a write schedules is a sequence of numbers of blocks.
LEMMA ReleasesSeq ==
    ASSUME cfg \in Configs, NEW z \in Zones, NEW slba \in Nat, NEW n \in Nat, n >= 1
    PROVE  Releases(z, slba, n) \in Seq(Nat)
<1> DEFINE first == lba_to_lpn(zone_to_slba(z))
           ends  == {p \in lba_to_lpn(slba) .. lba_to_lpn(slba + n - 1) :
                        (p - first + 1) % cfg.unit = 0 \/ p = zone_to_elpn(z)}
           tail  == cfg.size % UnitBlocks
           value(i) == IF i = Cardinality(ends) /\ zone_to_elpn(z) \in ends /\ tail > 0 THEN tail ELSE UnitBlocks
<1>1. Releases(z, slba, n) = [i \in 1 .. Cardinality(ends) |-> value(i)]
    BY DEF Releases
<1>2. UnitBlocks \in Nat /\ tail \in Nat
  <2>1. UnitBlocks \in Nat /\ UnitBlocks > 0 /\ cfg.size \in Nat
    BY UnitFacts, CfgFacts
  <2> QED
    BY <2>1
<1>3. IsFiniteSet(ends)
  <2>1. PICK p \in Nat, i \in Nat, j \in Nat : p = cfg.page /\ p > 0 /\ i = slba /\ j = slba + n - 1
    BY CfgFacts
  <2>2. i \div p \in Int /\ j \div p \in Int
    BY <2>1
  <2>3. PICK u \in Int, v \in Int : u = lba_to_lpn(slba) /\ v = lba_to_lpn(slba + n - 1)
    BY <2>1, <2>2 DEF lba_to_lpn
  <2>4. IsFiniteSet(u .. v)
    BY FS_Interval
  <2>5. ends \in SUBSET (u .. v)
    BY <2>3
  <2> HIDE DEF ends
  <2> QED
    BY <2>4, <2>5, FS_Subset
<1>4. PICK k \in Nat : k = Cardinality(ends)
    BY <1>3, FS_CardinalityType
<1>5. \A i \in 1 .. k : value(i) \in Nat
  <2> HIDE DEF ends
  <2> QED
    BY <1>2
<1> HIDE DEF value
<1>6. [i \in 1 .. k |-> value(i)] \in Seq(Nat)
    BY <1>5
<1> QED
    BY <1>1, <1>4, <1>6

\* The same for a write to a ZRWA.
LEMMA ZrwaReleasesSeq ==
    ASSUME cfg \in Configs, DevInv(dev), NEW z \in Zones, NEW n \in Nat
    PROVE  ZrwaReleases(z, n) \in Seq(Nat)
<1> DEFINE first == lba_to_lpn(zone_to_slba(z))
           wp    == lba_to_lpn(dev.zone[z].wp)
           ends  == {p \in wp .. wp + n \div cfg.page - 1 : (p - first + 1) % cfg.unit = 0}
<1>1. ZrwaReleases(z, n) = [i \in 1 .. Cardinality(ends) |-> UnitBlocks]
    BY DEF ZrwaReleases
<1>2. UnitBlocks \in Nat
    BY UnitFacts
<1>3. IsFiniteSet(ends)
  <2>1. PICK p \in Nat, i \in Nat : p = cfg.page /\ p > 0 /\ i = dev.zone[z].wp
    BY CfgFacts, Counted DEF ZoneDescs
  <2>2. i \div p \in Int /\ i \div p + n \div p - 1 \in Int
    BY <2>1
  <2>3. PICK u \in Int, v \in Int : u = wp /\ v = wp + n \div cfg.page - 1
    BY <2>1, <2>2 DEF lba_to_lpn
  <2>4. IsFiniteSet(u .. v)
    BY FS_Interval
  <2>5. ends \in SUBSET (u .. v)
    BY <2>3
  <2> HIDE DEF ends
  <2> QED
    BY <2>4, <2>5, FS_Subset
<1>4. PICK k \in Nat : k = Cardinality(ends)
    BY <1>3, FS_CardinalityType
<1>5. [i \in 1 .. k |-> UnitBlocks] \in Seq(Nat)
    BY <1>2
<1> QED
    BY <1>1, <1>4, <1>5

\* The sum of a sequence of numbers is the last of the sums of its beginnings.
LEMMA FoldSum ==
    ASSUME NEW q \in Seq(Nat), NEW p, IsSum(p, q)
    PROVE  FoldLeft(+, 0, q) = p[Len(q)]
<1>1. PICK N \in Nat : N = Len(q) /\ DOMAIN q = 1 .. N /\ q \in [1 .. N -> Int] /\ q \in Seq(Int)
    BY DEF IsSum
<1> DEFINE x(s) == Max(s)
           It(g) == g = [s \in SUBSET (DOMAIN q) |-> IF s = {} THEN 0 ELSE g[s \ {x(s)}] + q[x(s)]]
<1>2. FoldLeft(+, 0, q) = (CHOOSE g : It(g))[DOMAIN q]
    BY DEF FoldLeft, MapThenFoldSet
<1>3. PICK pick : pick = [s \in SUBSET (1 .. N) |-> x(s)]
    OBVIOUS
<1>4. ASSUME NEW s \in SUBSET (1 .. N), s # {}
      PROVE  pick[s] = x(s) /\ x(s) \in s /\ \A y \in s : y <= x(s)
  <2>1. PICK m \in s : \A y \in s : y <= m
  <3> DEFINE R == {k \in 0 .. N : N - k \in s}
  <3>1. R \in SUBSET Nat
    OBVIOUS
  <3>2. R # {}
    <4>1. PICK y \in s : TRUE
      BY <1>4
    <4>2. N - y \in R
      <5>1. y \in 1 .. N /\ N - y \in 0 .. N /\ N - (N - y) = y
        OBVIOUS
      <5> QED
        BY <5>1
    <4> QED
      BY <4>2
  <3>3. PICK k \in R : \A j \in R : k <= j
    <4> HIDE DEF R
    <4> QED
      BY <3>1, <3>2, LeastNat
  <3>4. ASSUME NEW y \in s
        PROVE  y <= N - k
    <4>1. y \in 1 .. N /\ N - y \in 0 .. N /\ N - (N - y) = y
      OBVIOUS
    <4>2. k <= N - y
      BY <3>3, <4>1
    <4> QED
      BY <4>1, <4>2
  <3> QED
    BY <3>3, <3>4
  <2>2. m \in s /\ \A y \in s : m >= y
  <3>1. \A y \in s : y \in Int
    OBVIOUS
  <3> QED
    BY <2>1, <3>1
  <2>3. x(s) \in s /\ \A y \in s : x(s) >= y
    BY <2>2 DEF Max
  <2>4. \A y \in s : y <= x(s)
    <3>1. \A y \in s : y \in Int
      OBVIOUS
    <3> HIDE DEF x
    <3> QED
      BY <2>3, <3>1
  <2> QED
    BY <1>3, <2>3, <2>4
<1> HIDE DEF x
<1>5. Picks(pick, 1 .. N)
    BY <1>4 DEF Picks
<1>6. IsFiniteSet(1 .. N)
    BY FS_Interval
<1>7. PICK h \in [SUBSET (1 .. N) -> Int] : IsFold(h, 1 .. N, q, pick)
    BY <1>1, <1>5, <1>6, FoldExists
<1>8. It(h)
  <2>1. ASSUME NEW s \in SUBSET (1 .. N)
        PROVE  h[s] = IF s = {} THEN 0 ELSE h[s \ {x(s)}] + q[x(s)]
    <3>1. CASE s = {}
      BY <1>7, <3>1 DEF IsFold
    <3>2. CASE s # {}
      <4>1. pick[s] = x(s) /\ x(s) \in 1 .. N /\ s \ {x(s)} \in SUBSET (1 .. N)
        BY <1>4, <3>2
      <4>2. h[s] = q[x(s)] + h[s \ {x(s)}]
        BY <1>7, <3>2, <4>1 DEF IsFold
      <4>3. q[x(s)] \in Int /\ h[s \ {x(s)}] \in Int
        BY <1>1, <1>7, <4>1
      <4>4. h[s] = h[s \ {x(s)}] + q[x(s)]
        BY <4>2, <4>3
      <4> QED
        BY <3>2, <4>4
    <3> QED
      BY <3>1, <3>2
  <2> QED
    BY <1>1, <1>7, <2>1
<1>9. It(CHOOSE g : It(g))
  <2> HIDE DEF It
  <2> QED
    BY <1>8
<1>10. PICK g : g = (CHOOSE u : It(u)) /\ It(g)
    BY <1>9
<1> DEFINE T == {n \in 0 .. N : g[1 .. n] = p[n]}
<1>11. p \in [0 .. N -> Int] /\ p[0] = 0 /\ \A i \in 1 .. N : p[i] = p[i - 1] + q[i]
    BY <1>1 DEF IsSum
<1>12. \A s \in SUBSET (1 .. N) : g[s] = IF s = {} THEN 0 ELSE g[s \ {x(s)}] + q[x(s)]
    BY <1>1, <1>10
<1>13. 0 \in T
  <2>1. 1 .. 0 = {} /\ {} \in SUBSET (1 .. N) /\ 0 \in 0 .. N
    OBVIOUS
  <2> QED
    BY <1>11, <1>12, <2>1
<1>14. ASSUME NEW n \in 0 .. N - 1, n \in T
       PROVE  n + 1 \in T
  <2>1. PICK s \in SUBSET (1 .. N) : s = 1 .. n + 1
    OBVIOUS
  <2>2. n + 1 \in s /\ s # {} /\ s \ {n + 1} = 1 .. n
    <3>1. n + 1 \in 1 .. n + 1 /\ (1 .. n + 1) \ {n + 1} = 1 .. n
      OBVIOUS
    <3> QED
      BY <2>1, <3>1
  <2>3. x(s) = n + 1
    <3>1. x(s) \in s /\ n + 1 <= x(s)
      BY <1>4, <2>2
    <3> QED
      BY <2>1, <3>1
  <2>4. g[s] = g[1 .. n] + q[n + 1]
    BY <1>12, <2>2, <2>3
  <2>5. n + 1 \in 1 .. N /\ n + 1 \in 0 .. N /\ (n + 1) - 1 = n
    OBVIOUS
  <2>6. p[n + 1] = p[n] + q[n + 1]
    BY <1>11, <2>5
  <2> QED
    BY <1>14, <2>1, <2>4, <2>5, <2>6
<1>15. N \in T
  <2> HIDE DEF T
  <2>1. \A n \in 0 .. N : n \in T
    BY <1>13, <1>14, UpTo
  <2> QED
    BY <2>1
<1> HIDE DEF It
<1> QED
    BY <1>1, <1>2, <1>10, <1>15

\* The elements of two sequences, one after the other.
LEMMA CatElements ==
    ASSUME NEW u \in Seq(Nat), NEW v \in Seq(Nat)
    PROVE  /\ u \o v \in Seq(Nat) /\ Len(u \o v) = Len(u) + Len(v)
           /\ \A i \in 1 .. Len(u) : (u \o v)[i] = u[i]
           /\ \A i \in 1 .. Len(v) : (u \o v)[Len(u) + i] = v[i]
OBVIOUS

\* A sequence is its first k elements and the others after them.
LEMMA TwoParts ==
    ASSUME NEW r \in Seq(Nat), NEW k \in 0 .. Len(r), NEW u \in Seq(Nat), NEW v \in Seq(Nat),
           Len(u) = k, Len(v) = Len(r) - k,
           \A i \in 1 .. k : u[i] = r[i], \A i \in 1 .. Len(r) - k : v[i] = r[k + i]
    PROVE  u \o v = r
<1>1. PICK w \in Seq(Nat) : w = u \o v /\ Len(w) = Len(u) + Len(v)
                            /\ (\A i \in 1 .. Len(u) : w[i] = u[i])
                            /\ \A i \in 1 .. Len(v) : w[Len(u) + i] = v[i]
    BY CatElements
<1>2. PICK N \in Nat : N = Len(r) /\ k \in 0 .. N /\ Len(w) = N
    BY <1>1
<1>3. ASSUME NEW i \in 1 .. N
      PROVE  w[i] = r[i]
  <2>1. CASE i <= k
    <3>1. i \in 1 .. k
      BY <1>2, <2>1
    <3> QED
      BY <1>1, <3>1
  <2>2. CASE ~ (i <= k)
    <3>1. PICK m \in 1 .. N - k : i = k + m
      <4>1. i - k \in 1 .. N - k /\ i = k + (i - k)
        BY <1>2, <2>2
      <4> QED
        BY <4>1
    <3>2. w[k + m] = v[m] /\ v[m] = r[k + m]
      BY <1>1, <1>2
    <3> QED
      BY <3>1, <3>2
  <2> QED
    BY <2>1, <2>2
<1>4. w = r
    BY ONLY w \in Seq(Nat), r \in Seq(Nat), <1>2, <1>3, SeqEqual
<1> QED
    BY <1>1, <1>4

\* A part of the releases finds work entries; the rest adds up to a number.
LEMMA Parted ==
    ASSUME NEW r \in Seq(Nat), NEW k \in Scheduled(r)
    PROVE  /\ SubSeq(r, 1, k) \in Seq(Nat) /\ SubSeq(r, k + 1, Len(r)) \in Seq(Nat)
           /\ SubSeq(r, 1, k) \o SubSeq(r, k + 1, Len(r)) = r
           /\ Rest(r, k) \in Int
<1>1. Len(r) \in Nat /\ k \in 0 .. Len(r)
    BY DEF Scheduled
<1>2. PICK u, v : u = SubSeq(r, 1, k) /\ v = SubSeq(r, k + 1, Len(r))
    OBVIOUS
<1>3. u \in Seq(Nat) /\ Len(u) = k /\ \A i \in 1 .. k : u[i] = r[i]
    BY <1>1, <1>2
<1>4. v \in Seq(Nat) /\ Len(v) = Len(r) - k /\ \A i \in 1 .. Len(r) - k : v[i] = r[k + i]
    BY <1>1, <1>2
<1>5. u \o v = r
    BY <1>1, <1>3, <1>4, TwoParts
<1>6. FoldLeft(+, 0, v) \in Int
  <2>1. v \in Seq(Int)
    BY <1>4
  <2>2. PICK p : IsSum(p, v)
    BY <2>1, SumExists
  <2>3. p[Len(v)] \in Int
    BY <2>1, <2>2, LastSum
  <2> QED
    BY <1>4, <2>2, <2>3, FoldSum
<1>7. Rest(r, k) \in Int
    BY <1>2, <1>6 DEF Rest
<1> QED
    BY <1>2, <1>3, <1>4, <1>5, <1>7

\* What a device loses is all that changes when releases are lost.
LEMMA LoseMade ==
    ASSUME NEW d \in Devs, NEW b \in Zones, NEW r \in Seq(Nat), NEW k \in Scheduled(r),
           NEW e, e = Lose(d, b, r, k)
    PROVE  /\ Made(e, d.zone, d.res, d.written, d.zleaked)
           /\ e.wb = d.wb /\ e.split = d.split
           /\ \A c \in Zones : e.leaked[c] = d.leaked[c]
                + (IF c = b THEN Rest(r, k) ELSE 0)
<1>1. PICK m \in Int : m = Rest(r, k)
    BY Parted
<1>2. d.leaked \in [Zones -> Int]
    BY DEF Devs
<1>3. PICK l : l = [d.leaked EXCEPT ![b] = d.leaked[b] + m]
    OBVIOUS
<1>4. l \in [Zones -> Int] /\ \A c \in Zones : l[c] = d.leaked[c] + (IF c = b THEN m ELSE 0)
    BY <1>2, <1>3
<1>5. e = [d EXCEPT !.leaked = l]
    BY <1>1, <1>2, <1>3 DEF Lose, Devs
<1>6. e \in Devs /\ e.zone = d.zone /\ e.res = d.res /\ e.written = d.written /\ e.zleaked = d.zleaked
      /\ e.wb = d.wb /\ e.split = d.split /\ e.leaked = l
    BY <1>4, <1>5 DEF Devs
<1> QED
    BY <1>1, <1>4, <1>6 DEF Made

\* The device once the write of queue q has been taken into its buffer, and
\* once the write pointer has moved.
WriteTaken(q) ==
    [dev EXCEPT !.wb[BufOf(ZoneOf(q))] = @ - sq[q].n,
                !.written[ZoneOf(q)] = @ \cup (StartOf(q) .. StartOf(q) + sq[q].n - 1),
                !.split = @ \/ StartOf(q) % cfg.page # 0 \/ (StartOf(q) + sq[q].n) % cfg.page # 0]

AfterWrite(q) == increase_write_ptr(OpenForWrite(WriteTaken(q), ZoneOf(q)), ZoneOf(q), sq[q].n)

WriteReleases(q) == Releases(ZoneOf(q), StartOf(q), sq[q].n)

\* A write that passes the checks leaves a sound device.
LEMMA AfterInv ==
    ASSUME IInv, NEW q \in SQs, zns_write_done(q)
    PROVE  DevInv(AfterWrite(q))
<1>1. PICK z \in Zones : z = ZoneOf(q) /\ IsWrite(q) /\ dev.zone[z].zrwav = 0
                         /\ WriteStatus(z, StartOf(q), sq[q].n) = "SUCCESS" /\ dev.wb[BufOf(z)] >= sq[q].n
    BY DEF zns_write_done
<1>2. /\ cfg \in Configs /\ DevInv(dev) /\ CmdInv(sq[q]) /\ sq[q].n \in Nat /\ sq[q].n >= 1
      /\ BufOf(z) \in Zones /\ StartOf(q) \in Nat
    BY <1>1, WriteHead
<1>3. PICK x \in ZoneDescs : x = dev.zone[z] /\ ZoneInv(z, x, dev.written[z]) /\ dev \in Devs /\ x.wp \in Nat
    BY <1>2, Counted DEF ZoneDescs
<1>4. PICK b \in Zones, n \in Nat, slba \in Nat : b = BufOf(z) /\ n = sq[q].n /\ slba = StartOf(q) /\ n >= 1
    BY <1>2
<1>5. /\ slba = x.wp /\ x.state # "FULL" /\ lba_to_zone(slba) = z /\ x.wp + n <= zone_to_slba(z + 1)
      /\ x.state = "EMPTY" => dev.res["ACTIVE"] # NZones
      /\ x.state \in {"EMPTY", "CLOSED"} => dev.res["OPEN"] # NZones
    BY <1>1, <1>3, <1>4, WriteChecked
<1>6. PICK s \in BOOLEAN : s = (dev.split \/ slba % cfg.page # 0 \/ (slba + n) % cfg.page # 0)
    OBVIOUS
<1>7. PICK f, w : f = [dev.wb EXCEPT ![b] = @ - n]
                  /\ w = [dev.written EXCEPT ![z] = @ \cup (slba .. slba + n - 1)]
    OBVIOUS
<1>8. f \in [Zones -> Nat] /\ w \in [Zones -> SUBSET Nat]
  <2>1. dev.wb \in [Zones -> Nat] /\ dev.written \in [Zones -> SUBSET Nat] /\ dev.wb[b] \in Nat
    BY <1>3 DEF Devs
  <2>2. dev.wb[b] - n \in Nat /\ slba .. slba + n - 1 \in SUBSET Nat
    BY <1>1, <1>4, <2>1
  <2> QED
    BY <1>7, <2>1, <2>2
<1>9. PICK t : t = [dev EXCEPT !.wb = f, !.written = w, !.split = s]
    OBVIOUS
<1>10. Made(t, dev.zone, dev.res, w, dev.zleaked)
    BY <1>3, <1>8, <1>9, TakenMade
<1>11. t = [dev EXCEPT !.wb[b] = @ - n, !.written[z] = @ \cup (slba .. slba + n - 1),
                       !.split = @ \/ slba % cfg.page # 0 \/ (slba + n) % cfg.page # 0]
    BY <1>3, <1>6, <1>7, <1>9 DEF Devs
<1>12. AfterWrite(q) = increase_write_ptr(OpenForWrite(t, z), z, n)
    BY <1>1, <1>4, <1>11 DEF AfterWrite, WriteTaken
<1>13. PICK o : o = OpenForWrite(t, z)
    OBVIOUS
<1>14. \A y \in Zones : y # z => w[y] = dev.written[y]
    BY <1>3, <1>7 DEF Devs
<1>15. o.written = w /\ \E y : Prepared(dev, o, z, y)
    BY <1>2, <1>3, <1>5, <1>10, <1>13, <1>14, PrepareWrite
<1>16. PICK y : Prepared(dev, o, z, y)
    BY <1>15
<1>17. y.wp = x.wp /\ y.zrwav = 0
    BY <1>1, <1>3, <1>16 DEF Prepared
<1>18. o.written[z] = zone_to_slba(z) .. y.wp + n - 1
  <2>1. dev.written[z] = zone_to_slba(z) .. x.wp - 1 /\ zone_to_slba(z) <= x.wp
    BY <1>1, <1>3 DEF ZoneInv
  <2>2. w[z] = dev.written[z] \cup (x.wp .. x.wp + n - 1)
    BY <1>3, <1>5, <1>7 DEF Devs
  <2>3. zone_to_slba(z) \in Nat
    BY <1>2, ZoneStart
  <2>4. PICK k \in Nat, m \in Nat : k = zone_to_slba(z) /\ m = x.wp /\ k <= m
    BY <1>3, <2>1, <2>3
  <2>5. (k .. m - 1) \cup (m .. m + n - 1) = k .. m + n - 1
    BY <1>4, <2>4
  <2> QED
    BY <1>15, <1>17, <2>1, <2>2, <2>4, <2>5
<1>19. DevInv(increase_write_ptr(o, z, n))
    BY <1>2, <1>4, <1>5, <1>16, <1>17, <1>18, AdvanceInv
<1> QED
    BY <1>12, <1>13, <1>19

\* What the write does to the device and to the releases.
LEMMA WriteDone ==
    ASSUME NEW q \in SQs, zns_write_done(q)
    PROVE  \E k \in Scheduled(WriteReleases(q)) :
              /\ dev' = Lose(AfterWrite(q), BufOf(ZoneOf(q)), WriteReleases(q), k)
              /\ pend' = [pend EXCEPT ![BufOf(ZoneOf(q))] = @ \o SubSeq(WriteReleases(q), 1, k)]
BY DEF zns_write_done, WriteReleases, AfterWrite, WriteTaken

\* A write that passes the checks keeps the invariant, and an append is
\* placed in the zone it names unless that was full.
LEMMA DoneInv ==
    ASSUME IInv, NEW q \in SQs, Running, zns_write_done(q), cfg' = cfg, cmds' = cmds
    PROVE  IInv'
<1>1. PICK z \in Zones : z = ZoneOf(q) /\ IsWrite(q) /\ dev.zone[z].zrwav = 0
                         /\ WriteStatus(z, StartOf(q), sq[q].n) = "SUCCESS" /\ dev.wb[BufOf(z)] >= sq[q].n
    BY DEF zns_write_done
<1>2. /\ cfg \in Configs /\ DevInv(dev) /\ CmdInv(sq[q]) /\ sq[q].n \in Nat /\ sq[q].n >= 1
      /\ BufOf(z) \in Zones /\ StartOf(q) \in Nat
    BY <1>1, WriteHead
<1>3. PICK b \in Zones, n \in Nat, slba \in Nat : b = BufOf(z) /\ n = sq[q].n /\ slba = StartOf(q) /\ n >= 1
    BY <1>2
<1>4. PICK x \in ZoneDescs : x = dev.zone[z] /\ ZoneInv(z, x, dev.written[z])
    BY <1>2, Counted DEF ZoneDescs
<1>5. lba_to_zone(slba) = z
    BY <1>1, <1>2, <1>3, <1>4, WriteChecked
<1>6. PICK r \in Seq(Nat) : r = WriteReleases(q)
    BY <1>1, <1>2, <1>3, ReleasesSeq DEF WriteReleases
<1>7. PICK k \in Scheduled(r) : /\ dev' = Lose(AfterWrite(q), b, r, k)
                                /\ pend' = [pend EXCEPT ![b] = @ \o SubSeq(r, 1, k)]
    BY <1>1, <1>3, <1>6, WriteDone
<1>20. DevInv(dev')
  <2>1. PICK d \in Devs : d = AfterWrite(q) /\ DevInv(d)
    BY AfterInv DEF DevInv
  <2>2. PICK e : e = dev' /\ e = Lose(d, b, r, k)
    BY <1>7, <2>1
  <2>3. Made(e, d.zone, d.res, d.written, d.zleaked)
    BY <2>2, LoseMade
  <2>4. DevInv(e)
    BY <2>1, <2>3, SameDev
  <2> QED
    BY <2>2, <2>4
<1>21. pend' \in [Zones -> Seq(Nat)]
  <2>1. pend \in [Zones -> Seq(Nat)] /\ SubSeq(r, 1, k) \in Seq(Nat)
    BY Parted DEF IInv
  <2>2. pend[b] \o SubSeq(r, 1, k) \in Seq(Nat)
    BY <2>1
  <2> QED
    BY <1>7, <2>1, <2>2
<1>22. AppendInItsZone'
  <2>1. CASE sq[q].op # "append"
    BY <2>1 DEF zns_write_done, AppendInItsZone, IInv
  <2>2. CASE sq[q].op = "append"
    <3>1. placed' = [named |-> sq[q].named, at |-> z, moved |-> sq[q].moved]
      BY <1>1, <1>3, <1>5, <2>2 DEF zns_write_done
    <3>2. ~sq[q].moved => z = sq[q].named
      BY <1>1, <1>2, <2>2 DEF CmdInv, ZoneOf
    <3> QED
      BY <3>1, <3>2 DEF AppendInItsZone
  <2> QED
    BY <2>1, <2>2
<1>23. QueueInv'
    BY QueuesAnswered DEF zns_write_done
<1>24. zpend' \in [Zones -> Seq(Nat)] /\ fault' = "none" /\ cmds' \in 0 .. cfg.cmds
    BY DEF IInv, zns_write_done, Running
<1> QED
    BY <1>20, <1>21, <1>22, <1>23, <1>24, StepInv

\* Without a ZRWA the bound of the blocks that may be written wraps around,
\* and there are such blocks, only at the start of zone 0.
LEMMA WrapsAtZero ==
    ASSUME cfg \in Configs, DevInv(dev), NEW z \in Zones, NEW e \in Nat,
           dev.zone[z].wp <= e, e <= (dev.zone[z].wp - 1) % U64
    PROVE  z = 0 /\ dev.zone[z].wp = 0
<1>1. PICK x \in ZoneDescs : x = dev.zone[z] /\ ZoneInv(z, x, dev.written[z])
    BY Counted
<1>2. PICK m \in Nat : m = x.wp
    BY <1>1 DEF ZoneDescs
<1>3. /\ z \in Nat /\ zone_to_slba(z) \in Nat /\ zone_to_slba(z + 1) < U64 /\ U64 \in Nat
      /\ zone_to_slba(z + 1) = zone_to_slba(z) + cfg.size /\ cfg.size \in Nat
    BY Addr, CfgFacts
<1>4. zone_to_slba(z) <= m /\ m <= zone_to_slba(z + 1)
    BY <1>1, <1>2 DEF ZoneInv
<1>5. m = 0
  <2> SUFFICES ASSUME m > 0
               PROVE  FALSE
    BY <1>2
  <2>1. m - 1 \in 0 .. U64 - 1 /\ U64 \in Nat \ {0}
    BY <1>3, <1>4
  <2>2. (m - 1) % U64 = m - 1
    BY <2>1, Remainder
  <2> QED
    BY <1>1, <1>2, <2>2
<1>6. zone_to_slba(z) = 0
    BY <1>3, <1>4, <1>5
<1> QED
    BY <1>1, <1>2, <1>3, <1>5, <1>6, Addr

\* What a write flushes implicitly lies between the write pointer and the end
\* of the zone.
LEMMA FlushBound ==
    ASSUME cfg \in Configs, NEW z \in Zones, NEW wp \in Nat, wp = dev.zone[z].wp, cfg.fg > 0,
           NEW elba \in Nat, wp <= elba, elba < zone_to_slba(z + 1)
    PROVE  ImplicitFlush(z, elba) \in Nat /\ wp + ImplicitFlush(z, elba) <= zone_to_slba(z + 1)
<1>1. PICK g \in Nat, r \in Nat, s \in Nat :
        g = cfg.fg /\ r = cfg.zrwa /\ s = zone_to_slba(z + 1) /\ g > 0 /\ g <= r /\ elba < s
  <2>1. zone_to_slba(z + 1) \in Nat
    BY Addr
  <2> QED
    BY <2>1, CfgFacts
<1>2. zone_to_elba(z) = s - 1
    BY <1>1 DEF zone_to_elba
<1>3. CASE elba >= wp + r
  <2>1. PICK d \in Nat : d = elba - (wp + r)
    BY <1>1, <1>3
  <2>2. PICK k \in Nat : k = d \div g /\ k * g <= d
    BY <1>1, <2>1
  <2>3. PICK f \in Nat : f = (k + 1) * g /\ f = k * g + g
    BY <1>1, <2>2
  <2>4. ImplicitFlush(z, elba) = f
    BY <1>1, <1>3, <2>1, <2>2, <2>3 DEF ImplicitFlush
  <2>5. PICK h \in Nat : h = k * g
    BY <1>1, <2>2
  <2>6. wp + f <= s
    BY <1>1, <2>1, <2>2, <2>3, <2>5
  <2> QED
    BY <1>1, <2>4, <2>6
<1>4. CASE elba < wp + r /\ elba = s - 1
  <2>1. ImplicitFlush(z, elba) = elba - wp + 1
    BY <1>1, <1>2, <1>4 DEF ImplicitFlush
  <2> QED
    BY <1>1, <1>4, <2>1
<1>5. CASE elba < wp + r /\ elba # s - 1
  <2>1. ImplicitFlush(z, elba) = 0
    BY <1>1, <1>2, <1>5 DEF ImplicitFlush
  <2> QED
    BY <1>1, <2>1
<1> QED
    BY <1>1, <1>3, <1>4, <1>5

\* A write to a ZRWA: refused, ended by an assertion or a division, put off, or done.
LEMMA ZrwaInv ==
    ASSUME IInv, NEW q \in SQs, Running, zns_write_zrwa(q), cfg' = cfg, cmds' = cmds
    PROVE  IInv'
<1>1. PICK z \in Zones : z = ZoneOf(q) /\ IsWrite(q) /\ dev.zone[z].zrwav = 1
    BY DEF zns_write_zrwa
<1>2. /\ cfg \in Configs /\ DevInv(dev) /\ sq[q].n \in Nat /\ sq[q].n >= 1 /\ sq[q].slba \in Nat
    BY <1>1, WriteHead
<1>3. PICK x \in ZoneDescs : x = dev.zone[z] /\ ZoneInv(z, x, dev.written[z]) /\ dev \in Devs
    BY <1>2, Counted
<1>4. PICK n \in Nat, slba \in Nat : n = sq[q].n /\ slba = sq[q].slba /\ n >= 1
    BY <1>2
<1>5. PICK elba \in Nat : elba = slba + n - 1
    BY <1>4
<1>6. PICK wp \in Nat : wp = x.wp
    BY <1>3 DEF ZoneDescs
<1>7. PICK d : d = ZrwaOpened(z)
    OBVIOUS
<1>8. PICK k : k = ImplicitFlush(z, elba)
    OBVIOUS
<1>9. /\ pend \in [Zones -> Seq(Nat)] /\ zpend \in [Zones -> Seq(Nat)] /\ cmds' \in 0 .. cfg.cmds
      /\ AppendInItsZone' /\ fault = "none"
    BY DEF IInv, zns_write_zrwa, Running, AppendInItsZone
<1>10. \/ /\ Answered(q) /\ UNCHANGED <<dev, pend, zpend, fault>>
       \/ /\ fault' = "assert" /\ UNCHANGED <<dev, pend, zpend, sq>>
       \/ /\ ~ZrwaRefuses(z, slba, n) /\ cfg.fg = 0
          /\ fault' = "divide" /\ UNCHANGED <<dev, pend, zpend, sq>>
       \/ /\ ~ZrwaRefuses(z, slba, n) /\ cfg.fg > 0
          /\ x.state = "CLOSED" => dev.zwb[z] >= cfg.zrwa
          /\ \/ k > d.zwb[z] /\ dev' = d /\ UNCHANGED <<pend, zpend, sq, fault>>
             \/ /\ ~(k > d.zwb[z])
                /\ dev' = IF k = 0 THEN d ELSE increase_write_ptr([d EXCEPT !.zwb[z] = @ - k], z, k)
                /\ \E j \in Scheduled(ZrwaReleases(z, k)) :
                      zpend' = [zpend EXCEPT ![z] = @ \o SubSeq(ZrwaReleases(z, k), 1, j)]
                /\ Answered(q)
                /\ UNCHANGED <<pend, fault>>
    BY <1>1, <1>3, <1>4, <1>5, <1>7, <1>8 DEF zns_write_zrwa
<1>11. ASSUME Answered(q), UNCHANGED <<dev, pend, zpend, fault>>
       PROVE  IInv'
    BY <1>2, <1>9, <1>11, QueuesAnswered, StepInv
<1>12. ASSUME fault' = "assert", UNCHANGED <<dev, pend, zpend, sq>>
       PROVE  IInv'
    BY <1>2, <1>9, <1>12, QueuesKept, StepInv
<1>13. ASSUME ~ZrwaRefuses(z, slba, n)
       PROVE  /\ wp <= elba /\ elba < zone_to_slba(z + 1) /\ elba <= (wp + 2 * cfg.zrwa - 1) % U64
              /\ x.state # "FULL" /\ (x.state = "CLOSED" => dev.res["OPEN"] # NZones)
  <2>1. /\ SameZone(slba, n) /\ ~(slba < wp) /\ ~(elba > (wp + 2 * cfg.zrwa - 1) % U64) /\ x.state # "FULL"
        /\ x.state = "CLOSED" => dev.res["OPEN"] # NZones
    BY <1>3, <1>5, <1>6, <1>13 DEF ZrwaRefuses, is_zone_resource_full
  <2>2. wp <= elba
    BY <1>4, <1>5, <2>1
  <2>3. lba_to_zone(elba) = z
    BY <1>1, <1>4, <1>5, <2>1 DEF SameZone, ZoneOf
  <2>4. elba < zone_to_slba(z + 1)
    <3>1. z \in Nat /\ elba < zone_to_slba(z) + cfg.size
      BY <1>2, <2>3, Addr
    <3> QED
      BY <1>2, <3>1, Addr
  <2>5. PICK u \in Int : u = (wp + 2 * cfg.zrwa - 1) % U64
    <3>1. cfg.zrwa \in Nat /\ U64 \in Nat /\ U64 > 0
      <4>1. z \in Zones /\ zone_to_slba(z + 1) < U64 /\ zone_to_slba(z + 1) \in Nat
        BY <1>2, Addr
      <4> QED
        BY <1>2, <4>1, CfgFacts
    <3>2. wp + 2 * cfg.zrwa - 1 \in Int
      BY <3>1
    <3> QED
      BY <3>1, <3>2
  <2> QED
    BY <2>1, <2>2, <2>4, <2>5
<1>14. ASSUME ~ZrwaRefuses(z, slba, n), cfg.fg = 0, fault' = "divide", UNCHANGED <<dev, pend, zpend, sq>>
       PROVE  IInv'
  <2>1. cfg.zrwa = 0
    BY <1>2, <1>14, CfgFacts
  <2>2. wp + 2 * cfg.zrwa - 1 = wp - 1
    BY <2>1
  <2>3. wp <= elba /\ elba <= (wp - 1) % U64
    BY <1>13, <1>14, <2>2
  <2>4. z = 0 /\ wp = 0
    BY <1>2, <1>3, <1>6, <2>3, WrapsAtZero
  <2>5. QueueInv'
    BY <1>14, QueuesKept
  <2>6. cfg.fg = 0 /\ dev'.zone[0].zrwav = 1 /\ dev'.zone[0].wp = 0
    BY <1>1, <1>3, <1>6, <1>14, <2>4
  <2> QED
    BY <1>2, <1>9, <1>14, <2>5, <2>6, StepInv
<1>15. ASSUME ~ZrwaRefuses(z, slba, n), cfg.fg > 0, x.state = "CLOSED" => dev.zwb[z] >= cfg.zrwa
       PROVE  /\ DevInv(d) /\ d.zone[z].state \in Opened /\ d.zone[z].wp = wp /\ d.zone[z].zrwav = 1
              /\ k \in Nat /\ wp + k <= zone_to_slba(z + 1)
  <2>1. k \in Nat /\ wp + k <= zone_to_slba(z + 1)
    BY <1>2, <1>3, <1>6, <1>8, <1>13, <1>15, FlushBound
  <2>2. x.state \in States /\ x.state # "EMPTY" /\ x.state # "FULL"
    BY <1>1, <1>3, <1>13, <1>15 DEF ZoneInv, ZoneDescs
  <2>3. CASE x.state = "CLOSED"
    <3>1. PICK o : o = change_zone_state(acquire_zone_resource(dev, "OPEN"), z, "OPENED_IMPL")
      OBVIOUS
    <3>2. dev = IF dev.zone[z].state = "EMPTY" THEN acquire_zone_resource(dev, "ACTIVE") ELSE dev
      BY <1>3, <2>3
    <3>3. dev.res["OPEN"] \in 0 .. NZones - 1
      <4>1. dev.res["OPEN"] \in 0 .. NZones /\ NZones \in Nat
        BY <1>3, ConfigsSound DEF Devs, Types
      <4> QED
        BY <1>13, <1>15, <2>3, <4>1
    <3>4. "OPENED_IMPL" \in Opened /\ dev.zone[z].state \in {"EMPTY", "CLOSED"} /\ dev.zone[z].state # "EMPTY"
      BY <1>3, <2>3 DEF Opened
    <3>5. Opening(dev, o, z, "OPENED_IMPL")
      BY <1>3, <3>1, <3>2, <3>3, <3>4, OpenMade
    <3>6. DevInv(o)
      BY <1>2, <3>4, <3>5, OpeningInv
    <3>7. PICK y : y = [x EXCEPT !.state = "OPENED_IMPL"]
      OBVIOUS
    <3>8. y \in ZoneDescs /\ y.state = "OPENED_IMPL" /\ y.wp = x.wp /\ y.zrwav = x.zrwav
      BY <3>4, <3>7, NewState DEF States, Active
    <3>9. o.zone[z] = y /\ o \in Devs
      BY <1>3, <3>5, <3>7 DEF Opening, Devs
    <3>10. cfg.zrwa \in Nat /\ o.zwb[z] >= cfg.zrwa
      <4>1. o.zwb = dev.zwb
        BY <1>3, <3>1 DEF change_zone_state, acquire_zone_resource, Devs
      <4> QED
        BY <1>2, <1>15, <2>3, <4>1, CfgFacts
    <3>11. PICK f : f = [o.zwb EXCEPT ![z] = @ - cfg.zrwa]
      OBVIOUS
    <3>12. f \in [Zones -> Nat]
      <4>1. o.zwb \in [Zones -> Nat] /\ o.zwb[z] \in Nat
        BY <3>9 DEF Devs
      <4>2. o.zwb[z] - cfg.zrwa \in Nat
        BY <3>10, <4>1
      <4> QED
        BY <3>11, <4>1, <4>2
    <3>13. d = [o EXCEPT !.zwb = f]
      <4>1. d = [o EXCEPT !.zwb[z] = @ - cfg.zrwa]
        BY <1>3, <1>7, <2>3, <3>1 DEF ZrwaOpened
      <4> QED
        BY <3>9, <3>11, <4>1 DEF Devs
    <3>14. Made(d, o.zone, o.res, o.written, o.zleaked)
      BY <3>9, <3>12, <3>13 DEF Made, Devs
    <3>15. DevInv(d)
      BY <3>6, <3>14, SameDev
    <3>16. d.zone[z] = y
      BY <3>9, <3>14 DEF Made
    <3> QED
      BY <1>1, <1>3, <1>6, <2>1, <3>4, <3>8, <3>15, <3>16
  <2>4. CASE x.state # "CLOSED"
    <3>1. d = dev
      BY <1>3, <1>7, <2>4 DEF ZrwaOpened
    <3>2. x.state \in Opened
      BY <2>2, <2>4 DEF States, Active
    <3> QED
      BY <1>1, <1>2, <1>3, <1>6, <2>1, <3>1, <3>2
  <2> QED
    BY <2>3, <2>4
<1>16. ASSUME ~ZrwaRefuses(z, slba, n), cfg.fg > 0, x.state = "CLOSED" => dev.zwb[z] >= cfg.zrwa,
              dev' = d, UNCHANGED <<pend, zpend, sq, fault>>
       PROVE  IInv'
    BY <1>9, <1>15, <1>16, QueuesKept, StepInv
<1>17. ASSUME ~ZrwaRefuses(z, slba, n), cfg.fg > 0, x.state = "CLOSED" => dev.zwb[z] >= cfg.zrwa,
              ~(k > d.zwb[z]),
              dev' = IF k = 0 THEN d ELSE increase_write_ptr([d EXCEPT !.zwb[z] = @ - k], z, k),
              NEW l \in Scheduled(ZrwaReleases(z, k)),
              zpend' = [zpend EXCEPT ![z] = @ \o SubSeq(ZrwaReleases(z, k), 1, l)],
              Answered(q), UNCHANGED <<pend, fault>>
       PROVE  IInv'
  <2>1. /\ DevInv(d) /\ d.zone[z].state \in Opened /\ d.zone[z].wp = wp /\ d.zone[z].zrwav = 1
        /\ k \in Nat /\ wp + k <= zone_to_slba(z + 1)
    BY <1>15, <1>17
  <2>2. PICK y \in ZoneDescs : y = d.zone[z] /\ d \in Devs
    BY <2>1, Counted
  <2>3. zpend' \in [Zones -> Seq(Nat)]
    <3>1. PICK r \in Seq(Nat) : r = ZrwaReleases(z, k)
      BY <1>2, <2>1, ZrwaReleasesSeq
    <3>2. l \in Scheduled(r)
      BY <1>17, <3>1
    <3>3. PICK u \in Seq(Nat) : u = SubSeq(r, 1, l)
      BY <3>2, Parted
    <3>4. zpend[z] \o u \in Seq(Nat)
      BY <1>9
    <3> QED
      BY <1>9, <1>17, <3>1, <3>3, <3>4
  <2>4. CASE k = 0
    <3>1. DevInv(dev')
      BY <1>17, <2>1, <2>4
    <3>2. QueueInv'
      BY <1>17, QueuesAnswered
    <3> QED
      BY <1>9, <1>17, <2>3, <3>1, <3>2, StepInv
  <2>5. CASE k # 0
    <3>1. PICK f : f = [d.zwb EXCEPT ![z] = @ - k]
      OBVIOUS
    <3>2. f \in [Zones -> Nat]
      <4>1. d.zwb \in [Zones -> Nat] /\ d.zwb[z] \in Nat
        BY <2>2 DEF Devs
      <4>2. d.zwb[z] - k \in Nat
        BY <1>17, <2>1, <4>1
      <4> QED
        BY <3>1, <4>1, <4>2
    <3>3. PICK o : o = [d EXCEPT !.zwb = f]
      OBVIOUS
    <3>4. o = [d EXCEPT !.zwb[z] = @ - k]
      BY <2>2, <3>1, <3>3 DEF Devs
    <3>5. Made(o, d.zone, d.res, d.written, d.zleaked)
      BY <2>2, <3>2, <3>3 DEF Made, Devs
    <3>6. /\ o \in Devs /\ o.zone = [d.zone EXCEPT ![z] = y] /\ o.zleaked = d.zleaked /\ o.res = d.res
          /\ o.written = d.written
      BY <2>2, <3>5 DEF Made, Devs
    <3>7. IsOpen(y) = 1 /\ IsActive(y) = 1
      BY <2>1, <2>2 DEF IsOpen, IsActive, Active
    <3>8. PICK j \in {0, 1} : j = HasZrwa(y)
      BY Ones
    <3>9. d.res["OPEN"] \in Int /\ d.res["ACTIVE"] \in Int /\ d.res["ZRWA"] \in Int
      BY <2>2, ConfigsSound DEF Devs, Types
    <3>10. /\ o.res["OPEN"] = d.res["OPEN"] + 1 - 1 /\ o.res["ACTIVE"] = d.res["ACTIVE"] + 1 - 1
           /\ o.res["ZRWA"] = d.res["ZRWA"] + j - j
      BY <3>6, <3>9
    <3>11. Prepared(d, o, z, y)
      BY <2>1, <2>2, <3>6, <3>7, <3>8, <3>10 DEF Prepared
    <3>12. y.wp + k <= zone_to_slba(z + 1) /\ y.zrwav # 0 /\ k > 0
      BY <2>1, <2>2, <2>5
    <3>13. DevInv(increase_write_ptr(o, z, k))
      BY <1>2, <2>1, <3>11, <3>12, AdvanceInv
    <3>14. DevInv(dev')
      BY <1>17, <2>5, <3>4, <3>13
    <3>15. QueueInv'
      BY <1>17, QueuesAnswered
    <3> QED
      BY <1>9, <1>17, <2>3, <3>14, <3>15, StepInv
  <2> QED
    BY <2>4, <2>5
<1> QED
    BY <1>10, <1>11, <1>12, <1>14, <1>16, <1>17

\* A management command keeps the invariant; it divides by a granularity of
\* zero only for zone 0 at its start.
LEMMA ManageInv ==
    ASSUME IInv, NEW q \in SQs, Running, zns_zmgmt_send(q), cfg' = cfg, cmds' = cmds
    PROVE  IInv'
<1>1. PICK c : c = sq[q]
    OBVIOUS
<1>2. c # NoCmd /\ c.op \in {"close", "finish", "open", "reset", "offline", "zflush"}
    BY <1>1 DEF zns_zmgmt_send
<1>3. cfg \in Configs /\ DevInv(dev) /\ CmdInv(c) /\ c \in Cmds
    BY <1>1, <1>2 DEF IInv, CmdInv
<1>4. PICK slba \in Nat : slba = c.slba
    BY <1>3 DEF Cmds
<1>5. PICK z \in Zones : z = lba_to_zone(slba)
    BY <1>2, <1>3, <1>4 DEF CmdInv
<1>6. /\ pend' \in [Zones -> Seq(Nat)] /\ zpend' \in [Zones -> Seq(Nat)] /\ cmds' \in 0 .. cfg.cmds
      /\ AppendInItsZone' /\ fault = "none"
    BY DEF IInv, zns_zmgmt_send, Running, AppendInItsZone
<1>7. CASE c.op = "zflush" /\ cfg.fg = 0 /\ FlushDivides(dev, slba)
  <2>1. fault' = "divide" /\ dev' = dev /\ sq' = sq
    BY <1>1, <1>4, <1>7 DEF zns_zmgmt_send
  <2>2. PICK x \in ZoneDescs : x = dev.zone[z] /\ dev \in Devs
    BY <1>3, Counted
  <2>3. PICK wp \in Nat : wp = x.wp
    BY <2>2 DEF ZoneDescs
  <2>4. cfg.zrwa = 0 /\ cfg.size \in Nat
    BY <1>3, <1>7, CfgFacts
  <2>5. PICK a \in Int, b \in Int : a = (wp - 1) % U64 /\ b = zone_to_slba(z) + cfg.size - 1
    <3>1. zone_to_slba(z) \in Nat
      BY <1>3, ZoneStart
    <3>2. zone_to_slba(z + 1) < U64 /\ zone_to_slba(z + 1) \in Nat /\ U64 \in Nat
      BY <1>3, Addr, CfgFacts
    <3>3. U64 \in Nat /\ U64 > 0
      BY <3>2
    <3>4. (wp - 1) % U64 \in Int
      BY <3>3
    <3> QED
      BY <2>4, <3>1, <3>4
  <2>6. wp + cfg.zrwa - 1 = wp - 1
    BY <2>4
  <2>7. x.zrwav = 1 /\ slba \in wp .. Min({a, b})
    BY <1>5, <1>7, <2>2, <2>3, <2>5, <2>6 DEF FlushDivides
  <2>8. Min({a, b}) \in {a, b} /\ Min({a, b}) <= a
    <3>1. Min({a, b}) = CHOOSE u \in {a, b} : \A v \in {a, b} : u <= v
      BY DEF Min
    <3>2. \E u \in {a, b} : \A v \in {a, b} : u <= v
      <4>1. CASE a <= b
        BY <4>1
      <4>2. CASE b <= a
        BY <4>2
      <4> QED
        BY <4>1, <4>2
    <3> QED
      BY <3>1, <3>2
  <2>9. wp <= slba /\ slba <= (wp - 1) % U64
    BY <2>3, <2>5, <2>7, <2>8
  <2>10. z = 0 /\ wp = 0
    BY <1>3, <2>2, <2>3, <2>9, WrapsAtZero
  <2>11. QueueInv'
    BY <2>1, QueuesKept
  <2>12. cfg.fg = 0 /\ dev'.zone[0].zrwav = 1 /\ dev'.zone[0].wp = 0
    BY <1>7, <2>1, <2>2, <2>3, <2>7, <2>10
  <2> QED
    BY <1>3, <1>6, <2>1, <2>11, <2>12, StepInv
<1>8. CASE ~(c.op = "zflush" /\ cfg.fg = 0 /\ FlushDivides(dev, slba))
  <2>1. /\ dev' = IF c.all THEN SendToAll(dev, c) ELSE zmgmt_send(dev, c, slba)
        /\ Answered(q) /\ fault' = fault
    BY <1>1, <1>4, <1>8 DEF zns_zmgmt_send
  <2>2. DevInv(SendToAll(dev, c))
    BY <1>3, SendAllInv
  <2>3. DevInv(zmgmt_send(dev, c, slba))
    BY <1>3, <1>5, SendInv
  <2>4. DevInv(dev')
    BY <2>1, <2>2, <2>3
  <2>5. QueueInv'
    BY <2>1, QueuesAnswered
  <2> QED
    BY <1>6, <2>1, <2>4, <2>5, StepInv
<1> QED
    BY <1>7, <1>8

\* Buffer that comes back.
LEMMA BackInv ==
    ASSUME IInv, NEW b \in Zones, Running, ReleaseBuffer(b) \/ ReleaseZrwaBuffer(b)
    PROVE  IInv'
<1>1. /\ DevInv(dev) /\ dev \in Devs /\ dev.wb \in [Zones -> Nat] /\ dev.zwb \in [Zones -> Nat]
      /\ pend \in [Zones -> Seq(Nat)] /\ zpend \in [Zones -> Seq(Nat)] /\ cmds \in 0 .. cfg.cmds
    BY DEF IInv, DevInv, Devs
<1>2. CASE ReleaseBuffer(b)
  <2>1. pend[b] \in Seq(Nat) /\ pend[b] # <<>>
    BY <1>1, <1>2 DEF ReleaseBuffer
  <2>2. PICK h \in Nat, t \in Seq(Nat) : h = Head(pend[b]) /\ t = Tail(pend[b])
    <3>1. PICK s \in Seq(Nat) : s = pend[b] /\ s # <<>>
      BY <2>1
    <3>2. Head(s) \in Nat /\ Tail(s) \in Seq(Nat)
      BY <3>1
    <3> QED
      BY <3>1, <3>2
  <2>3. dev' = [dev EXCEPT !.wb[b] = @ + h] /\ pend' = [pend EXCEPT ![b] = t]
    BY <1>2, <2>2 DEF ReleaseBuffer
  <2>4. PICK w : w = [dev.wb EXCEPT ![b] = @ + h]
    OBVIOUS
  <2>5. w \in [Zones -> Nat]
    BY <1>1, <2>4
  <2>6. dev' = [dev EXCEPT !.wb = w]
    BY <1>1, <2>3, <2>4 DEF Devs
  <2>7. Made(dev', dev.zone, dev.res, dev.written, dev.zleaked)
    BY <1>1, <2>5, <2>6 DEF Made, Devs
  <2>8. DevInv(dev')
    BY <1>1, <2>7, SameDev
  <2>9. pend' \in [Zones -> Seq(Nat)]
    BY <1>1, <2>3
  <2>10. cfg' = cfg /\ QueueInv' /\ fault' = "none" /\ AppendInItsZone' /\ cmds' = cmds /\ zpend' = zpend
    BY <1>2, QueuesKept DEF ReleaseBuffer, IInv, AppendInItsZone, Running
  <2> QED
    BY <1>1, <2>8, <2>9, <2>10, StepInv
<1>3. CASE ReleaseZrwaBuffer(b)
  <2>1. zpend[b] \in Seq(Nat) /\ zpend[b] # <<>>
    BY <1>1, <1>3 DEF ReleaseZrwaBuffer
  <2>2. PICK h \in Nat, t \in Seq(Nat) : h = Head(zpend[b]) /\ t = Tail(zpend[b])
    <3>1. PICK s \in Seq(Nat) : s = zpend[b] /\ s # <<>>
      BY <2>1
    <3>2. Head(s) \in Nat /\ Tail(s) \in Seq(Nat)
      BY <3>1
    <3> QED
      BY <3>1, <3>2
  <2>3. dev' = [dev EXCEPT !.zwb[b] = @ + h] /\ zpend' = [zpend EXCEPT ![b] = t]
    BY <1>3, <2>2 DEF ReleaseZrwaBuffer
  <2>4. PICK w : w = [dev.zwb EXCEPT ![b] = @ + h]
    OBVIOUS
  <2>5. w \in [Zones -> Nat]
    BY <1>1, <2>4
  <2>6. dev' = [dev EXCEPT !.zwb = w]
    BY <1>1, <2>3, <2>4 DEF Devs
  <2>7. Made(dev', dev.zone, dev.res, dev.written, dev.zleaked)
    BY <1>1, <2>5, <2>6 DEF Made, Devs
  <2>8. DevInv(dev')
    BY <1>1, <2>7, SameDev
  <2>9. zpend' \in [Zones -> Seq(Nat)]
    BY <1>1, <2>3
  <2>10. cfg' = cfg /\ QueueInv' /\ fault' = "none" /\ AppendInItsZone' /\ cmds' = cmds /\ pend' = pend
    BY <1>3, QueuesKept DEF ReleaseZrwaBuffer, IInv, AppendInItsZone, Running
  <2> QED
    BY <1>1, <2>8, <2>9, <2>10, StepInv
<1> QED
    BY <1>2, <1>3

\* A command of a host is sound.
LEMMA HostCmd ==
    ASSUME cfg \in Configs, DevInv(dev), NEW c \in HostCmds
    PROVE  CmdInv(c)
<1> DEFINE Of(z) ==
            {Cmd("write", z, dev.zone[z].wp + i, n, 0, FALSE) :
                i \in IF dev.zone[z].wp + 1 < zone_to_slba(z + 1) THEN {0, 1} ELSE {0}, n \in cfg.lens}
            \cup {Cmd("append", z, zone_to_slba(z), n, 0, FALSE) : n \in cfg.lens}
            \cup {Cmd(op, z, zone_to_slba(z), 0, 0, FALSE) :
                    op \in {"read", "close", "finish", "reset", "offline"}}
            \cup {Cmd(op, 0, 0, 0, 0, TRUE) : op \in {"close", "finish", "open", "reset"}}
            \cup {Cmd("open", z, zone_to_slba(z), 0, opt, FALSE) : opt \in {0, 1}}
            \cup {Cmd("zflush", z, zone_to_slba(z) + i, 0, 0, FALSE) : i \in {0, 1}}
<1>0. HostCmds = UNION {Of(z) : z \in Zones}
    BY DEF HostCmds
<1>1. PICK z \in Zones : c \in Of(z)
  <2> HIDE DEF Of
  <2> QED
    BY <1>0
<1>2. PICK wp \in Nat : wp = dev.zone[z].wp
    BY Counted DEF ZoneDescs
<1>3. PICK s \in Nat : s = zone_to_slba(z) /\ lba_to_zone(s) = z /\ z \in Nat
    BY ZoneStart, Addr
<1> HIDE DEF Of
<1>4. s + 1 \in Nat /\ lba_to_zone(s + 1) = z /\ s + 0 = s
  <2>1. cfg.size \in Nat /\ cfg.size > 1
    BY CfgFacts
  <2>2. PICK m \in Nat : m = s + 1
    BY <1>3
  <2>3. zone_to_slba(z) <= m /\ m < zone_to_slba(z) + cfg.size
    BY <1>3, <2>1, <2>2
  <2>4. lba_to_zone(m) = z
    BY <1>3, <2>3, Addr
  <2> QED
    BY <1>3, <2>2, <2>4
<1>5. 0 \in Zones /\ lba_to_zone(0) = 0
  <2>1. 0 \in Zones /\ zone_to_slba(0) = 0
    BY ConfigsSound, CfgFacts DEF Zones, zone_to_slba
  <2> QED
    BY <2>1, ZoneStart
<1>6. \A n \in cfg.lens : n \in Nat /\ n >= 1
    BY CfgFacts
<1>8. ASSUME NEW i \in {0, 1}, NEW n \in cfg.lens, c = Cmd("write", z, wp + i, n, 0, FALSE)
      PROVE  CmdInv(c)
  <2>1. wp + i \in Nat /\ n \in Nat /\ n >= 1
    BY <1>6
  <2>2. c \in Cmds /\ c.op = "write" /\ c.n = n /\ ~c.all
    BY <1>8, <2>1 DEF Cmd, Cmds, Ops
  <2> QED
    BY <2>1, <2>2 DEF CmdInv
<1>9. ASSUME NEW n \in cfg.lens, c = Cmd("append", z, s, n, 0, FALSE)
      PROVE  CmdInv(c)
  <2>1. n \in Nat /\ n >= 1
    BY <1>6
  <2>2. c \in Cmds /\ c.op = "append" /\ c.n = n /\ ~c.all /\ c.slba = s /\ c.named = z
    BY <1>9, <2>1 DEF Cmd, Cmds, Ops
  <2> QED
    BY <1>3, <2>1, <2>2 DEF CmdInv
<1>10. ASSUME NEW op \in {"read", "close", "finish", "reset", "offline"}, c = Cmd(op, z, s, 0, 0, FALSE)
       PROVE  CmdInv(c)
  <2>1. c \in Cmds /\ c.op = op /\ ~c.all /\ c.slba = s
    BY <1>10 DEF Cmd, Cmds, Ops
  <2> QED
    BY <1>3, <2>1 DEF CmdInv
<1>11. ASSUME NEW op \in {"close", "finish", "open", "reset"}, c = Cmd(op, 0, 0, 0, 0, TRUE)
       PROVE  CmdInv(c)
  <2>1. c \in Cmds /\ c.op = op /\ c.slba = 0
    BY <1>5, <1>11 DEF Cmd, Cmds, Ops
  <2> QED
    BY <1>5, <2>1 DEF CmdInv
<1>12. ASSUME NEW opt \in {0, 1}, c = Cmd("open", z, s, 0, opt, FALSE)
       PROVE  CmdInv(c)
  <2>1. c \in Cmds /\ c.op = "open" /\ ~c.all /\ c.slba = s
    BY <1>12 DEF Cmd, Cmds, Ops
  <2> QED
    BY <1>3, <2>1 DEF CmdInv
<1>13. ASSUME NEW i \in {0, 1}, c = Cmd("zflush", z, s + i, 0, 0, FALSE)
       PROVE  CmdInv(c)
  <2>1. PICK a \in Nat : a = s + i /\ lba_to_zone(a) = z
    BY <1>3, <1>4
  <2>2. c \in Cmds /\ c.op = "zflush" /\ ~c.all /\ c.slba = a
    BY <1>13, <2>1 DEF Cmd, Cmds, Ops
  <2> QED
    BY <2>1, <2>2 DEF CmdInv
<1> QED
  <2>1. \/ \E i \in {0, 1}, n \in cfg.lens : c = Cmd("write", z, wp + i, n, 0, FALSE)
        \/ \E n \in cfg.lens : c = Cmd("append", z, s, n, 0, FALSE)
        \/ \E op \in {"read", "close", "finish", "reset", "offline"} : c = Cmd(op, z, s, 0, 0, FALSE)
        \/ \E op \in {"close", "finish", "open", "reset"} : c = Cmd(op, 0, 0, 0, 0, TRUE)
        \/ \E opt \in {0, 1} : c = Cmd("open", z, s, 0, opt, FALSE)
        \/ \E i \in {0, 1} : c = Cmd("zflush", z, s + i, 0, 0, FALSE)
    <3> DEFINE Writes  == {Cmd("write", z, dev.zone[z].wp + i, n, 0, FALSE) :
                              i \in IF dev.zone[z].wp + 1 < zone_to_slba(z + 1) THEN {0, 1} ELSE {0},
                              n \in cfg.lens}
               Appends == {Cmd("append", z, zone_to_slba(z), n, 0, FALSE) : n \in cfg.lens}
               Others  == {Cmd(op, z, zone_to_slba(z), 0, 0, FALSE) :
                              op \in {"read", "close", "finish", "reset", "offline"}}
               Alls    == {Cmd(op, 0, 0, 0, 0, TRUE) : op \in {"close", "finish", "open", "reset"}}
               Opens   == {Cmd("open", z, zone_to_slba(z), 0, opt, FALSE) : opt \in {0, 1}}
               Flushes == {Cmd("zflush", z, zone_to_slba(z) + i, 0, 0, FALSE) : i \in {0, 1}}
    <3>1. c \in Writes => \E i \in {0, 1}, n \in cfg.lens : c = Cmd("write", z, wp + i, n, 0, FALSE)
      BY <1>2 DEF Cmd
    <3>2. c \in Appends => \E n \in cfg.lens : c = Cmd("append", z, s, n, 0, FALSE)
      BY <1>3 DEF Cmd
    <3>3. c \in Others => \E op \in {"read", "close", "finish", "reset", "offline"} : c = Cmd(op, z, s, 0, 0, FALSE)
      BY <1>3 DEF Cmd
    <3>4. c \in Alls => \E op \in {"close", "finish", "open", "reset"} : c = Cmd(op, 0, 0, 0, 0, TRUE)
      BY DEF Cmd
    <3>5. c \in Opens => \E opt \in {0, 1} : c = Cmd("open", z, s, 0, opt, FALSE)
      BY <1>3 DEF Cmd
    <3>6. c \in Flushes => \E i \in {0, 1} : c = Cmd("zflush", z, s + i, 0, 0, FALSE)
      BY <1>3 DEF Cmd
    <3>7. Of(z) = Writes \cup Appends \cup Others \cup Alls \cup Opens \cup Flushes
      BY DEF Of
    <3> HIDE DEF Writes, Appends, Others, Alls, Opens, Flushes
    <3>8. \/ c \in Writes \/ c \in Appends \/ c \in Others
          \/ c \in Alls \/ c \in Opens \/ c \in Flushes
      BY <1>1, <3>7
    <3> QED
      BY <3>1, <3>2, <3>3, <3>4, <3>5, <3>6, <3>8, Zenon
  <2> QED
    BY <2>1, <1>8, <1>9, <1>10, <1>11, <1>12, <1>13

\* A host submits a command.
LEMMA SubmitInv ==
    ASSUME IInv, NEW q \in SQs, Running, Submit(q)
    PROVE  IInv'
<1>1. PICK c \in HostCmds : sq' = [sq EXCEPT ![q] = c]
    BY DEF Submit
<1>2. cfg \in Configs /\ DevInv(dev) /\ cfg' = cfg
    BY DEF IInv, Submit
<1>3. CmdInv(c)
    BY <1>2, HostCmd
<1>4. QueueInv'
    BY <1>1, <1>2, <1>3, QueuesSet
<1>5. cmds' \in 0 .. cfg.cmds
  <2>1. /\ cmds \in 0 .. cfg.cmds /\ cfg.cmds \in Nat
        /\ cmds' = cmds \/ (cmds' = cmds + 1 /\ cmds < cfg.cmds)
    BY <1>2, CfgFacts DEF IInv, Submit
  <2> QED
    BY <2>1
<1>6. /\ DevInv(dev') /\ pend' \in [Zones -> Seq(Nat)] /\ zpend' \in [Zones -> Seq(Nat)]
      /\ fault' = "none" /\ AppendInItsZone'
    BY DEF IInv, Submit, Running, AppendInItsZone
<1> QED
    BY <1>2, <1>4, <1>5, <1>6, StepInv

-----------------------------------------------------------------------------
(* The theorems. *)

\* The device starts out sound.
LEMMA InitInv ==
    ASSUME Init
    PROVE  IInv
<1>1. cfg \in Configs
    BY DEF Init
<1>2. cfg.wb \in Nat /\ cfg.zwb \in Nat /\ cfg.cmds \in Nat /\ cfg.size \in Nat /\ cfg.size > 1
    BY <1>1, CfgFacts
<1>3. \A z \in Zones : zone_to_slba(z) \in Nat /\ zone_to_slba(z + 1) = zone_to_slba(z) + cfg.size
    BY <1>1, Addr
<1> DEFINE desc(z) == [state |-> "EMPTY", wp |-> zone_to_slba(z), zrwav |-> 0]
<1>4. PICK f : f = [z \in Zones |-> desc(z)]
    OBVIOUS
<1>5. \A z \in Zones : desc(z) \in ZoneDescs
    BY <1>3 DEF ZoneDescs, States
<1>6. \A z \in Zones : f[z] = desc(z) /\ f[z].state = "EMPTY" /\ f[z].wp = zone_to_slba(z) /\ f[z].zrwav = 0
    BY <1>4
<1>7. f \in [Zones -> ZoneDescs]
  <2> HIDE DEF desc
  <2> QED
    BY <1>4, <1>5
<1> HIDE DEF desc
<1>8. PICK w, zw, wr, lk, rs :
        /\ w = [b \in Zones |-> cfg.wb] /\ zw = [z \in Zones |-> cfg.zwb]
        /\ wr = [z \in Zones |-> {}] /\ lk = [b \in Zones |-> 0]
        /\ rs = [type \in Types |-> 0]
    OBVIOUS
<1>9. /\ w \in [Zones -> Nat] /\ zw \in [Zones -> Nat] /\ wr \in [Zones -> SUBSET Nat] /\ lk \in [Zones -> Int]
      /\ rs \in [Types -> 0 .. NZones]
    BY <1>2, <1>8, ConfigsSound
<1>10. dev = [zone |-> f, res |-> rs, wb |-> w, zwb |-> zw, written |-> wr, leaked |-> lk,
              split |-> FALSE, zleaked |-> 0]
    BY <1>4, <1>8 DEF Init, zns_init_namespace, Types, desc
<1>11. dev \in Devs /\ dev.zone = f /\ dev.res = rs /\ dev.written = wr /\ dev.zleaked = 0
    BY <1>7, <1>9, <1>10 DEF Devs
<1>12. OpenIn(dev) = {} /\ ActiveIn(dev) = {} /\ ZrwaIn(dev) = {}
    BY <1>6, <1>11 DEF OpenIn, ActiveIn, ZrwaIn, Active, Opened
<1>13. Cardinality({}) = 0
    BY FS_EmptySet
<1>14. dev.res["OPEN"] = 0 /\ dev.res["ACTIVE"] = 0 /\ dev.res["ZRWA"] = 0
    BY <1>8, <1>11 DEF Types
<1>15. ASSUME NEW z \in Zones
       PROVE  ZoneInv(z, dev.zone[z], dev.written[z])
  <2>1. dev.zone[z].state = "EMPTY" /\ dev.zone[z].wp = zone_to_slba(z) /\ dev.zone[z].zrwav = 0
        /\ dev.written[z] = {}
    BY <1>6, <1>8, <1>11
  <2>2. zone_to_slba(z) .. zone_to_slba(z) - 1 = {}
    BY <1>3
  <2> QED
    BY <1>2, <1>3, <2>1, <2>2 DEF ZoneInv
<1>16. DevInv(dev)
    BY <1>11, <1>12, <1>13, <1>14, <1>15 DEF DevInv
<1>17. /\ pend \in [Zones -> Seq(Nat)] /\ zpend \in [Zones -> Seq(Nat)]
       /\ sq \in [SQs -> {NoCmd} \cup Cmds] /\ \A q \in SQs : sq[q] = NoCmd
    BY DEF Init
<1> QED
    BY <1>1, <1>2, <1>16, <1>17 DEF Init, IInv, AppendInItsZone

\* Every step keeps the invariant.
LEMMA NextInv ==
    ASSUME IInv, [Next]_vars
    PROVE  IInv'
<1>1. CASE UNCHANGED vars
    BY <1>1 DEF vars, IInv, DevInv, Devs, ZoneInv, zone_to_slba, OpenIn, ActiveIn, ZrwaIn, CmdInv,
                lba_to_zone, AppendInItsZone
<1>2. ASSUME NEW q \in SQs, Running, Submit(q)
      PROVE  IInv'
    BY <1>2, SubmitInv
<1>3. ASSUME NEW q \in SQs, Running, zns_proc_nvme_io_cmd(q)
      PROVE  IInv'
  <2>1. cfg' = cfg /\ cmds' = cmds
    BY <1>3 DEF zns_proc_nvme_io_cmd
  <2>2. \/ zns_write_refused(q) \/ zns_write_error(q) \/ zns_write_done(q)
        \/ zns_write_zrwa(q) \/ NoSuchZone(q) \/ zns_read(q) \/ zns_zmgmt_send(q)
    BY <1>3 DEF zns_proc_nvme_io_cmd
  <2> QED
    BY <1>3, <2>1, <2>2, RefusedInv, ErrorInv, DoneInv, ZrwaInv, NoZoneInv, ReadInv, ManageInv
<1>4. ASSUME NEW b \in Zones, Running, ReleaseBuffer(b) \/ ReleaseZrwaBuffer(b)
      PROVE  IInv'
    BY <1>4, BackInv
<1> QED
    BY <1>1, <1>2, <1>3, <1>4 DEF Next

\* The invariant holds in every reachable state, whatever hosts submit.
THEOREM Invariant == Spec => []IInv
<1>1. Init => IInv
    BY InitInv
<1>2. IInv /\ [Next]_vars => IInv'
    BY NextInv
<1> QED
    BY <1>1, <1>2, PTL DEF Spec

\* Every variable of the zoned FTL keeps its type: states, write pointers
\* within their zones, counters within their limits (struct zns_ftl).
THEOREM TypeCorrect == Spec => []TypeOK
<1>1. IInv => TypeOK
  <2> SUFFICES ASSUME IInv
               PROVE  TypeOK
    OBVIOUS
  <2>1. cfg \in Configs /\ DevInv(dev) /\ dev \in Devs
    BY DEF IInv, DevInv
  <2>2. ASSUME NEW z \in Zones
        PROVE  /\ dev.zone[z].state \in States
               /\ dev.zone[z].wp \in zone_to_slba(z) .. zone_to_slba(z + 1)
               /\ dev.zone[z].zrwav \in {0, 1}
               /\ dev.wb[z] >= 0 /\ dev.zwb[z] >= 0
    <3>1. PICK x \in ZoneDescs : x = dev.zone[z] /\ ZoneInv(z, x, dev.written[z])
      BY <2>1, Counted
    <3>2. x.wp \in Nat /\ x.state \in States /\ x.zrwav \in {0, 1}
      BY <3>1 DEF ZoneDescs
    <3>3. z \in Nat /\ z + 1 \in Nat
      BY <2>1, Addr
    <3>4. zone_to_slba(z) \in Nat /\ zone_to_slba(z + 1) \in Nat
      BY <2>1, <3>3, Addr
    <3>5. x.wp \in zone_to_slba(z) .. zone_to_slba(z + 1)
      BY <3>1, <3>2, <3>4 DEF ZoneInv
    <3>6. dev.wb[z] \in Nat /\ dev.zwb[z] \in Nat
      BY <2>1 DEF Devs
    <3> QED
      BY <3>1, <3>2, <3>5, <3>6
  <2>3. \A type \in DOMAIN dev.res : dev.res[type] \in 0 .. NZones
    BY <2>1 DEF Devs
  <2> QED
    BY <2>2, <2>3 DEF TypeOK, IInv
<1> QED
    BY <1>1, Invariant, PTL

\* The counters of open, active and ZRWA zones agree with the states of the
\* zones, states with write pointers, and write pointers with the blocks that
\* were accepted, through every path that opens, closes, fills, finishes and
\* resets zones, for any number of zones and any configuration.
THEOREM ZonesAreSound == Spec => []ZonesSound
<1>1. IInv => ZonesSound
  <2> SUFFICES ASSUME IInv
               PROVE  ZonesSound
    OBVIOUS
  <2>1. DevInv(dev)
    BY DEF IInv
  <2>2. dev.res["OPEN"] = Count(LAMBDA x : x.state \in Opened)
    BY <2>1 DEF DevInv, OpenIn, Count
  <2>3. dev.res["ACTIVE"] = Count(LAMBDA x : x.state \in Active)
    BY <2>1 DEF DevInv, ActiveIn, Count
  <2>4. dev.res["ZRWA"] = Count(LAMBDA x : x.state \in Active /\ x.zrwav = 1) + dev.zleaked
    BY <2>1 DEF DevInv, ZrwaIn, Count
  <2>5. \A z \in Zones : ZoneInv(z, dev.zone[z], dev.written[z])
    BY <2>1 DEF DevInv
  <2>6. fault = "divide" => cfg.fg = 0 /\ dev.zone[0].zrwav = 1 /\ dev.zone[0].wp = 0
    BY DEF IInv
  <2> QED
    BY <2>2, <2>3, <2>4, <2>5, <2>6 DEF ZonesSound, ZoneInv
<1> QED
    BY <1>1, Invariant, PTL

\* An append is placed in the zone it names, however often it was refused for
\* want of buffer and tried again, unless that zone was full (__zns_write
\* writes the block it would start at into the command).
THEOREM AppendsStay == Spec => []AppendInItsZone
<1>1. IInv => AppendInItsZone
    BY DEF IInv
<1> QED
    BY <1>1, Invariant, PTL

-----------------------------------------------------------------------------
(* The account of the write buffers: pages, program units and what a write schedules. *)

\* Blocks x in pages of P blocks, and these in units of u pages.
InUnits(x, P, u) == P * u \in Nat \ {0} /\ (x \div P) \div u = x \div (P * u)

\* Two divisions are one.
LEMMA DivDiv ==
    ASSUME NEW x \in Nat, NEW P \in Nat \ {0}, NEW u \in Nat \ {0}
    PROVE  InUnits(x, P, u)
<1>1. P * u \in Nat /\ P * u > 0
  <2>1. P * u = (P - 1) * u + u /\ (P - 1) * u >= 0
    OBVIOUS
  <2> QED
    BY <2>1
<1>2. PICK y \in Nat : y = x \div P /\ y * P <= x /\ x < y * P + P
    OBVIOUS
<1>3. PICK w \in Nat : w = y \div u /\ w * u <= y /\ y < w * u + u
    OBVIOUS
<1>4. PICK v \in Nat : v = w * u
    OBVIOUS
<1>5. v * P <= y * P /\ y * P + P <= v * P + u * P
  <2>1. v <= y /\ y <= v + u - 1
    BY <1>3, <1>4
  <2>2. v * P <= y * P
    BY <2>1, Products
  <2>3. PICK m \in Nat : m = v + u - 1
    BY <2>1
  <2>4. y * P <= m * P /\ m * P \in Nat
    BY <2>1, <2>3, Products
  <2>5. m * P + P = v * P + u * P
    BY <2>3
  <2>6. y * P \in Nat /\ v * P \in Nat /\ u * P \in Nat
    OBVIOUS
  <2> QED
    BY <2>2, <2>4, <2>5, <2>6
<1>6. PICK U \in Nat : U = P * u /\ U > 0
    BY <1>1
<1>7. w * U = v * P /\ U = u * P
  <2>1. w * (P * u) = (w * u) * P
    OBVIOUS
  <2> QED
    BY <1>4, <1>6, <2>1
<1>8. w * U <= x /\ x < w * U + U
    BY <1>2, <1>5, <1>7
<1>9. x \div U = w
    BY <1>6, <1>8, Quotient
<1> QED
    BY <1>1, <1>2, <1>3, <1>6, <1>9 DEF InUnits

\* What a write of n blocks from block a of a zone of S pages is, less n, in
\* units of U blocks, when it touches the pages up to h.
Covered(P, u, S, a, n, U, h) ==
    /\ U \in Nat \ {0} /\ h \in Nat /\ a \div P < h /\ h <= S
    /\ a + n = S * P => h = S
    /\ (a + n) % P = 0 /\ a + n < S * P => h < S
    /\ (h \div u - (a \div P) \div u) * U - n + ((a + n) % U) - (a % U) >= 0
    /\ (a + n) % P = 0 => (h \div u - (a \div P) \div u) * U - n + ((a + n) % U) - (a % U) = 0

\* Pages and program units that a write of the n blocks from block a of a
\* zone of S pages ends: what they are, less n, and what the incomplete units
\* before and after it are.
LEMMA UnitsCovered ==
    ASSUME NEW P \in Nat \ {0}, NEW u \in Nat \ {0}, NEW S \in Nat, NEW a \in Nat, NEW n \in Nat, n >= 1,
           a + n <= S * P, NEW U, U = P * u, NEW h, h = (a + n - 1) \div P + 1
    PROVE  Covered(P, u, S, a, n, U, h)
<1>1. U \in Nat \ {0}
    BY DivDiv DEF InUnits
<1>2. PICK k \in Nat : k = (a + n - 1) \div P /\ k * P <= a + n - 1 /\ a + n - 1 < k * P + P
    OBVIOUS
<1>3. h \in Nat /\ h = k + 1 /\ h * P = k * P + P /\ k * P \in Nat
    BY <1>2
<1>4. PICK l \in Nat : l = a \div P /\ l * P <= a /\ a < l * P + P
    OBVIOUS
<1>5. l < h
  <2> SUFFICES ASSUME h <= l
               PROVE  FALSE
    BY <1>3, <1>4
  <2>1. h * P <= l * P
    BY <1>3, Products
  <2> QED
    BY <1>2, <1>3, <1>4, <2>1
<1>6. h <= S
  <2> SUFFICES ASSUME S <= k
               PROVE  FALSE
    BY <1>3
  <2>1. S * P <= k * P /\ S * P \in Nat
    BY Products
  <2> QED
    BY <1>2, <2>1
<1>7. (a + n) % P = 0 => a + n = h * P
  <2> SUFFICES ASSUME (a + n) % P = 0
               PROVE  a + n = h * P
    OBVIOUS
  <2>1. PICK m \in Nat : a + n = m * P
    OBVIOUS
  <2>2. m <= h
    <3> SUFFICES ASSUME h + 1 <= m
                 PROVE  FALSE
      BY <1>3
    <3>1. (h + 1) * P <= m * P /\ (h + 1) * P = h * P + P
      BY <1>3, Products
    <3> QED
      BY <1>2, <1>3, <2>1, <3>1
  <2>3. h <= m
    <3> SUFFICES ASSUME m <= k
                 PROVE  FALSE
      BY <1>3
    <3>1. m * P <= k * P /\ m * P \in Nat
      BY Products
    <3> QED
      BY <1>2, <2>1, <3>1
  <2>4. m = h
    BY <1>3, <2>2, <2>3
  <2> QED
    BY <2>1, <2>4
<1>8. a + n = S * P => h = S
  <2> SUFFICES ASSUME a + n = S * P, h + 1 <= S
               PROVE  FALSE
    BY <1>3, <1>6
  <2>1. (h + 1) * P <= S * P /\ (h + 1) * P = h * P + P
    BY <1>3, Products
  <2> QED
    BY <1>2, <1>3, <2>1
<1>9. (a + n) % P = 0 /\ a + n < S * P => h < S
    BY <1>3, <1>6, <1>7
<1>10. PICK A \in Nat, C \in Nat : A = a \div U /\ C = h \div u /\ A = (a \div P) \div u
  <2>1. (a \div P) \div u = a \div U /\ a \div U \in Nat
    BY <1>1, DivDiv DEF InUnits
  <2>2. h \div u \in Nat
    BY <1>3
  <2> QED
    BY <2>1, <2>2
<1>11. PICK B \in Nat : B = (a + n) \div U /\ (a + n) % U = (a + n) - B * U /\ B * U <= a + n
    BY <1>1
<1>12. a % U = a - A * U /\ A * U <= a
  <2>1. PICK y \in Nat : y = a \div U /\ a % U = a - y * U /\ y * U <= a
    BY <1>1
  <2> QED
    BY <1>10, <2>1
<1>13. PICK e \in Nat : e = h * P /\ C = e \div U
  <2>1. h * P \in Nat /\ (h * P) \div P = h
    BY <1>3, Quotient
  <2>2. ((h * P) \div P) \div u = (h * P) \div U
    BY <2>1, DivDiv DEF InUnits
  <2> QED
    BY <1>10, <2>1, <2>2
<1>14. a + n <= e
    BY <1>2, <1>3, <1>13
<1>15. B <= C
  <2> SUFFICES ASSUME C + 1 <= B
               PROVE  FALSE
    OBVIOUS
  <2>1. (C + 1) * U <= B * U /\ (C + 1) * U = C * U + U
    BY <1>1, Products
  <2>2. e < C * U + U
    <3>1. U > 0
      BY <1>1
    <3> QED
      BY <1>1, <1>13, <3>1, Quotient
  <2>3. C * U \in Nat /\ B * U \in Nat
    BY <1>1
  <2> QED
    BY <1>1, <1>11, <1>14, <2>1, <2>2, <2>3
<1>16. B * U <= C * U /\ B * U \in Nat /\ C * U \in Nat /\ A * U \in Nat /\ (C - A) * U = C * U - A * U
    BY <1>1, <1>15, Products
<1>17. (C - A) * U - n + ((a + n) % U) - (a % U) = C * U - B * U
    BY <1>11, <1>12, <1>16
<1>18. (a + n) % P = 0 => B = C
    BY <1>7, <1>11, <1>13
<1>19. h \div u - (a \div P) \div u = C - A
    BY <1>10
<1>20. (h \div u - (a \div P) \div u) * U - n + ((a + n) % U) - (a % U) = C * U - B * U
    BY <1>17, <1>19
<1>21. C * U - B * U >= 0 /\ ((a + n) % P = 0 => C * U - B * U = 0)
    BY <1>16, <1>18
<1> QED
    BY <1>1, <1>3, <1>4, <1>5, <1>6, <1>8, <1>9, <1>20, <1>21 DEF Covered

\* The pages E that end a unit of u pages, when m pages follow the first l of a zone.
HasEnds(E, l, m, u) == IsFiniteSet(E) /\ Cardinality(E) = (l + m) \div u - l \div u

\* The number of pages from l to h - 1, counted from f, that end a unit.
LEMMA UnitEnds ==
    ASSUME NEW u \in Nat \ {0}, NEW f \in Nat, NEW l \in Nat, NEW m \in Nat,
           NEW E, E = {p \in f + l .. f + l + m - 1 : (p - f + 1) % u = 0}
    PROVE  HasEnds(E, l, m, u)
<1> DEFINE Ends(k) == {p \in f + l .. f + l + k - 1 : (p - f + 1) % u = 0}
           T == {k \in 0 .. m : IsFiniteSet(Ends(k)) /\ Cardinality(Ends(k)) = (l + k) \div u - l \div u}
<1>1. 0 \in T
  <2>1. Ends(0) = {}
    OBVIOUS
  <2>2. IsFiniteSet({}) /\ Cardinality({}) = 0
    BY FS_EmptySet
  <2>3. (l + 0) \div u - l \div u = 0
    OBVIOUS
  <2>4. 0 \in 0 .. m
    OBVIOUS
  <2> HIDE DEF Ends
  <2> QED
    BY <2>1, <2>2, <2>3, <2>4
<1>2. ASSUME NEW k \in 0 .. m - 1, k \in T
      PROVE  k + 1 \in T
  <2>1. PICK x \in Nat : x = l + k
    OBVIOUS
  <2>2. PICK w \in Nat : w = x \div u /\ w * u <= x /\ x < w * u + u /\ w * u \in Nat
    BY <2>1
  <2>3. CASE x + 1 = w * u + u
    <3>1. x + 1 = (w + 1) * u
      BY <2>3
    <3>3. (x + 1) \div u = w + 1
      <4>1. (w + 1) * u <= x + 1 /\ x + 1 < (w + 1) * u + u
        BY <2>3
      <4> QED
        BY <4>1, Quotient
    <3>2. (x + 1) % u = 0
      <4>1. (x + 1) % u = (x + 1) - u * ((x + 1) \div u)
        OBVIOUS
      <4>2. u * (w + 1) = (w + 1) * u
        OBVIOUS
      <4> QED
        BY <3>1, <3>3, <4>1, <4>2
    <3>4. Ends(k + 1) = Ends(k) \cup {f + x} /\ f + x \notin Ends(k)
      <4>1. f + l + (k + 1) - 1 = f + x /\ (f + x) - f + 1 = x + 1 /\ f + l + k - 1 = f + x - 1 /\ f + l <= f + x
        BY <2>1
      <4> QED
        BY <3>2, <4>1
    <3>5. IsFiniteSet(Ends(k + 1)) /\ Cardinality(Ends(k + 1)) = Cardinality(Ends(k)) + 1
      <4> HIDE DEF Ends
      <4> QED
        BY <1>2, <3>4, FS_AddElement
    <3>6. l + (k + 1) = x + 1 /\ l \div u \in Nat /\ k + 1 \in 0 .. m
      BY <2>1
    <3> HIDE DEF Ends
    <3> QED
      BY <1>2, <2>1, <2>2, <3>3, <3>5, <3>6
  <2>4. CASE x + 1 < w * u + u
    <3>1. (x + 1) \div u = w
      <4>1. w * u <= x + 1
        BY <2>2
      <4> QED
        BY <2>4, <4>1, Quotient
    <3>2. (x + 1) % u # 0
      <4>1. (x + 1) % u = (x + 1) - u * ((x + 1) \div u)
        OBVIOUS
      <4>2. u * w = w * u
        OBVIOUS
      <4> QED
        BY <2>2, <3>1, <4>1, <4>2
    <3>4. Ends(k + 1) = Ends(k)
      <4>1. f + l + (k + 1) - 1 = f + x /\ (f + x) - f + 1 = x + 1 /\ f + l + k - 1 = f + x - 1 /\ f + l <= f + x
        BY <2>1
      <4> QED
        BY <3>2, <4>1
    <3>6. l + (k + 1) = x + 1 /\ l \div u \in Nat /\ k + 1 \in 0 .. m
      BY <2>1
    <3> HIDE DEF Ends
    <3> QED
      BY <1>2, <2>1, <2>2, <3>1, <3>4, <3>6
  <2> QED
    BY <2>2, <2>3, <2>4
<1>3. m \in T
  <2> HIDE DEF T
  <2>1. \A k \in 0 .. m : k \in T
    BY <1>1, <1>2, UpTo
  <2> QED
    BY <2>1
<1> QED
    BY <1>3 DEF HasEnds

\* Block a after f whole pages.
Shifted(f, a, P) ==
    f * P + a \in Nat /\ (f * P + a) \div P = f + a \div P /\ (f * P + a) % P = a % P

\* Blocks that follow whole pages.
LEMMA PageShift ==
    ASSUME NEW f \in Nat, NEW a \in Nat, NEW P \in Nat \ {0}
    PROVE  Shifted(f, a, P)
<1>1. PICK y \in Nat : y = a \div P /\ a % P = a - y * P /\ y * P <= a /\ a < y * P + P
    OBVIOUS
<1>2. (f + y) * P = f * P + y * P /\ f * P \in Nat /\ y * P \in Nat
    OBVIOUS
<1>3. PICK x \in Nat : x = f * P + a
    BY <1>2
<1>4. PICK t \in Nat : t = f + y
    OBVIOUS
<1>5. x \div P = t
  <2>1. t * P <= x /\ x < t * P + P
    BY <1>1, <1>2, <1>3, <1>4
  <2> QED
    BY <2>1, Quotient
<1>6. x % P = x - t * P
  <2>1. PICK v \in Nat : v = x \div P /\ x % P = x - v * P
    OBVIOUS
  <2> QED
    BY <1>5, <2>1
<1> QED
    BY <1>1, <1>2, <1>3, <1>4, <1>5, <1>6 DEF Shifted

\* Zone z in pages.
LEMMA ZonePages ==
    ASSUME cfg \in Configs, NEW z \in Zones
    PROVE  \E S \in Nat, f \in Nat :
             /\ cfg.size = S * cfg.page /\ zone_to_slba(z) = f * cfg.page
             /\ lba_to_lpn(zone_to_slba(z)) = f /\ zone_to_elpn(z) = f + S - 1
<1>1. PICK P \in Nat \ {0}, s \in Nat : P = cfg.page /\ s = cfg.size /\ s % P = 0 /\ s > 1
    BY CfgFacts, ConfigsSound DEF ConfigType
<1>2. PICK S \in Nat : s = S * P
  <2>1. PICK y \in Nat : y = s \div P /\ y * P <= s /\ s % P = s - y * P
    OBVIOUS
  <2> QED
    BY <1>1, <2>1
<1>3. z \in Nat /\ zone_to_slba(z) \in Nat /\ zone_to_slba(z) = z * s /\ zone_to_slba(z + 1) = z * s + s
    BY <1>1, Addr DEF zone_to_slba
<1>4. PICK f \in Nat : f = z * S
    BY <1>3
<1>5. z * s = f * P
  <2>1. z * (S * P) = (z * S) * P
    BY <1>3
  <2> QED
    BY <1>2, <1>4, <2>1
<1>6. lba_to_lpn(zone_to_slba(z)) = f
  <2>1. (f * P + 0) \div P = f + 0 \div P /\ 0 \div P = 0 /\ f * P + 0 = f * P
    BY PageShift DEF Shifted
  <2> QED
    BY <1>1, <1>3, <1>5, <2>1 DEF lba_to_lpn
<1>7. zone_to_elpn(z) = f + S - 1
  <2>1. PICK t \in Nat : t = s - 1
    BY <1>1
  <2>2. S >= 1
    BY <1>1, <1>2
  <2>3. PICK T \in Nat : T = S - 1 /\ T * P + P = S * P /\ T * P \in Nat
    BY <2>2
  <2>4. t \div P = T
  <3>1. T * P <= t /\ t < T * P + P
    BY <1>1, <1>2, <2>1, <2>3
  <3> QED
    BY <3>1, Quotient
  <2>5. (f * P + t) \div P = f + T
    BY <2>4, PageShift DEF Shifted
  <2>6. zone_to_elba(z) = f * P + t
    BY <1>1, <1>3, <1>5, <2>1 DEF zone_to_elba
  <2> QED
    BY <1>1, <2>3, <2>5, <2>6 DEF zone_to_elpn, lba_to_lpn
<1> QED
    BY <1>1, <1>2, <1>3, <1>4, <1>5, <1>6, <1>7

\* Blocks of an incomplete program unit below block e of zone z.
Behind(z, e) == IF e = zone_to_slba(z + 1) THEN 0 ELSE (e - zone_to_slba(z)) % UnitBlocks

\* The releases that a write schedules make up for what it takes and for
\* what the incomplete program units before and after it hold: exactly, when
\* the write ends with a page, and otherwise at least.
LEMMA ReleasedSum ==
    ASSUME cfg \in Configs, NEW z \in Zones, NEW slba \in Nat, NEW n \in Nat, n >= 1,
           zone_to_slba(z) <= slba, NEW end \in Nat, end = slba + n, end <= zone_to_slba(z + 1),
           NEW r, r = Releases(z, slba, n), NEW w, IsSum(w, r),
           NEW before, before = Behind(z, slba), NEW after, after = Behind(z, end)
    PROVE  /\ w[Len(r)] \in Int /\ before \in Int /\ after \in Int
           /\ w[Len(r)] - n + after - before >= 0
           /\ end % cfg.page = 0 => w[Len(r)] - n + after - before = 0
<1>1. PICK P \in Nat \ {0}, u \in Nat \ {0}, s \in Nat :
        P = cfg.page /\ u = cfg.unit /\ s = cfg.size /\ s > 1
    BY CfgFacts
<1>2. PICK S \in Nat, f \in Nat :
        /\ s = S * P /\ zone_to_slba(z) = f * P
        /\ lba_to_lpn(zone_to_slba(z)) = f /\ zone_to_elpn(z) = f + S - 1
    BY <1>1, ZonePages
<1>3. PICK U \in Nat \ {0} : U = P * u /\ UnitBlocks = U
    BY <1>1, DivDiv DEF UnitBlocks, InUnits
<1>4. zone_to_slba(z + 1) = f * P + S * P /\ f * P \in Nat
  <2>1. z \in Nat
    BY Addr
  <2>2. zone_to_slba(z + 1) = zone_to_slba(z) + cfg.size
    BY <2>1, Addr
  <2> QED
    BY <1>1, <1>2, <2>2
<1>5. PICK a \in Nat : slba = f * P + a /\ a + n <= S * P
    BY <1>2, <1>4
<1>6. PICK h : h = (a + n - 1) \div P + 1
    OBVIOUS
<1>7. PICK X \in Int, L \in Nat :
        /\ L = a \div P /\ X = h \div u - L \div u /\ h \in Nat /\ L < h /\ h <= S
        /\ a + n = S * P => h = S
        /\ (a + n) % P = 0 /\ a + n < S * P => h < S
        /\ X * U - n + ((a + n) % U) - (a % U) >= 0
        /\ (a + n) % P = 0 => X * U - n + ((a + n) % U) - (a % U) = 0
  <2>1. PICK L \in Nat : L = a \div P
    OBVIOUS
  <2>2. /\ h \in Nat /\ a \div P < h /\ h <= S
        /\ a + n = S * P => h = S
        /\ (a + n) % P = 0 /\ a + n < S * P => h < S
        /\ (h \div u - (a \div P) \div u) * U - n + ((a + n) % U) - (a % U) >= 0
        /\ (a + n) % P = 0 => (h \div u - (a \div P) \div u) * U - n + ((a + n) % U) - (a % U) = 0
    <3>1. a + n <= S * P /\ U = P * u /\ h = (a + n - 1) \div P + 1
      BY <1>3, <1>5, <1>6
    <3>2. Covered(P, u, S, a, n, U, h)
      BY <3>1, UnitsCovered
    <3> QED
      BY <3>2 DEF Covered
  <2>3. PICK X : X = h \div u - L \div u
    OBVIOUS
  <2>4. X \in Int
    BY <2>2, <2>3
  <2>5. (h \div u - (a \div P) \div u) = X
    BY <2>1, <2>3
  <2> QED
    BY <2>1, <2>2, <2>3, <2>4, <2>5, Zenon
<1>8. lba_to_lpn(slba) = f + L /\ lba_to_lpn(slba + n - 1) = f + h - 1
  <2>1. PICK t \in Nat : t = a + n - 1
    OBVIOUS
  <2>4. (f * P + a) \div P = f + a \div P /\ (f * P + t) \div P = f + t \div P
    <3>1. Shifted(f, a, P) /\ Shifted(f, t, P)
      BY PageShift
    <3> QED
      BY <3>1 DEF Shifted
  <2>2. (f * P + a) \div P = f + L /\ (f * P + t) \div P = f + t \div P
    BY <1>7, <2>4
  <2>3. slba + n - 1 = f * P + t /\ h = t \div P + 1 /\ t \div P \in Nat
    BY <1>4, <1>5, <1>6, <2>1
  <2> QED
    BY <1>1, <1>5, <2>2, <2>3 DEF lba_to_lpn
<1>9. PICK m \in Nat : m = h - L /\ h = L + m
  <2>1. h \in Nat /\ L < h
    BY <1>7
  <2>2. h - L \in Nat /\ h = L + (h - L)
    BY <2>1
  <2> QED
    BY <2>2
<1>10. PICK E : E = {p \in f + L .. f + L + m - 1 : (p - f + 1) % u = 0}
    OBVIOUS
<1>11. IsFiniteSet(E) /\ Cardinality(E) = X
  <2>1. IsFiniteSet(E) /\ Cardinality(E) = (L + m) \div u - L \div u
    <3>1. HasEnds(E, L, m, u)
      BY <1>10, UnitEnds
    <3> QED
      BY <3>1 DEF HasEnds
  <2> QED
    BY <1>7, <1>9, <2>1
<1>12. X \in Nat
    BY <1>11, FS_CardinalityType
<1>13. PICK ends : ends = {p \in f + L .. f + h - 1 : (p - f + 1) % u = 0 \/ p = f + S - 1}
    OBVIOUS
<1>14. ends = IF h = S THEN E \cup {f + S - 1} ELSE E
  <2>1. f + L + m - 1 = f + h - 1
    BY <1>9
  <2>2. CASE h = S
    <3>1. f + S - 1 \in f + L .. f + h - 1
      BY <1>7, <2>2
    <3> QED
      BY <1>10, <1>13, <2>1, <2>2, <3>1
  <2>3. CASE h # S
    <3>1. f + S - 1 \notin f + L .. f + h - 1
      BY <1>7, <2>3
    <3> QED
      BY <1>10, <1>13, <2>1, <2>3, <3>1
  <2> QED
    BY <2>2, <2>3
<1>15. f + S - 1 \in ends <=> h = S
  <2>1. h # S => f + S - 1 \notin f + L .. f + h - 1
    BY <1>7
  <2> QED
    BY <1>13, <1>14, <2>1
<1>16. PICK tail \in Nat : tail = s % U
    OBVIOUS
<1>17. h = S => (f + S - 1 \in E <=> tail = 0)
  <2> SUFFICES ASSUME h = S
               PROVE  f + S - 1 \in E <=> tail = 0
    OBVIOUS
  <2>1. f + S - 1 \in f + L .. f + L + m - 1 /\ f + S - 1 - f + 1 = S
    BY <1>7, <1>9
  <2>2. S % u = 0 <=> tail = 0
    <3>1. PICK y \in Nat : y = S \div u /\ S % u = S - y * u /\ y * u \in Nat
      OBVIOUS
    <3>2. s \div U = y
      <4>1. (s \div P) \div u = s \div U
        <5>1. InUnits(s, P, u)
          BY DivDiv
        <5> QED
          BY <1>3, <5>1 DEF InUnits
      <4>2. s \div P = S
        <5>1. S * P <= s /\ s < S * P + P
          BY <1>1, <1>2
        <5> QED
          BY <5>1, Quotient
      <4> QED
        BY <3>1, <4>1, <4>2
    <3>3. PICK v \in Nat : v = s \div U /\ s % U = s - v * U
      OBVIOUS
    <3>4. y * U = (y * u) * P
      BY <1>3
    <3>5. tail = S * P - (y * u) * P /\ S * P - (y * u) * P = (S - y * u) * P
      BY <1>2, <1>16, <3>1, <3>2, <3>3, <3>4
    <3>6. PICK g \in Nat : g = S - y * u /\ tail = g * P
      BY <3>1, <3>5
    <3>7. g * P = 0 => g = 0
      BY Products
    <3>8. g = 0 => g * P = 0
      OBVIOUS
    <3> QED
      BY <3>1, <3>6, <3>7, <3>8
  <2> QED
    BY <1>10, <2>1, <2>2
<1>18. PICK k \in Nat : /\ k = Cardinality(ends)
                        /\ h = S /\ tail > 0 => k = X + 1
                        /\ ~ (h = S /\ tail > 0) => k = X
  <2>1. CASE h = S /\ tail > 0
    <3>1. f + S - 1 \notin E /\ ends = E \cup {f + S - 1}
      BY <1>14, <1>17, <2>1
    <3>2. Cardinality(ends) = Cardinality(E) + 1
      BY <1>11, <3>1, FS_AddElement
    <3> QED
      BY <1>11, <1>12, <2>1, <3>2
  <2>2. CASE ~ (h = S /\ tail > 0)
    <3>1. ends = E
      BY <1>14, <1>16, <1>17, <2>2
    <3> QED
      BY <1>11, <1>12, <2>2, <3>1
  <2> QED
    BY <2>1, <2>2
<1>19. r = [i \in 1 .. k |-> IF i = k /\ f + S - 1 \in ends /\ tail > 0 THEN tail ELSE U]
  <2>1. ends = {p \in lba_to_lpn(slba) .. lba_to_lpn(slba + n - 1) :
                    (p - lba_to_lpn(zone_to_slba(z)) + 1) % cfg.unit = 0 \/ p = zone_to_elpn(z)}
    BY <1>1, <1>2, <1>8, <1>13
  <2> QED
    BY <1>1, <1>2, <1>3, <1>16, <1>18, <2>1 DEF Releases
<1>20. Len(r) = k /\ r \in Seq(Int)
    BY <1>19
<1>21. w \in [0 .. k -> Int] /\ w[0] = 0 /\ \A i \in 1 .. k : w[i] = w[i - 1] + r[i]
    BY <1>20 DEF IsSum
<1>22. w[k] = IF h = S /\ tail > 0 THEN X * U + tail ELSE X * U
  <2>1. CASE h = S /\ tail > 0
    <3>1. \A i \in 1 .. X : r[i] = U
      BY <1>12, <1>18, <1>19, <2>1
    <3>2. w[X] = X * U
      BY <1>12, <1>18, <1>20, <2>1, <3>1, SumEqual
    <3>3. k \in 1 .. k /\ k - 1 = X /\ r[k] = tail
      BY <1>12, <1>15, <1>18, <1>19, <2>1
    <3> QED
      BY <1>21, <2>1, <3>2, <3>3
  <2>2. CASE ~ (h = S /\ tail > 0)
    <3>1. \A i \in 1 .. X : r[i] = U
      BY <1>15, <1>18, <1>19, <2>2
    <3>2. w[X] = X * U
      BY <1>12, <1>18, <1>20, <2>2, <3>1, SumEqual
    <3> QED
      BY <1>18, <2>2, <3>2
  <2> QED
    BY <2>1, <2>2
<1>23. before = a % U /\ before \in Int /\ (a + n) % U \in Int
       /\ after = IF a + n = S * P THEN 0 ELSE (a + n) % U
  <2>1. slba - zone_to_slba(z) = a /\ end - zone_to_slba(z) = a + n
        /\ (end = zone_to_slba(z + 1) <=> a + n = S * P) /\ slba # zone_to_slba(z + 1)
    BY <1>2, <1>4, <1>5
  <2> QED
    BY <1>3, <2>1 DEF Behind
<1>24. end % cfg.page = 0 <=> (a + n) % P = 0
  <2>1. PICK t \in Nat : t = a + n
    OBVIOUS
  <2>2. (f * P + t) % P = t % P
    <3>1. Shifted(f, t, P)
      BY PageShift
    <3> QED
      BY <3>1 DEF Shifted
  <2>3. end = f * P + t
    BY <1>4, <1>5, <2>1
  <2> QED
    BY <1>1, <2>1, <2>2, <2>3
<1>25. X * U \in Int
    BY <1>3
<1>26. CASE a + n = S * P
  <2>1. (a + n) % P = 0
    <3>1. PICK o \in Nat : o = 0
      OBVIOUS
    <3>2. (S * P + o) % P = o % P
      <4>1. Shifted(S, o, P)
        BY PageShift
      <4> QED
        BY <4>1 DEF Shifted
    <3>3. o % P = 0 /\ S * P + o = S * P
      BY <3>1
    <3> QED
      BY <1>26, <3>2, <3>3
  <2>2. (a + n) % U = tail
    BY <1>2, <1>16, <1>26
  <2>3. X * U - n + tail - before = 0
    BY <1>7, <1>23, <2>1, <2>2
  <2>4. h = S /\ after = 0 /\ w[k] = X * U + tail
    BY <1>7, <1>16, <1>22, <1>23, <1>25, <1>26
  <2> QED
    BY <1>20, <1>23, <1>25, <2>3, <2>4
<1>27. CASE a + n < S * P
  <2>1. after = (a + n) % U
    BY <1>23, <1>27
  <2>2. X * U - n + after - before >= 0 /\ ((a + n) % P = 0 => X * U - n + after - before = 0)
    BY <1>7, <1>23, <2>1
  <2>3. (a + n) % P = 0 => w[k] = X * U
    BY <1>7, <1>22, <1>27
  <2>4. w[k] >= X * U /\ w[k] \in Int
    BY <1>22, <1>25
  <2>5. w[k] - n + after - before >= 0
    BY <1>23, <1>25, <2>1, <2>2, <2>4
  <2>6. end % cfg.page = 0 => w[k] - n + after - before = 0
    BY <1>24, <2>2, <2>3
  <2> QED
    BY <1>20, <1>23, <2>1, <2>4, <2>5, <2>6
<1> QED
    BY <1>5, <1>26, <1>27

-----------------------------------------------------------------------------
(* The account itself. *)

\* Blocks that the zones of write buffer b hold, zone by zone.
HeldBy(d, b) == [z \in Zones |-> IF BufOf(z) = b THEN Held(d, z) ELSE 0]

\* Some zone of each set of zones.
AnyZone == [s \in SUBSET Zones |-> CHOOSE x \in s : TRUE]

\* All zones of write buffer b together hold t blocks.
TotalHeld(d, b, t) == \E g : IsFold(g, Zones, HeldBy(d, b), AnyZone) /\ t = g[Zones]

\* What the buffer amounts to, when x blocks are accounted for.
Balanced(x, split) == x \in Int /\ x >= cfg.wb /\ (~ split => x = cfg.wb)

\* What buffer b of device d has, apart from its zones, when x blocks are scheduled.
Own(d, b, x) == d.wb[b] + x + d.leaked[b]

\* The account of the write buffers of device d, with the releases p scheduled.
Ledger(d, p) ==
    \A b \in {BufOf(z) : z \in Zones} : \A t, s :
        TotalHeld(d, b, t) /\ IsSum(s, p[b]) => Balanced(Own(d, b, s[Len(p[b])]) + t, d.split)

\* Zones are finitely many, and each set of zones has a first one.
LEMMA ZonesPick == IsFiniteSet(Zones) /\ Picks(AnyZone, Zones)
<1>1. IsFiniteSet(Zones)
    BY ConfigsSound, FS_Interval DEF Zones
<1>2. ASSUME NEW s \in SUBSET Zones, s # {}
      PROVE  AnyZone[s] \in s
  <2>1. AnyZone[s] = CHOOSE x \in s : TRUE
    BY DEF AnyZone
  <2>2. (CHOOSE x \in s : TRUE) \in s
    BY <1>2
  <2> QED
    BY <2>1, <2>2
<1> QED
    BY <1>1, <1>2 DEF Picks

\* A zone holds a number of blocks.
LEMMA HeldInt ==
    ASSUME cfg \in Configs, NEW d \in Devs, NEW z \in Zones
    PROVE  Held(d, z) \in Int
<1>1. UnitBlocks \in Nat /\ UnitBlocks > 0
    BY UnitFacts
<1>2. d.zone[z].wp - zone_to_slba(z) \in Int
    BY Addr DEF Devs, ZoneDescs
<1>3. (d.zone[z].wp - zone_to_slba(z)) % UnitBlocks \in Int
    BY <1>1, <1>2
<1> QED
    BY <1>3 DEF Held

\* What a buffer has is a number.
LEMMA OwnInt ==
    ASSUME NEW d \in Devs, NEW b \in Zones, NEW x \in Int
    PROVE  Own(d, b, x) \in Int
<1>1. d.wb[b] \in Int /\ d.leaked[b] \in Int
    BY DEF Devs
<1> QED
    BY <1>1 DEF Own

\* So do all zones.
LEMMA HeldByInt ==
    ASSUME cfg \in Configs, NEW d \in Devs, NEW b
    PROVE  HeldBy(d, b) \in [Zones -> Int]
BY HeldInt DEF HeldBy

\* There is such a total, and the sum that the property speaks of is one.
LEMMA HeldTotal ==
    ASSUME cfg \in Configs, dev \in Devs, NEW b
    PROVE  TotalHeld(dev, b, HeldIn(b))
<1>1. PICK f : f = HeldBy(dev, b) /\ f \in [Zones -> Int]
    BY HeldByInt
<1>2. PICK h \in [SUBSET Zones -> Int] : IsFold(h, Zones, f, AnyZone)
    BY <1>1, ZonesPick, FoldExists
<1> DEFINE x(s) == CHOOSE y \in s : TRUE
           v(y) == IF BufOf(y) = b THEN Held(dev, y) ELSE 0
           It(g) == g = [s \in SUBSET Zones |-> IF s = {} THEN 0 ELSE v(x(s)) + g[s \ {x(s)}]]
<1>3. HeldIn(b) = (CHOOSE g : It(g))[Zones]
    BY DEF HeldIn, MapThenSumSet, MapThenFoldSet
<1>4. ASSUME NEW s \in SUBSET Zones, s # {}
      PROVE  AnyZone[s] = x(s) /\ f[AnyZone[s]] = v(x(s))
  <2>1. AnyZone[s] = x(s)
    BY DEF AnyZone
  <2>2. x(s) \in Zones
    BY <1>4, <2>1, ZonesPick DEF Picks
  <2> HIDE DEF x
  <2> QED
    BY <1>1, <2>1, <2>2 DEF HeldBy
<1> HIDE DEF x, v
<1>5. It(h)
    BY <1>2, <1>4 DEF IsFold
<1>6. It(CHOOSE g : It(g))
  <2> HIDE DEF It
  <2> QED
    BY <1>5
<1>7. PICK g : g = (CHOOSE u : It(u)) /\ It(g)
    BY <1>6
<1>8. IsFold(g, Zones, f, AnyZone)
  <2>1. \A s \in SUBSET Zones : g[s] = IF s = {} THEN 0 ELSE v(x(s)) + g[s \ {x(s)}]
    BY <1>7
  <2>2. ASSUME NEW s \in SUBSET Zones
        PROVE  g[s] = IF s = {} THEN 0 ELSE f[AnyZone[s]] + g[s \ {AnyZone[s]}]
    <3>1. CASE s = {}
      BY <2>1, <3>1
    <3>2. CASE s # {}
      <4>1. g[s] = v(x(s)) + g[s \ {x(s)}]
        BY <2>1, <3>2
      <4>2. AnyZone[s] = x(s) /\ f[AnyZone[s]] = v(x(s))
        BY <1>4, <3>2
      <4> QED
        BY <3>2, <4>1, <4>2
    <3> QED
      BY <3>1, <3>2
  <2> QED
    BY <2>2 DEF IsFold
<1> HIDE DEF It
<1> QED
    BY <1>1, <1>3, <1>7, <1>8 DEF TotalHeld

\* What the zones hold together is a number.
LEMMA TotalInt ==
    ASSUME cfg \in Configs, NEW d \in Devs, NEW b, NEW t, TotalHeld(d, b, t)
    PROVE  t \in Int
<1>1. PICK f : f = HeldBy(d, b) /\ f \in [Zones -> Int]
    BY HeldByInt
<1>2. PICK g : IsFold(g, Zones, f, AnyZone) /\ t = g[Zones]
    BY <1>1 DEF TotalHeld
<1>3. 0 \in Zones
    BY CfgFacts DEF Zones
<1>4. Differ(g, g, Zones, f, f, 0)
    BY <1>1, <1>2, <1>3, ZonesPick, FoldOne
<1> QED
    BY <1>2, <1>4 DEF Differ

\* The account of the device is the property.
LEMMA LedgerBalances ==
    ASSUME IInv, Ledger(dev, pend)
    PROVE  BufferLedger
<1>1. /\ cfg \in Configs /\ dev \in Devs /\ pend \in [Zones -> Seq(Nat)] /\ cfg.wb \in Nat
    BY CfgFacts DEF IInv, DevInv
<1>2. ASSUME NEW b \in {BufOf(z) : z \in Zones}
      PROVE  LET total == dev.wb[b] + FoldLeft(+, 0, pend[b]) + HeldIn(b) + dev.leaked[b]
             IN  total >= cfg.wb /\ (~dev.split => total = cfg.wb)
  <2>1. PICK q \in Seq(Nat) : q = pend[b]
    BY <1>1, BufIn
  <2>2. PICK s : IsSum(s, q)
  <3>1. q \in Seq(Int)
    BY <2>1
  <3> QED
    BY <3>1, SumExists
  <2>3. PICK total : total = Own(dev, b, s[Len(q)]) + HeldIn(b)
    OBVIOUS
  <2>4. Balanced(total, dev.split)
  <3>1. TotalHeld(dev, b, HeldIn(b))
    BY <1>1, HeldTotal
  <3> QED
    BY <2>1, <2>2, <2>3, <3>1 DEF Ledger
  <2>5. PICK back : back = FoldLeft(+, 0, pend[b]) /\ back = s[Len(q)]
    BY <2>1, <2>2, FoldSum
  <2>6. dev.wb[b] + back + HeldIn(b) + dev.leaked[b] = total
    <3>1. dev.wb[b] \in Int /\ dev.leaked[b] \in Int
      BY <1>1, BufIn DEF Devs
    <3>2. s[Len(q)] \in Int
      BY <2>1, <2>2 DEF IsSum
    <3>3. HeldIn(b) \in Int
      BY <1>1, HeldTotal, TotalInt
    <3>4. PICK x \in Int, y \in Int, v \in Int, w \in Int :
            /\ x = dev.wb[b] /\ y = s[Len(q)] /\ v = HeldIn(b) /\ w = dev.leaked[b]
            /\ y = back
      BY <2>5, <3>1, <3>2, <3>3
    <3>5. total = x + y + w + v
      BY <2>3, <3>4 DEF Own
    <3>6. dev.wb[b] + back + HeldIn(b) + dev.leaked[b] = x + y + v + w
      BY <3>4
    <3> QED
      BY <3>5, <3>6
  <2> QED
    BY <2>4, <2>5, <2>6 DEF Balanced
<1> QED
    BY <1>2 DEF BufferLedger

\* A buffer that had A has B, and what its zones hold went from x to y: it is
\* accounted for, exactly so when no page was ever split.
Offset(A, B, x, y, split) ==
    /\ A \in Int /\ B \in Int /\ x \in Int /\ y \in Int
    /\ (B - A) + (y - x) >= 0 /\ (~ split => (B - A) + (y - x) = 0)

\* What buffer c has more in e than in d, releases q and p included, makes up for
\* what zone z holds less.
MadeUp(d, e, p, q, z, c) ==
    \A s, r : IsSum(s, p[c]) /\ IsSum(r, q[c]) =>
        Offset(Own(d, c, s[Len(p[c])]), Own(e, c, r[Len(q[c])]), Held(d, z), Held(e, z), e.split)

\* Nothing else changes.
OnlyThere(d, e, p, q, z, c) ==
    /\ \A y \in Zones : Held(e, y) # Held(d, y) => y = z /\ BufOf(z) = c
    /\ \A b \in Zones : b # c => e.wb[b] = d.wb[b] /\ e.leaked[b] = d.leaked[b] /\ q[b] = p[b]
    /\ d.split => e.split

\* An account stays balanced when what it gains makes up for what it loses.
LEMMA Totals ==
    ASSUME cfg.wb \in Nat, NEW sd \in BOOLEAN, NEW se \in BOOLEAN, sd => se,
           NEW A \in Int, NEW B \in Int, NEW g \in Int, NEW m \in Int,
           Balanced(A + g, sd), (B - A) + m >= 0, ~ se => (B - A) + m = 0
    PROVE  Balanced(B + (g + m), se)
<1>1. PICK v \in Int : v = A + g /\ v >= cfg.wb /\ (~ sd => v = cfg.wb)
    BY DEF Balanced
<1>2. PICK u \in Int : u = B + (g + m) /\ u = v + ((B - A) + m)
    BY <1>1
<1>3. u >= cfg.wb
    BY <1>1, <1>2
<1>4. ASSUME ~ se PROVE u = cfg.wb
    <2>1. v = cfg.wb /\ (B - A) + m = 0
      BY <1>1, <1>4
    <2> QED
      BY <1>2, <2>1
<1> QED
    BY <1>2, <1>3, <1>4 DEF Balanced

\* The zones of buffer b held m blocks less than t in d.
Grows(d, b, t, m) == \E g \in Int : TotalHeld(d, b, g) /\ t = g + m

\* The zone z is the only one whose blocks change: the total does as they do.
LEMMA TotalOne ==
    ASSUME cfg \in Configs, NEW d \in Devs, NEW e \in Devs, NEW z \in Zones, NEW b \in Zones,
           \A y \in Zones : y # z /\ BufOf(y) = b => Held(e, y) = Held(d, y),
           NEW t, TotalHeld(e, b, t), NEW x \in Int, NEW y \in Int,
           BufOf(z) = b => x = Held(d, z) /\ y = Held(e, z),
           BufOf(z) # b => x = y
    PROVE  Grows(d, b, t, y - x)
<1>1. PICK f, h : f = HeldBy(d, b) /\ h = HeldBy(e, b) /\ f \in [Zones -> Int] /\ h \in [Zones -> Int]
    BY HeldByInt
<1>2. PICK g : IsFold(g, Zones, f, AnyZone)
    BY <1>1, ZonesPick, FoldExists
<1>3. PICK k : IsFold(k, Zones, h, AnyZone) /\ t = k[Zones]
    BY <1>1 DEF TotalHeld
<1>4. \A v \in Zones : v # z => h[v] = f[v]
    BY <1>1 DEF HeldBy
<1>5. Differ(g, k, Zones, f, h, z)
    BY <1>1, <1>2, <1>3, <1>4, ZonesPick, FoldOne
<1>6. g[Zones] \in Int /\ t = g[Zones] + h[z] - f[z]
    BY <1>3, <1>5 DEF Differ
<1>7. h[z] - f[z] = y - x
  <2>1. h[z] = IF BufOf(z) = b THEN Held(e, z) ELSE 0
    BY <1>1 DEF HeldBy
  <2>2. f[z] = IF BufOf(z) = b THEN Held(d, z) ELSE 0
    BY <1>1 DEF HeldBy
  <2>3. CASE BufOf(z) = b
    BY <2>1, <2>2, <2>3
  <2>4. CASE BufOf(z) # b
    <3>1. h[z] = 0 /\ f[z] = 0 /\ x = y
      BY <2>1, <2>2, <2>4
    <3> QED
      BY <3>1
  <2> QED
    BY <2>3, <2>4
<1>8. TotalHeld(d, b, g[Zones])
    BY <1>1, <1>2 DEF TotalHeld
<1>9. t = g[Zones] + (y - x)
  <2>1. h[z] \in Int /\ f[z] \in Int
    BY <1>1
  <2> QED
    BY <1>6, <1>7, <2>1
<1> QED
    BY <1>6, <1>8, <1>9 DEF Grows

\* One zone z and one buffer c change: the account balances when what the
\* buffer has more makes up for what the zone holds less.
LEMMA LedgerOne ==
    ASSUME cfg \in Configs, NEW d \in Devs, NEW e \in Devs, NEW p \in [Zones -> Seq(Nat)],
           NEW q \in [Zones -> Seq(Nat)], Ledger(d, p), NEW z \in Zones, NEW c \in Zones,
           OnlyThere(d, e, p, q, z, c), MadeUp(d, e, p, q, z, c)
    PROVE  Ledger(e, q)
<1>0. /\ \A y \in Zones : Held(e, y) # Held(d, y) => y = z /\ BufOf(z) = c
      /\ \A b \in Zones : b # c => e.wb[b] = d.wb[b] /\ e.leaked[b] = d.leaked[b] /\ q[b] = p[b]
      /\ d.split => e.split
    BY DEF OnlyThere
<1> SUFFICES ASSUME NEW b \in {BufOf(y) : y \in Zones}, NEW t, NEW r, TotalHeld(e, b, t), IsSum(r, q[b])
             PROVE  Balanced(Own(e, b, r[Len(q[b])]) + t, e.split)
    BY DEF Ledger
<1>1. b \in Zones /\ cfg.wb \in Nat /\ d.split \in BOOLEAN /\ e.split \in BOOLEAN
    BY BufIn, CfgFacts DEF Devs
<1>2. PICK s : IsSum(s, p[b])
  <2>1. p[b] \in Seq(Int)
    BY <1>1
  <2> QED
    BY <2>1, SumExists
<1>3. s[Len(p[b])] \in Int /\ r[Len(q[b])] \in Int
  <2>1. p[b] \in Seq(Nat) /\ q[b] \in Seq(Nat)
    BY <1>1
  <2>2. Len(p[b]) \in 0 .. Len(p[b]) /\ Len(q[b]) \in 0 .. Len(q[b])
    BY <2>1
  <2> QED
    BY <1>2, <2>2 DEF IsSum
<1>4. PICK A \in Int, B \in Int : A = Own(d, b, s[Len(p[b])]) /\ B = Own(e, b, r[Len(q[b])])
    BY <1>1, <1>3, OwnInt
<1>5. PICK x \in Int, y \in Int :
        /\ BufOf(z) = b \/ b = c => x = Held(d, z) /\ y = Held(e, z)
        /\ BufOf(z) # b \/ b # c => x = y
        /\ b # c => B = A
        /\ b = c => (B - A) + (y - x) >= 0
        /\ b = c /\ ~ e.split => (B - A) + (y - x) = 0
  <2>1. CASE b # c
    <3>1. PICK x \in Int, y \in Int : x = Held(d, z) /\ y = Held(e, z)
      BY HeldInt
    <3>2. BufOf(z) = b => x = y
      BY <1>0, <2>1, <3>1
    <3>3. B = A
      <4>1. r[Len(q[b])] = s[Len(p[b])]
        <5>1. PICK w \in Seq(Int) : w = p[b] /\ w = q[b]
          BY <1>0, <1>1, <2>1
        <5>2. r[Len(w)] = s[Len(w)]
          BY <1>2, <5>1, SameSum
        <5> QED
          BY <5>1, <5>2
      <4> QED
        BY <1>0, <1>1, <1>4, <2>1, <4>1 DEF Own
    <3>4. CASE BufOf(z) = b
      BY <2>1, <3>1, <3>2, <3>3, <3>4
    <3>5. CASE BufOf(z) # b
      BY <2>1, <3>3, <3>5
    <3> QED
      BY <3>4, <3>5
  <2>2. CASE b = c
    <3>1. PICK x \in Int, y \in Int :
            /\ x = Held(d, z) /\ y = Held(e, z)
            /\ (B - A) + (y - x) >= 0
            /\ ~ e.split => (B - A) + (y - x) = 0
      <4>1. Offset(A, B, Held(d, z), Held(e, z), e.split)
        BY <1>2, <1>4, <2>2 DEF MadeUp
      <4> QED
        BY <4>1 DEF Offset
    <3>2. BufOf(z) # b => x = y
      BY <1>0, <2>2, <3>1
    <3> QED
      BY <2>2, <3>1, <3>2
  <2> QED
    BY <2>1, <2>2
<1>6. \A v \in Zones : v # z /\ BufOf(v) = b => Held(e, v) = Held(d, v)
    BY <1>0
<1>7. PICK g \in Int : TotalHeld(d, b, g) /\ t = g + (y - x)
  <2>1. BufOf(z) = b => x = Held(d, z) /\ y = Held(e, z)
    BY <1>5
  <2>2. BufOf(z) # b => x = y
    BY <1>5
  <2>3. Grows(d, b, t, y - x)
    BY <1>1, <1>6, <2>1, <2>2, TotalOne
  <2> QED
    BY <2>3 DEF Grows
<1>8. Balanced(A + g, d.split)
    BY <1>2, <1>4, <1>7 DEF Ledger
<1>9. PICK m \in Int : m = y - x
    OBVIOUS
<1>10. (B - A) + m >= 0 /\ (~ e.split => (B - A) + m = 0)
  <2>1. CASE b = c
    BY <1>5, <1>9, <2>1
  <2>2. CASE b # c
    <3>1. B = A /\ m = 0
      BY <1>5, <1>9, <2>2
    <3> QED
      BY <3>1
  <2> QED
    BY <2>1, <2>2
<1>11. Balanced(B + (g + m), e.split)
    BY <1>0, <1>1, <1>8, <1>10, Totals
<1> QED
    BY <1>4, <1>7, <1>9, <1>11

-----------------------------------------------------------------------------
(* Devices: what the operations leave of the buffers. *)

\* d is a record with the fields of a device.
Fielded(d) ==
    /\ d = [x \in DOMAIN d |-> d[x]]
    /\ {"wb", "leaked", "split", "zone", "res", "zwb", "written", "zleaked"} \subseteq DOMAIN d

\* e has what d has in its write buffers.
Keeps(d, e) == Fielded(e) /\ e.wb = d.wb /\ e.leaked = d.leaked /\ e.split = d.split

\* Devices are such records.
LEMMA DevFielded ==
    ASSUME NEW d \in Devs
    PROVE  Fielded(d)
BY DEF Fielded, Devs

\* Counting resources leaves zones and write buffers alone.
LEMMA ResourceKeeps ==
    ASSUME NEW d, Fielded(d), NEW type
    PROVE  /\ Keeps(d, release_zone_resource(d, type)) /\ release_zone_resource(d, type).zone = d.zone
           /\ Keeps(d, acquire_zone_resource(d, type)) /\ acquire_zone_resource(d, type).zone = d.zone
<1>1. PICK e : e = release_zone_resource(d, type)
    OBVIOUS
<1>2. Keeps(d, e) /\ e.zone = d.zone
    BY <1>1 DEF Fielded, Keeps, release_zone_resource
<1>3. PICK f : f = acquire_zone_resource(d, type)
    OBVIOUS
<1>4. Keeps(d, f) /\ f.zone = d.zone
    BY <1>3 DEF Fielded, Keeps, acquire_zone_resource
<1> QED
    BY <1>1, <1>2, <1>3, <1>4

\* So does a new state, but for the state.
LEMMA StateKeeps ==
    ASSUME NEW d, Fielded(d), NEW z, NEW s, NEW e, e = change_zone_state(d, z, s)
    PROVE  Keeps(d, e) /\ e.zone = [d.zone EXCEPT ![z].state = s]
BY DEF Fielded, Keeps, change_zone_state

\* So does giving back the resources of a zone.
LEMMA ReleaseAllKeeps ==
    ASSUME NEW d, Fielded(d), NEW z, NEW e, e = ReleaseAll(d, z)
    PROVE  Keeps(d, e) /\ e.zone = d.zone
<1>1. PICK o : o = IF d.zone[z].state \in Opened THEN release_zone_resource(d, "OPEN") ELSE d
    OBVIOUS
<1>2. Keeps(d, o) /\ o.zone = d.zone
    BY <1>1, ResourceKeeps DEF Keeps
<1>3. PICK a : a = IF d.zone[z].state \in Active THEN release_zone_resource(o, "ACTIVE") ELSE o
    OBVIOUS
<1>4. Keeps(d, a) /\ a.zone = d.zone
    BY <1>2, <1>3, ResourceKeeps DEF Keeps
<1>5. e = IF d.zone[z].state \in Active /\ d.zone[z].zrwav = 1 THEN release_zone_resource(a, "ZRWA") ELSE a
    BY <1>1, <1>3 DEF ReleaseAll
<1> QED
    BY <1>4, <1>5, ResourceKeeps DEF Keeps

\* What a zone drops its buffer has lost.
LEMMA DropKeeps ==
    ASSUME NEW d, Fielded(d), NEW z, NEW e, e = Drop(d, z)
    PROVE  /\ Fielded(e) /\ e.wb = d.wb /\ e.split = d.split /\ e.zone = d.zone
           /\ e.leaked = [d.leaked EXCEPT ![BufOf(z)] = @ + Held(d, z)]
BY DEF Fielded, Drop

-----------------------------------------------------------------------------
(* Management commands keep the account. *)

\* In e zone z has descriptor y, and what it holds less its buffer has lost.
Settled(d, e, z) ==
    /\ e.wb = d.wb /\ e.split = d.split
    /\ \A v \in Zones : v # z => e.zone[v] = d.zone[v]
    /\ \A b \in Zones : b # BufOf(z) => e.leaked[b] = d.leaked[b]
    /\ e.leaked[BufOf(z)] + Held(e, z) = d.leaked[BufOf(z)] + Held(d, z)

\* A buffer that has l blocks in k's place.
Replaced(A, B, k, l) == A \in Int /\ B \in Int /\ B - A = l - k

\* A buffer that loses blocks for good has them in its account.
LEMMA OwnLost ==
    ASSUME NEW d \in Devs, NEW e \in Devs, NEW c \in Zones, e.wb[c] = d.wb[c], NEW s \in Int
    PROVE  Replaced(Own(d, c, s), Own(e, c, s), d.leaked[c], e.leaked[c])
<1>1. PICK w \in Int, k \in Int, l \in Int : w = d.wb[c] /\ w = e.wb[c] /\ k = d.leaked[c] /\ l = e.leaked[c]
    BY DEF Devs
<1>2. Own(d, c, s) = w + s + k /\ Own(e, c, s) = w + s + l
    BY <1>1 DEF Own
<1> QED
    BY <1>1, <1>2 DEF Replaced

\* Blocks lost in place of blocks held.
LEMMA ReplacedOffset ==
    ASSUME NEW A, NEW B, NEW k \in Int, NEW l \in Int, NEW x \in Int, NEW y \in Int,
           Replaced(A, B, k, l), l + y = k + x, NEW split
    PROVE  Offset(A, B, x, y, split)
BY DEF Replaced, Offset

\* A zone that is settled keeps the account.
LEMMA SettledLedger ==
    ASSUME cfg \in Configs, NEW d \in Devs, NEW e \in Devs, NEW p \in [Zones -> Seq(Nat)],
           Ledger(d, p), NEW z \in Zones, Settled(d, e, z)
    PROVE  Ledger(e, p)
<1>1. PICK c \in Zones : c = BufOf(z)
    BY BufIn
<1>2. ASSUME NEW s, NEW r, IsSum(s, p[c]), IsSum(r, p[c])
      PROVE  Offset(Own(d, c, s[Len(p[c])]), Own(e, c, r[Len(p[c])]), Held(d, z), Held(e, z), e.split)
  <2>1. PICK w \in Seq(Nat) : w = p[c]
    OBVIOUS
  <2>2. s[Len(w)] \in Int /\ r[Len(w)] = s[Len(w)]
    <3>1. w \in Seq(Int) /\ Len(w) \in 0 .. Len(w)
      OBVIOUS
    <3> QED
      BY <1>2, <2>1, <3>1, SameSum DEF IsSum
  <2>3. e.wb[c] = d.wb[c]
    BY DEF Settled
  <2>4. PICK v \in Int : v = s[Len(p[c])] /\ v = r[Len(p[c])]
    BY <2>1, <2>2
  <2>5. Replaced(Own(d, c, v), Own(e, c, v), d.leaked[c], e.leaked[c])
    BY <2>3, OwnLost
  <2>6. PICK k \in Int, l \in Int, x \in Int, y \in Int :
            k = d.leaked[c] /\ l = e.leaked[c] /\ x = Held(d, z) /\ y = Held(e, z) /\ l + y = k + x
    <3>1. d.leaked[c] \in Int /\ e.leaked[c] \in Int
      BY DEF Devs
    <3>2. Held(d, z) \in Int /\ Held(e, z) \in Int
      BY HeldInt
    <3> QED
      BY <1>1, <3>1, <3>2 DEF Settled
  <2>7. Offset(Own(d, c, v), Own(e, c, v), x, y, e.split)
    BY <2>5, <2>6, ReplacedOffset
  <2> QED
    BY <2>4, <2>6, <2>7
<1>3. MadeUp(d, e, p, p, z, c)
    BY <1>2 DEF MadeUp
<1>4. OnlyThere(d, e, p, p, z, c)
    BY <1>1 DEF OnlyThere, Settled, Held
<1> QED
    BY <1>3, <1>4, LedgerOne

\* A zone that holds as much as it held.
LEMMA SettledSame ==
    ASSUME NEW d \in Devs, NEW e, Keeps(d, e), NEW z \in Zones, NEW y,
           e.zone = [d.zone EXCEPT ![z] = y], Held(e, z) = Held(d, z)
    PROVE  Settled(d, e, z)
BY DEF Keeps, Settled, Devs

\* A zone that is no longer active, and has dropped what it held.
LEMMA SettledDropped ==
    ASSUME cfg \in Configs, NEW d \in Devs, NEW z \in Zones, NEW o, o = Drop(d, z), NEW e, Keeps(o, e), NEW y,
           e.zone = [d.zone EXCEPT ![z] = y], y.state \notin Active
    PROVE  Settled(d, e, z)
<1>1. Fielded(d)
    BY DevFielded
<1>2. /\ e.wb = d.wb /\ e.split = d.split
      /\ e.leaked = [d.leaked EXCEPT ![BufOf(z)] = @ + Held(d, z)]
    BY <1>1, DropKeeps DEF Keeps
<1>3. Held(e, z) = 0
    BY DEF Held, Devs
<1>4. PICK c \in Zones, k \in Int, x \in Int : c = BufOf(z) /\ k = d.leaked[c] /\ x = Held(d, z)
    BY BufIn, HeldInt DEF Devs
<1>5. e.leaked = [d.leaked EXCEPT ![c] = k + x] /\ d.leaked \in [Zones -> Int]
    BY <1>2, <1>4 DEF Devs
<1>6. e.leaked[c] = k + x /\ \A b \in Zones : b # c => e.leaked[b] = d.leaked[b]
    BY <1>5
<1>7. e.leaked[c] + Held(e, z) = d.leaked[c] + Held(d, z)
    BY <1>3, <1>4, <1>6
<1> QED
    BY <1>2, <1>4, <1>6, <1>7 DEF Settled, Devs

\* What an active zone holds does not depend on its state.
LEMMA HeldActive ==
    ASSUME NEW d, NEW e, NEW z, d.zone[z].state \in Active, e.zone[z].state \in Active,
           e.zone[z].wp = d.zone[z].wp, e.zone[z].zrwav = d.zone[z].zrwav
    PROVE  Held(e, z) = Held(d, z)
BY DEF Held

\* A zone is settled when it is closed.
LEMMA CloseSettled ==
    ASSUME NEW d \in Devs, NEW z \in Zones
    PROVE  Settled(d, close_zone(d, z), z) \/ close_zone(d, z) = d
<1>1. CASE d.zone[z].state \in Opened
  <2>10. PICK x \in ZoneDescs : x = d.zone[z]
    BY DEF Devs
  <2>1. PICK y : /\ y = [x EXCEPT !.state = "CLOSED"]
                 /\ y.state = "CLOSED" /\ y.wp = x.wp /\ y.zrwav = x.zrwav
    <3>1. "CLOSED" \in States
      BY DEF States, Active
    <3> QED
      BY <3>1, NewState
  <2>2. PICK c : c = change_zone_state(d, z, "CLOSED")
    OBVIOUS
  <2>3. PICK e : e = release_zone_resource(c, "OPEN")
    OBVIOUS
  <2>4. e = close_zone(d, z)
    BY <1>1, <2>2, <2>3 DEF close_zone
  <2>5. Fielded(d) /\ d.zone \in [Zones -> ZoneDescs]
    BY DevFielded DEF Devs
  <2>6. Keeps(d, c) /\ c.zone = [d.zone EXCEPT ![z].state = "CLOSED"]
    BY <2>2, <2>5, StateKeeps
  <2>7. Keeps(d, e) /\ e.zone = [d.zone EXCEPT ![z] = y]
    BY <2>1, <2>3, <2>5, <2>6, <2>10, ResourceKeeps DEF Keeps
  <2>8. e.zone[z] = y
    BY <2>5, <2>7
  <2>9. Held(e, z) = Held(d, z)
    <3>1. d.zone[z].state \in Active /\ e.zone[z].state \in Active
      BY <1>1, <2>1, <2>8 DEF Active
    <3>2. e.zone[z].wp = d.zone[z].wp /\ e.zone[z].zrwav = d.zone[z].zrwav
      BY <2>1, <2>8, <2>10
    <3> QED
      BY <3>1, <3>2, HeldActive
  <2> QED
    BY <2>4, <2>7, <2>9, SettledSame
<1>2. CASE d.zone[z].state \notin Opened
    BY <1>2 DEF close_zone
<1> QED
    BY <1>1, <1>2

\* A zone is settled when it is finished: it drops what it holds.
LEMMA FinishSettled ==
    ASSUME cfg \in Configs, NEW d \in Devs, NEW z \in Zones
    PROVE  Settled(d, finish_zone(d, z), z) \/ finish_zone(d, z) = d
<1>1. CASE d.zone[z].state # "FULL"
  <2>1. PICK o : o = Drop(d, z)
    OBVIOUS
  <2>2. PICK c : c = ReleaseAll(o, z)
    OBVIOUS
  <2>3. PICK e : e = change_zone_state(c, z, "FULL")
    OBVIOUS
  <2>4. e = finish_zone(d, z)
    BY <1>1, <2>1, <2>2, <2>3 DEF finish_zone
  <2>5. Fielded(d) /\ d.zone \in [Zones -> ZoneDescs]
    BY DevFielded DEF Devs
  <2>6. Fielded(o) /\ o.zone = d.zone
    BY <2>1, <2>5, DropKeeps
  <2>7. Keeps(o, c) /\ c.zone = d.zone
    BY <2>2, <2>6, ReleaseAllKeeps
  <2>8. Keeps(o, e) /\ e.zone = [d.zone EXCEPT ![z].state = "FULL"]
    BY <2>3, <2>7, StateKeeps DEF Keeps
  <2>9. PICK y : y = [d.zone[z] EXCEPT !.state = "FULL"]
    OBVIOUS
  <2>10. y.state \notin Active /\ e.zone = [d.zone EXCEPT ![z] = y]
    <3>1. y.state = "FULL"
      BY <2>5, <2>9 DEF ZoneDescs
    <3> QED
      BY <2>8, <2>9, <3>1 DEF Active, Opened
  <2> QED
    BY <2>1, <2>4, <2>8, <2>10, SettledDropped
<1>2. CASE d.zone[z].state = "FULL"
    BY <1>2 DEF finish_zone
<1> QED
    BY <1>1, <1>2

\* A zone is settled when it is reset: it drops what it holds.
LEMMA ResetSettled ==
    ASSUME cfg \in Configs, NEW d, DevInv(d), NEW z \in Zones
    PROVE  Settled(d, reset_zone(d, z), z)
<1>1. PICK o : o = Drop(d, z)
    OBVIOUS
<1>2. PICK c : c = ReleaseAll(o, z)
    OBVIOUS
<1>3. PICK r : r = change_zone_state(c, z, "EMPTY")
    OBVIOUS
<1>4. d \in Devs /\ Fielded(d) /\ d.zone \in [Zones -> ZoneDescs]
    BY DevFielded DEF Devs, DevInv
<1>5. Fielded(o) /\ o.zone = d.zone
    BY <1>1, <1>4, DropKeeps
<1>6. Keeps(o, c) /\ c.zone = d.zone
    BY <1>2, <1>5, ReleaseAllKeeps
<1>7. Keeps(o, r) /\ r.zone = [d.zone EXCEPT ![z].state = "EMPTY"]
    BY <1>3, <1>6, StateKeeps DEF Keeps
<1>8. PICK e : e = reset_zone(d, z)
    OBVIOUS
<1>9. e = [r EXCEPT !.zone[z].wp = zone_to_slba(z), !.zone[z].zrwav = 0,
                    !.written[z] = {}, !.zwb[z] = IF cfg.zwb > 0 THEN cfg.zwb ELSE @]
    BY <1>1, <1>2, <1>3, <1>8 DEF reset_zone
<1>10. PICK y : y = [[d.zone[z] EXCEPT !.state = "EMPTY"] EXCEPT !.wp = zone_to_slba(z), !.zrwav = 0]
    OBVIOUS
<1>11. Keeps(r, e) /\ e.zone = [r.zone EXCEPT ![z].wp = zone_to_slba(z), ![z].zrwav = 0]
  <2>1. PICK f, w, b : /\ f = [r.zone EXCEPT ![z].wp = zone_to_slba(z), ![z].zrwav = 0]
                       /\ w = [r.written EXCEPT ![z] = {}]
                       /\ b = [r.zwb EXCEPT ![z] = IF cfg.zwb > 0 THEN cfg.zwb ELSE @]
    OBVIOUS
  <2>2. Fielded(r)
    BY <1>7 DEF Keeps
  <2>5. r \in Devs
    <3>1. Released(d, c, z)
      BY <1>1, <1>2, DroppedReleased
    <3>2. c \in Devs /\ "EMPTY" \in States
      BY <3>1 DEF Released, States
    <3> QED
      BY <1>3, <3>2, StateMade DEF Made
  <2>3. e = [r EXCEPT !.zone = f, !.written = w, !.zwb = b]
    BY <1>9, <2>1, <2>5 DEF Devs
  <2>4. Keeps(r, e) /\ e.zone = f
    BY <2>2, <2>3 DEF Keeps, Fielded
  <2> QED
    BY <2>1, <2>4
<1>12. e.zone = [d.zone EXCEPT ![z] = y]
    BY <1>4, <1>7, <1>10, <1>11
<1>13. y.state \notin Active
  <2>1. y.state = "EMPTY"
    BY <1>4, <1>10 DEF ZoneDescs
  <2> QED
    BY <2>1 DEF Active, Opened
<1>14. Keeps(o, e)
    BY <1>7, <1>11 DEF Keeps
<1> QED
    BY <1>1, <1>4, <1>8, <1>12, <1>13, <1>14, SettledDropped

\* A zone at its start holds nothing, nor does one with ZRWA, nor one that is not active.
LEMMA HeldNothing ==
    ASSUME cfg \in Configs, NEW d, NEW z \in Zones,
           d.zone[z].wp = zone_to_slba(z) \/ d.zone[z].zrwav = 1 \/ d.zone[z].state \notin Active
    PROVE  Held(d, z) = 0
<1>1. CASE d.zone[z].wp = zone_to_slba(z)
  <2>1. PICK s \in Nat, u \in Nat : s = zone_to_slba(z) /\ u = UnitBlocks /\ u > 0
    BY Addr, UnitFacts
  <2>2. (s - s) % u = 0
    BY <2>1
  <2> QED
    BY <1>1, <2>1, <2>2 DEF Held
<1>2. CASE d.zone[z].zrwav = 1
    BY <1>2 DEF Held
<1>3. CASE d.zone[z].state \notin Active
    BY <1>3 DEF Held
<1> QED
    BY <1>1, <1>2, <1>3

\* A zone is settled when its ZRWA is flushed: it holds no write buffer.
LEMMA FlushSettled ==
    ASSUME cfg \in Configs, NEW d \in Devs, NEW slba \in Nat, NEW z \in Zones, z = lba_to_zone(slba)
    PROVE  Settled(d, flush_explicit_zrwa(d, slba), z) \/ flush_explicit_zrwa(d, slba) = d
<1>1. PICK k : k = ((slba - d.zone[z].wp + 1) % U64) % cfg.fg
    OBVIOUS
<1>2. PICK moved : moved = [d EXCEPT !.zone[z].wp = slba + 1]
    OBVIOUS
<1>3. flush_explicit_zrwa(d, slba) =
        IF ~FlushDivides(d, slba) \/ k # 0 \/ d.zone[z].state \notin Active THEN d
        ELSE IF slba + 1 = zone_to_slba(z) + cfg.size
             THEN change_zone_state(ReleaseAll(moved, z), z, "FULL")
             ELSE moved
    BY <1>1, <1>2 DEF flush_explicit_zrwa
<1>4. FlushDivides(d, slba) => d.zone[z].zrwav = 1
    BY DEF FlushDivides
<1>5. Fielded(d) /\ d.zone \in [Zones -> ZoneDescs]
    BY DevFielded DEF Devs
<1>6. PICK y : y = [d.zone[z] EXCEPT !.wp = slba + 1]
    OBVIOUS
<1>7. Keeps(d, moved) /\ moved.zone = [d.zone EXCEPT ![z] = y]
    BY <1>2, <1>5, <1>6 DEF Keeps, Fielded
<1>8. ASSUME d.zone[z].zrwav = 1
      PROVE  Settled(d, moved, z) /\ Settled(d, change_zone_state(ReleaseAll(moved, z), z, "FULL"), z)
  <2>1. Held(d, z) = 0
    BY <1>8, HeldNothing
  <2>2. y.zrwav = 1
    BY <1>5, <1>6, <1>8 DEF ZoneDescs
  <2>3. moved.zone[z].zrwav = 1
    BY <1>5, <1>7, <2>2
  <2>4. Held(moved, z) = 0
    BY <2>3, HeldNothing
  <2>5. PICK c : c = ReleaseAll(moved, z)
    OBVIOUS
  <2>6. Keeps(moved, c) /\ c.zone = moved.zone
    BY <1>7, <2>5, ReleaseAllKeeps DEF Keeps
  <2>7. PICK e : e = change_zone_state(c, z, "FULL")
    OBVIOUS
  <2>8. Keeps(d, e) /\ e.zone = [moved.zone EXCEPT ![z].state = "FULL"]
    BY <1>7, <2>6, <2>7, StateKeeps DEF Keeps
  <2>9. PICK v : v = [y EXCEPT !.state = "FULL"]
    OBVIOUS
  <2>10. e.zone = [d.zone EXCEPT ![z] = v] /\ e.zone[z] = v
    BY <1>5, <1>7, <2>8, <2>9
  <2>11. v.zrwav = 1
    <3>1. y \in [DOMAIN y -> {y[f] : f \in DOMAIN y}] /\ "zrwav" \in DOMAIN y
      BY <1>5, <1>6 DEF ZoneDescs
    <3> QED
      BY <2>2, <2>9, <3>1
  <2>12. Held(e, z) = 0
    BY <2>10, <2>11, HeldNothing
  <2>13. Settled(d, e, z)
    BY <2>1, <2>8, <2>10, <2>12, SettledSame
  <2>14. Settled(d, moved, z)
    BY <1>7, <2>1, <2>4, SettledSame
  <2> QED
    BY <2>5, <2>7, <2>13, <2>14
<1> QED
    BY <1>3, <1>4, <1>8

\* A zone that is opened.
LEMMA OpenedSettled ==
    ASSUME NEW d \in Devs, NEW z \in Zones, NEW x, NEW a, Keeps(d, a),
           a.zone = [d.zone EXCEPT ![z] = x], NEW e,
           e = change_zone_state(acquire_zone_resource(a, "OPEN"), z, "OPENED_EXPL")
    PROVE  Keeps(d, e) /\ e.zone = [d.zone EXCEPT ![z] = [x EXCEPT !.state = "OPENED_EXPL"]]
<1>1. PICK b : b = acquire_zone_resource(a, "OPEN")
    OBVIOUS
<1>2. Keeps(d, b) /\ b.zone = a.zone
    BY <1>1, ResourceKeeps DEF Keeps
<1>3. Keeps(d, e) /\ e.zone = [a.zone EXCEPT ![z].state = "OPENED_EXPL"]
  <2>1. Fielded(b) /\ e = change_zone_state(b, z, "OPENED_EXPL")
    BY <1>1, <1>2 DEF Keeps
  <2>2. Keeps(b, e) /\ e.zone = [b.zone EXCEPT ![z].state = "OPENED_EXPL"]
    BY <2>1 DEF Fielded, Keeps, change_zone_state
  <2> QED
    BY <1>2, <2>2 DEF Keeps
<1>4. d.zone \in [Zones -> ZoneDescs]
    BY DEF Devs
<1> QED
    BY <1>3, <1>4

\* A zone is settled when it is opened.
LEMMA OpenSettled ==
    ASSUME cfg \in Configs, NEW d, DevInv(d), NEW z \in Zones, NEW zrwa \in {0, 1}
    PROVE  Settled(d, open_zone(d, z, zrwa), z) \/ open_zone(d, z, zrwa) = d
<1> DEFINE state == d.zone[z].state
           short == \/ is_zone_resource_full(d, "ACTIVE") \/ is_zone_resource_full(d, "OPEN")
                    \/ (zrwa = 1 /\ is_zone_resource_full(d, "ZRWA"))
           f     == IF zrwa = 1
                    THEN [acquire_zone_resource(d, "ZRWA") EXCEPT !.zone[z].zrwav = 1] ELSE d
           fromEmpty  == change_zone_state(
                            acquire_zone_resource(acquire_zone_resource(f, "ACTIVE"), "OPEN"), z, "OPENED_EXPL")
           fromClosed == change_zone_state(acquire_zone_resource(d, "OPEN"), z, "OPENED_EXPL")
           explicit   == change_zone_state(d, z, "OPENED_EXPL")
<1>0. open_zone(d, z, zrwa) =
        CASE state = "EMPTY" /\ ~short -> fromEmpty
          [] state = "CLOSED" /\ ~is_zone_resource_full(d, "OPEN") -> fromClosed
          [] state = "OPENED_IMPL" -> explicit
          [] OTHER -> d
    BY DEF open_zone
<1>1. PICK x \in ZoneDescs : x = d.zone[z] /\ ZoneInv(z, x, d.written[z]) /\ d \in Devs
    BY Counted
<1>2. d.zone \in [Zones -> ZoneDescs] /\ Fielded(d) /\ d.zone = [d.zone EXCEPT ![z] = x]
    BY <1>1, DevFielded DEF Devs
<1>3. ASSUME NEW v \in ZoneDescs, NEW a, Keeps(d, a), a.zone = [d.zone EXCEPT ![z] = v],
             v.wp = x.wp, NEW e, Keeps(d, e),
             e.zone = [d.zone EXCEPT ![z] = [v EXCEPT !.state = "OPENED_EXPL"]],
             \/ x.state \in Active /\ v.zrwav = x.zrwav
             \/ x.state = "EMPTY"
      PROVE  Settled(d, e, z)
  <2>1. PICK y : y = [v EXCEPT !.state = "OPENED_EXPL"]
    OBVIOUS
  <2>2. y.state = "OPENED_EXPL" /\ y.wp = x.wp /\ y.zrwav = v.zrwav
    BY <1>3, <2>1 DEF ZoneDescs
  <2>3. e.zone = [d.zone EXCEPT ![z] = y] /\ e.zone[z] = y
    BY <1>2, <1>3, <2>1
  <2>4. CASE x.state \in Active /\ v.zrwav = x.zrwav
    <3>1. d.zone[z].state \in Active /\ e.zone[z].state \in Active
      BY <1>1, <2>2, <2>3, <2>4 DEF Active, Opened
    <3>2. e.zone[z].wp = d.zone[z].wp /\ e.zone[z].zrwav = d.zone[z].zrwav
      BY <1>1, <2>2, <2>3, <2>4
    <3>3. Held(e, z) = Held(d, z)
      BY <3>1, <3>2, HeldActive
    <3> QED
      BY <1>1, <1>3, <2>3, <3>3, SettledSame
  <2>5. CASE x.state = "EMPTY"
    <3>1. x.wp = zone_to_slba(z)
      BY <1>1, <2>5 DEF ZoneInv
    <3>2. d.zone[z].wp = zone_to_slba(z) /\ e.zone[z].wp = zone_to_slba(z)
      BY <1>1, <2>2, <2>3, <3>1
    <3>3. Held(e, z) = 0 /\ Held(d, z) = 0
      BY <3>2, HeldNothing
    <3> QED
      BY <1>1, <1>3, <2>3, <3>3, SettledSame
  <2> QED
    BY <1>3, <2>4, <2>5
<1>4. ASSUME state = "EMPTY"
      PROVE  Settled(d, fromEmpty, z)
  <2>1. PICK v \in ZoneDescs : /\ v.wp = x.wp
                               /\ Keeps(d, f) /\ f.zone = [d.zone EXCEPT ![z] = v]
    <3>1. CASE zrwa = 1
      <4>1. PICK g : g = acquire_zone_resource(d, "ZRWA")
        OBVIOUS
      <4>2. Keeps(d, g) /\ g.zone = d.zone
        BY <1>2, <4>1, ResourceKeeps
      <4>3. PICK v : v = [x EXCEPT !.zrwav = 1]
        OBVIOUS
      <4>4. v \in ZoneDescs /\ v.wp = x.wp
        BY <4>3 DEF ZoneDescs
      <4>5. PICK h : h = [g EXCEPT !.zone = [d.zone EXCEPT ![z] = v]]
        OBVIOUS
      <4>6. Keeps(d, h) /\ h.zone = [d.zone EXCEPT ![z] = v]
        BY <4>2, <4>5 DEF Keeps, Fielded
      <4>7. h = f
        <5>1. [g.zone EXCEPT ![z].zrwav = 1] = [d.zone EXCEPT ![z] = v]
          BY <1>1, <1>2, <4>2, <4>3
        <5>2. f = [g EXCEPT !.zone[z].zrwav = 1]
          BY <3>1, <4>1
        <5>3. f = [g EXCEPT !.zone = [g.zone EXCEPT ![z].zrwav = 1]]
          BY <4>2, <5>2 DEF Keeps, Fielded
        <5> HIDE DEF f
        <5> QED
          BY <4>5, <5>1, <5>3
      <4> HIDE DEF f
      <4> QED
        BY <4>4, <4>6, <4>7
    <3>2. CASE zrwa = 0
      <4>1. f = d /\ Keeps(d, d)
        BY <1>2, <3>2 DEF Keeps
      <4> HIDE DEF f
      <4> QED
        BY <1>2, <4>1
    <3> HIDE DEF f
    <3> QED
      BY <3>1, <3>2
  <2> HIDE DEF f
  <2>2. PICK a : a = acquire_zone_resource(f, "ACTIVE")
    OBVIOUS
  <2>3. Keeps(d, a) /\ a.zone = [d.zone EXCEPT ![z] = v]
    BY <2>1, <2>2, ResourceKeeps DEF Keeps
  <2>4. PICK e : e = change_zone_state(acquire_zone_resource(a, "OPEN"), z, "OPENED_EXPL")
    OBVIOUS
  <2>5. Keeps(d, e) /\ e.zone = [d.zone EXCEPT ![z] = [v EXCEPT !.state = "OPENED_EXPL"]]
    BY <1>1, <2>3, <2>4, OpenedSettled
  <2>6. x.state = "EMPTY"
    BY <1>1, <1>4
  <2>7. Settled(d, e, z)
    BY <1>3, <2>1, <2>3, <2>5, <2>6
  <2> QED
    BY <2>2, <2>4, <2>7
<1>5. ASSUME state = "CLOSED"
      PROVE  Settled(d, fromClosed, z)
  <2>1. PICK e : e = fromClosed
    OBVIOUS
  <2>2. Keeps(d, d)
    BY <1>2 DEF Keeps
  <2>3. Keeps(d, e) /\ e.zone = [d.zone EXCEPT ![z] = [x EXCEPT !.state = "OPENED_EXPL"]]
    BY <1>1, <1>2, <2>1, <2>2, OpenedSettled
  <2>4. x.state \in Active
    BY <1>1, <1>5 DEF Active
  <2>5. Settled(d, e, z)
    BY <1>2, <1>3, <2>2, <2>3, <2>4
  <2> QED
    BY <2>1, <2>5
<1>6. ASSUME state = "OPENED_IMPL"
      PROVE  Settled(d, explicit, z)
  <2>1. PICK e : e = explicit
    OBVIOUS
  <2>2. Keeps(d, d)
    BY <1>2 DEF Keeps
  <2>3. Keeps(d, e) /\ e.zone = [d.zone EXCEPT ![z].state = "OPENED_EXPL"]
    BY <1>2, <2>1, StateKeeps
  <2>4. e.zone = [d.zone EXCEPT ![z] = [x EXCEPT !.state = "OPENED_EXPL"]]
    BY <1>1, <1>2, <2>3
  <2>5. x.state \in Active
    BY <1>1, <1>6 DEF Active, Opened
  <2>6. Settled(d, e, z)
    BY <1>2, <1>3, <2>2, <2>3, <2>4, <2>5
  <2> QED
    BY <2>1, <2>6
<1> HIDE DEF state, short, fromEmpty, fromClosed, explicit
<1> QED
    BY <1>0, <1>4, <1>5, <1>6

\* A management command keeps the account.
LEMMA SendLedger ==
    ASSUME cfg \in Configs, NEW d, DevInv(d), NEW p \in [Zones -> Seq(Nat)], Ledger(d, p),
           NEW c \in Cmds, NEW slba \in Nat, lba_to_zone(slba) \in Zones
    PROVE  Ledger(zmgmt_send(d, c, slba), p)
<1>1. PICK z \in Zones : z = lba_to_zone(slba)
    OBVIOUS
<1>2. d \in Devs /\ c.opt \in {0, 1}
    BY DEF DevInv, Cmds
<1>3. PICK e : e = zmgmt_send(d, c, slba)
    OBVIOUS
<1>4. e \in Devs
    BY <1>3, SendInv DEF DevInv
<1>5. /\ Settled(d, close_zone(d, z), z) \/ close_zone(d, z) = d
      /\ Settled(d, finish_zone(d, z), z) \/ finish_zone(d, z) = d
      /\ Settled(d, open_zone(d, z, c.opt), z) \/ open_zone(d, z, c.opt) = d
      /\ Settled(d, reset_zone(d, z), z)
      /\ Settled(d, flush_explicit_zrwa(d, slba), z) \/ flush_explicit_zrwa(d, slba) = d
    BY <1>1, <1>2, CloseSettled, FinishSettled, OpenSettled, ResetSettled, FlushSettled
<1>6. Settled(d, e, z) \/ e = d
    BY <1>1, <1>3, <1>5 DEF zmgmt_send
<1> QED
    BY <1>2, <1>3, <1>4, <1>6, SettledLedger

\* So does a command for all zones.
LEMMA SendAllLedger ==
    ASSUME cfg \in Configs, NEW d, DevInv(d), NEW p \in [Zones -> Seq(Nat)], Ledger(d, p), NEW c \in Cmds
    PROVE  Ledger(SendToAll(d, c), p)
<1>1. PICK S : S = {v \in Devs : DevInv(v) /\ Ledger(v, p)}
    OBVIOUS
<1>2. \A v \in S, z \in Zones : zmgmt_send(v, c, zone_to_slba(z)) \in S
  <2> SUFFICES ASSUME NEW v \in S, NEW z \in Zones
               PROVE  zmgmt_send(v, c, zone_to_slba(z)) \in S
    OBVIOUS
  <2>1. zone_to_slba(z) \in Nat /\ lba_to_zone(zone_to_slba(z)) = z
    BY ZoneStart
  <2>2. DevInv(v) /\ Ledger(v, p)
    BY <1>1
  <2>3. PICK s \in Nat : s = zone_to_slba(z) /\ lba_to_zone(s) \in Zones
    BY <2>1
  <2>4. DevInv(zmgmt_send(v, c, s)) /\ Ledger(zmgmt_send(v, c, s), p)
    BY <2>2, <2>3, SendInv, SendLedger
  <2> QED
    BY <1>1, <2>3, <2>4 DEF DevInv
<1>3. d \in S
    BY <1>1 DEF DevInv
<1>4. SendToAll(d, c) \in S
    BY <1>2, <1>3, SendAllKept
<1> QED
    BY <1>1, <1>4

-----------------------------------------------------------------------------
(* Writes keep the account. *)

\* In e zone z of d has been written n blocks further, with buffer taken for them.
Written(d, e, z, n) ==
    /\ \A b \in Zones : e.wb[b] = d.wb[b] - (IF b = BufOf(z) THEN n ELSE 0)
    /\ e.leaked = d.leaked /\ (d.split => e.split)
    /\ ~ e.split => (d.zone[z].wp + n) % cfg.page = 0
    /\ \A v \in Zones : v # z => e.zone[v] = d.zone[v]
    /\ e.zone[z].zrwav = 0 /\ e.zone[z].wp = d.zone[z].wp + n
    /\ IF e.zone[z].wp = zone_to_slba(z + 1) THEN e.zone[z].state = "FULL" ELSE e.zone[z].state \in Active

\* What a zone holds, from its write pointer.
LEMMA HeldBefore ==
    ASSUME cfg \in Configs, NEW d, DevInv(d), NEW z \in Zones, d.zone[z].zrwav = 0, d.zone[z].state # "FULL"
    PROVE  Held(d, z) = Behind(z, d.zone[z].wp)
<1>1. PICK x \in ZoneDescs : x = d.zone[z] /\ ZoneInv(z, x, d.written[z])
    BY Counted
<1>2. x.wp # zone_to_slba(z + 1)
    BY <1>1 DEF ZoneInv
<1>3. CASE x.state \in Active
    BY <1>1, <1>2, <1>3 DEF Held, Behind
<1>4. CASE x.state \notin Active
  <2>1. x.wp = zone_to_slba(z)
    BY <1>1, <1>4 DEF ZoneInv, ZoneDescs, States
  <2>2. PICK s \in Nat, u \in Nat : s = zone_to_slba(z) /\ u = UnitBlocks /\ u > 0
    BY Addr, UnitFacts
  <2>3. (s - s) % u = 0
    BY <2>2
  <2>4. Behind(z, x.wp) = 0
    BY <2>1, <2>2, <2>3 DEF Behind
  <2>5. Held(d, z) = 0
    BY <1>1, <1>4, HeldNothing
  <2> QED
    BY <1>1, <2>4, <2>5
<1> QED
    BY <1>3, <1>4

\* What a zone holds, from its write pointer, when it has been written.
LEMMA HeldAfter ==
    ASSUME NEW d, NEW e, NEW z, NEW n, Written(d, e, z, n)
    PROVE  Held(e, z) = Behind(z, e.zone[z].wp)
<1>1. CASE e.zone[z].wp = zone_to_slba(z + 1)
  <2>1. e.zone[z].state = "FULL"
    BY <1>1 DEF Written
  <2> QED
    BY <1>1, <2>1 DEF Held, Behind, Active, Opened
<1>2. CASE e.zone[z].wp # zone_to_slba(z + 1)
    BY <1>2 DEF Written, Held, Behind
<1> QED
    BY <1>1, <1>2

\* Buffer is taken, and more is scheduled to come back.
LEMMA OwnTaken ==
    ASSUME NEW d \in Devs, NEW e \in Devs, NEW c \in Zones, NEW n \in Nat, e.wb[c] = d.wb[c] - n,
           e.leaked[c] = d.leaked[c], NEW s \in Int, NEW m \in Int, NEW t, t = s + m
    PROVE  Replaced(Own(d, c, s), Own(e, c, t), n, m)
<1>1. PICK w \in Int, k \in Int : w = d.wb[c] /\ k = d.leaked[c]
    BY DEF Devs
<1>2. Own(d, c, s) = w + s + k
    BY <1>1 DEF Own
<1>3. Own(e, c, t) = w - n + (s + m) + k
    BY <1>1 DEF Own
<1> QED
    BY <1>1, <1>2, <1>3 DEF Replaced

\* Blocks taken and scheduled to come back, in place of blocks held.
LEMMA TakenOffset ==
    ASSUME NEW A, NEW B, NEW k \in Int, NEW l \in Int, NEW x \in Int, NEW y \in Int,
           Replaced(A, B, k, l), l - k + y - x >= 0, NEW split, ~ split => l - k + y - x = 0
    PROVE  Offset(A, B, x, y, split)
<1>1. A \in Int /\ B \in Int /\ B - A = l - k
    BY DEF Replaced
<1>2. (B - A) + (y - x) = l - k + y - x
    BY <1>1
<1> QED
    BY <1>1, <1>2 DEF Offset

\* A write keeps the account.
LEMMA WriteLedger ==
    ASSUME cfg \in Configs, NEW d, DevInv(d), NEW e \in Devs, NEW p \in [Zones -> Seq(Nat)], Ledger(d, p),
           NEW z \in Zones, d.zone[z].zrwav = 0, d.zone[z].state # "FULL",
           NEW n \in Nat, n >= 1, d.zone[z].wp + n <= zone_to_slba(z + 1), Written(d, e, z, n),
           NEW q, q = [p EXCEPT ![BufOf(z)] = @ \o Releases(z, d.zone[z].wp, n)]
    PROVE  Ledger(e, q)
<1>1. PICK c \in Zones : c = BufOf(z)
    BY BufIn
<1>2. PICK x \in ZoneDescs : x = d.zone[z] /\ ZoneInv(z, x, d.written[z]) /\ d \in Devs
    BY Counted
<1>3. PICK wp \in Nat : wp = x.wp /\ zone_to_slba(z) <= wp /\ wp + n <= zone_to_slba(z + 1)
    BY <1>2 DEF ZoneDescs, ZoneInv
<1>4. PICK rel \in Seq(Nat) : rel = Releases(z, wp, n)
    BY <1>3, ReleasesSeq
<1>5. q = [p EXCEPT ![c] = @ \o rel] /\ q \in [Zones -> Seq(Nat)] /\ q[c] = p[c] \o rel
          /\ \A b \in Zones : b # c => q[b] = p[b]
  <2>1. q = [p EXCEPT ![c] = @ \o rel]
    BY <1>1, <1>2, <1>3, <1>4
  <2>2. p[c] \o rel \in Seq(Nat)
    BY <1>4
  <2> QED
    BY <2>1, <2>2
<1>6. PICK w : IsSum(w, rel)
  <2>1. rel \in Seq(Int)
    BY <1>4
  <2> QED
    BY <2>1, SumExists
<1>7. PICK end \in Nat : end = wp + n
    BY <1>3
<1>8. PICK before, after : before = Behind(z, wp) /\ after = Behind(z, end)
    OBVIOUS
<1>9. /\ w[Len(rel)] \in Int /\ before \in Int /\ after \in Int
      /\ w[Len(rel)] - n + after - before >= 0
      /\ end % cfg.page = 0 => w[Len(rel)] - n + after - before = 0
    BY <1>3, <1>4, <1>6, <1>7, <1>8, ReleasedSum
<1>10. Held(d, z) = before /\ Held(e, z) = after
  <2>1. Held(d, z) = before
    BY <1>2, <1>3, <1>8, HeldBefore
  <2>2. e.zone[z].wp = end
    BY <1>2, <1>3, <1>7 DEF Written
  <2> QED
    BY <1>8, <2>1, <2>2, HeldAfter
<1>11. ~ e.split => end % cfg.page = 0
    BY <1>2, <1>3, <1>7 DEF Written
<1>12. ASSUME NEW s, NEW r, IsSum(s, p[c]), IsSum(r, q[c])
       PROVE  Offset(Own(d, c, s[Len(p[c])]), Own(e, c, r[Len(q[c])]), Held(d, z), Held(e, z), e.split)
  <2>1. PICK u \in Seq(Int) : u = p[c] /\ u \in Seq(Nat)
    OBVIOUS
  <2>2. rel \in Seq(Int)
    OBVIOUS
  <2>9. q[c] = u \o rel /\ Len(u) \in 0 .. Len(u)
    <3>1. q[c] = p[c] \o rel
      BY <1>5
    <3>2. Len(u) \in Nat
      OBVIOUS
    <3>3. Len(u) \in 0 .. Len(u)
      BY <3>2
    <3>4. q[c] = u \o rel
      BY <2>1, <3>1, Zenon
    <3> QED
      BY <3>3, <3>4, Zenon
  <2>10. IsSum(s, u) /\ IsSum(r, u \o rel)
    BY <1>12, <2>1, <2>9
  <2>3. r[Len(u \o rel)] = s[Len(u)] + w[Len(rel)]
    BY <1>6, <2>2, <2>10, SumCat
  <2>4. PICK v \in Int, m \in Int, t \in Int : /\ v = s[Len(p[c])] /\ m = w[Len(rel)] /\ t = r[Len(q[c])]
                                              /\ t = v + m
    <3>1. s[Len(u)] \in Int
      BY <2>9, <2>10 DEF IsSum
    <3>2. PICK v \in Int, m \in Int : v = s[Len(u)] /\ m = w[Len(rel)]
      BY <1>9, <3>1
    <3>3. r[Len(q[c])] = v + m /\ v = s[Len(p[c])]
      BY <2>1, <2>3, <2>9, <3>2
    <3> QED
      BY <3>2, <3>3
  <2>5. e.wb[c] = d.wb[c] - n /\ e.leaked[c] = d.leaked[c]
    BY <1>1 DEF Written
  <2>6. Replaced(Own(d, c, v), Own(e, c, t), n, m)
    BY <1>2, <2>4, <2>5, OwnTaken
  <2>7. m - n + after - before >= 0 /\ (~ e.split => m - n + after - before = 0)
    BY <1>9, <1>11, <2>4
  <2>8. Offset(Own(d, c, v), Own(e, c, t), before, after, e.split)
    BY <1>9, <2>6, <2>7, TakenOffset
  <2> QED
    BY <1>10, <2>4, <2>8
<1>13. MadeUp(d, e, p, q, z, c)
    BY <1>12 DEF MadeUp
<1>14. \A b \in Zones : b # c => e.wb[b] = d.wb[b]
  <2> SUFFICES ASSUME NEW b \in Zones, b # c
               PROVE  e.wb[b] = d.wb[b]
    OBVIOUS
  <2>1. e.wb[b] = d.wb[b] - 0
    BY <1>1 DEF Written
  <2>2. d.wb[b] \in Int
    BY <1>2 DEF Devs
  <2> QED
    BY <2>1, <2>2
<1>15. OnlyThere(d, e, p, q, z, c)
  <2>1. \A y \in Zones : Held(e, y) # Held(d, y) => y = z /\ BufOf(z) = c
    BY <1>1 DEF Written, Held
  <2>2. (d.split => e.split) /\ \A b \in Zones : e.leaked[b] = d.leaked[b]
    BY DEF Written
  <2> QED
    BY <1>5, <1>14, <2>1, <2>2 DEF OnlyThere
<1> QED
    BY <1>2, <1>5, <1>13, <1>15, LedgerOne

\* Devices and releases after a step.
LEMMA NextTypes ==
    ASSUME IInv'
    PROVE  dev' \in Devs /\ pend' \in [Zones -> Seq(Nat)]
BY DEF IInv, DevInv, Devs

\* Zone z has its write pointer moved, and gets full at its end.
Moved(o, e, z, n) ==
    /\ Keeps(o, e)
    /\ \A v \in Zones : v # z => e.zone[v] = o.zone[v]
    /\ e.zone[z].zrwav = o.zone[z].zrwav /\ e.zone[z].wp = o.zone[z].wp + n
    /\ e.zone[z].state = IF o.zone[z].wp + n = zone_to_slba(z) + cfg.size THEN "FULL" ELSE o.zone[z].state

\* The write pointer of a zone is moved.
LEMMA AdvanceMoves ==
    ASSUME NEW o, Fielded(o), o.zone \in [Zones -> ZoneDescs], NEW z \in Zones, NEW n,
           NEW e, e = increase_write_ptr(o, z, n)
    PROVE  Moved(o, e, z, n)
<1>1. Fielded(o) /\ o.zone \in [Zones -> ZoneDescs]
    OBVIOUS
<1>2. PICK x \in ZoneDescs : x = o.zone[z]
    BY <1>1
<1>3. PICK m : m = [o EXCEPT !.zone[z].wp = @ + n]
    OBVIOUS
<1>4. PICK y : y = [x EXCEPT !.wp = @ + n]
    OBVIOUS
<1>5. y.wp = x.wp + n /\ y.zrwav = x.zrwav /\ y.state = x.state /\ y = [f \in DOMAIN x |-> y[f]]
    BY <1>4 DEF ZoneDescs
<1>6. Keeps(o, m) /\ m.zone = [o.zone EXCEPT ![z] = y]
    BY <1>1, <1>2, <1>3, <1>4 DEF Keeps, Fielded
<1>7. m.zone[z] = y
    BY <1>1, <1>6
<1>8. CASE y.wp = zone_to_slba(z) + cfg.size
  <2>1. PICK r : r = release_zone_resource(release_zone_resource(m, "OPEN"), "ACTIVE")
    OBVIOUS
  <2>2. Keeps(o, r) /\ r.zone = m.zone
    BY <1>6, <2>1, ResourceKeeps DEF Keeps
  <2>3. PICK f : f = change_zone_state(r, z, "FULL")
    OBVIOUS
  <2>4. Keeps(o, f) /\ f.zone = [m.zone EXCEPT ![z].state = "FULL"]
    BY <2>2, <2>3, StateKeeps DEF Keeps
  <2>5. e = [f EXCEPT !.zleaked = @ + x.zrwav]
    BY <1>2, <1>3, <1>7, <1>8, <2>1, <2>3 DEF increase_write_ptr
  <2>6. Keeps(o, e) /\ e.zone = f.zone
    BY <2>4, <2>5 DEF Keeps, Fielded
  <2>7. PICK v : v = [y EXCEPT !.state = "FULL"]
    OBVIOUS
  <2>8. e.zone = [o.zone EXCEPT ![z] = v] /\ e.zone[z] = v
    BY <1>1, <1>6, <1>7, <2>4, <2>6, <2>7
  <2>9. v.state = "FULL" /\ v.wp = y.wp /\ v.zrwav = y.zrwav
    BY <1>2, <1>5, <2>7 DEF ZoneDescs
  <2> QED
    BY <1>1, <1>2, <1>5, <1>8, <2>6, <2>8, <2>9 DEF Moved
<1>9. CASE y.wp # zone_to_slba(z) + cfg.size
  <2>1. e = m
    BY <1>3, <1>7, <1>9 DEF increase_write_ptr
  <2> QED
    BY <1>1, <1>2, <1>5, <1>6, <1>7, <1>9, <2>1 DEF Moved
<1> QED
    BY <1>8, <1>9

\* A zone that is opened for a write leaves the write buffers alone.
LEMMA OpenKeeps ==
    ASSUME NEW t \in Devs, NEW z, NEW o, o = OpenForWrite(t, z)
    PROVE  Keeps(t, o)
<1>1. Fielded(t) /\ Keeps(t, t)
    BY DevFielded DEF Keeps
<1>2. PICK a : a = IF t.zone[z].state = "EMPTY" THEN acquire_zone_resource(t, "ACTIVE") ELSE t
    OBVIOUS
<1>3. Keeps(t, a)
    BY <1>1, <1>2, ResourceKeeps
<1>4. PICK b : b = acquire_zone_resource(a, "OPEN")
    OBVIOUS
<1>5. Keeps(t, b)
    BY <1>3, <1>4, ResourceKeeps DEF Keeps
<1>6. o = IF t.zone[z].state \in {"EMPTY", "CLOSED"} THEN change_zone_state(b, z, "OPENED_IMPL") ELSE a
    BY <1>2, <1>4 DEF OpenForWrite
<1>7. Keeps(t, change_zone_state(b, z, "OPENED_IMPL"))
  <2>1. PICK f : f = change_zone_state(b, z, "OPENED_IMPL")
    OBVIOUS
  <2>2. Keeps(b, f)
    BY <1>5, <2>1 DEF Keeps, Fielded, change_zone_state
  <2> QED
    BY <1>5, <2>1, <2>2 DEF Keeps
<1> QED
    BY <1>3, <1>6, <1>7

\* Zone z of d is prepared in o.
Opens(d, o, z) == \E x : Prepared(d, o, z, x)

\* A zone that is opened for a write is prepared for it.
LEMMA OpensIt ==
    ASSUME cfg \in Configs, NEW d, DevInv(d), NEW z \in Zones, NEW t, NEW w,
           Made(t, d.zone, d.res, w, d.zleaked), \A y \in Zones : y # z => w[y] = d.written[y],
           d.zone[z].state # "FULL",
           d.zone[z].state = "EMPTY" => d.res["ACTIVE"] # NZones,
           d.zone[z].state \in {"EMPTY", "CLOSED"} => d.res["OPEN"] # NZones,
           NEW o, o = OpenForWrite(t, z)
    PROVE  Opens(d, o, z)
BY PrepareWrite DEF Opens

\* In e only buffer c differs, and it has as much as in d, scheduled releases included.
Even(d, e, p, q, c) ==
    /\ e.zone = d.zone /\ e.split = d.split
    /\ \A b \in Zones : b # c => e.wb[b] = d.wb[b] /\ e.leaked[b] = d.leaked[b] /\ q[b] = p[b]
    /\ \A s, r : IsSum(s, p[c]) /\ IsSum(r, q[c]) => Own(e, c, r[Len(q[c])]) = Own(d, c, s[Len(p[c])])

\* The zones hold what they held, and what buffer c has otherwise stays the same.
LEMMA EvenLedger ==
    ASSUME cfg \in Configs, NEW d \in Devs, NEW e \in Devs, NEW p \in [Zones -> Seq(Nat)],
           NEW q \in [Zones -> Seq(Nat)], Ledger(d, p), NEW c \in Zones, Even(d, e, p, q, c)
    PROVE  Ledger(e, q)
<1>1. \A y \in Zones : Held(e, y) = Held(d, y)
    BY DEF Held, Even
<1>2. OnlyThere(d, e, p, q, c, c)
    BY <1>1 DEF OnlyThere, Even
<1>3. ASSUME NEW s, NEW r, IsSum(s, p[c]), IsSum(r, q[c])
      PROVE  Offset(Own(d, c, s[Len(p[c])]), Own(e, c, r[Len(q[c])]), Held(d, c), Held(e, c), e.split)
  <2>1. p[c] \in Seq(Int)
    OBVIOUS
  <2>3. s[Len(p[c])] \in Int
    BY <1>3, <2>1, LastSum
  <2>4. PICK A \in Int, x \in Int : A = Own(d, c, s[Len(p[c])]) /\ x = Held(d, c)
    BY <2>3, OwnInt, HeldInt
  <2>5. Offset(A, A, x, x, e.split)
    BY DEF Offset
  <2>6. Own(e, c, r[Len(q[c])]) = Own(d, c, s[Len(p[c])])
    BY <1>3 DEF Even
  <2> QED
    BY <1>1, <2>4, <2>5, <2>6
<1>4. MadeUp(d, e, p, q, c, c)
    BY <1>3 DEF MadeUp
<1> QED
    BY <1>2, <1>4, LedgerOne

\* Three sequences, one after the other.
LEMMA ThreeParts ==
    ASSUME NEW g \in Seq(Int), NEW h \in Seq(Int), NEW i \in Seq(Int)
    PROVE  (g \o h) \o i = g \o (h \o i)
BY ConcatAssociative

\* Releases that find no work entry are lost, and accounted for as such.
LEMMA LoseEven ==
    ASSUME NEW d \in Devs, NEW b \in Zones, NEW pq \in [Zones -> Seq(Nat)], NEW rel \in Seq(Nat),
           NEW k \in Scheduled(rel), NEW p, p = [pq EXCEPT ![b] = @ \o rel],
           NEW e, e = Lose(d, b, rel, k), NEW q, q = [pq EXCEPT ![b] = @ \o SubSeq(rel, 1, k)]
    PROVE  Even(d, e, p, q, b)
<1>1. PICK u \in Seq(Nat), v \in Seq(Nat) : /\ u = SubSeq(rel, 1, k) /\ v = SubSeq(rel, k + 1, Len(rel))
                                            /\ u \o v = rel
    BY Parted
<1>2. PICK m \in Int : m = Rest(rel, k) /\ m = FoldLeft(+, 0, v)
    BY <1>1, Parted DEF Rest
<1>3. /\ e.zone = d.zone /\ e.split = d.split /\ e.wb = d.wb
      /\ \A c \in Zones : e.leaked[c] = d.leaked[c] + (IF c = b THEN m ELSE 0)
  <2>1. /\ Made(e, d.zone, d.res, d.written, d.zleaked) /\ e.wb = d.wb /\ e.split = d.split
        /\ \A c \in Zones : e.leaked[c] = d.leaked[c]
              + (IF c = b THEN Rest(rel, k) ELSE 0)
    BY LoseMade
  <2> QED
    BY <1>1, <1>2, <2>1, Zenon DEF Made
<1>4. \A c \in Zones : d.leaked[c] \in Int /\ d.wb[c] \in Int
    BY DEF Devs
<1>5. /\ p[b] = pq[b] \o (u \o v) /\ q[b] = pq[b] \o u
      /\ \A c \in Zones : c # b => p[c] = pq[c] /\ q[c] = pq[c]
    BY <1>1
<1>6. ASSUME NEW s, NEW r, IsSum(s, p[b]), IsSum(r, q[b])
      PROVE  Own(e, b, r[Len(q[b])]) = Own(d, b, s[Len(p[b])])
  <2>1. PICK g \in Seq(Int), h \in Seq(Int), i \in Seq(Int) : g = pq[b] /\ h = u /\ i = v
    <3>1. pq[b] \in Seq(Nat) /\ Nat \in SUBSET Int
      OBVIOUS
    <3> QED
      BY <3>1
  <2>2. PICK w : IsSum(w, i)
    BY SumExists
  <2>3. m = w[Len(i)]
    BY <1>2, <2>1, <2>2, FoldSum
  <2>4. PICK j \in Seq(Int), l \in Seq(Int) : j = g \o h /\ l = j \o i /\ l = g \o (h \o i)
    <3>1. (g \o h) \o i = g \o (h \o i) /\ g \o h \in Seq(Int)
      BY ONLY g \in Seq(Int), h \in Seq(Int), i \in Seq(Int), ThreeParts, ConcatProperties
    <3>2. (g \o h) \o i \in Seq(Int)
      BY ONLY i \in Seq(Int), <3>1, ConcatProperties
    <3> QED
      BY <3>1, <3>2
  <2>5. p[b] = l /\ q[b] = j
    BY <1>5, <2>1, <2>4
  <2>6. IsSum(s, j \o i) /\ IsSum(r, j)
    BY <1>6, <2>4, <2>5
  <2>7. s[Len(j \o i)] = r[Len(j)] + w[Len(i)] /\ r[Len(j)] \in Int
    BY ONLY j \in Seq(Int), i \in Seq(Int), <2>2, <2>6, SumCat, LastSum
  <2>8. PICK f \in Int : f = r[Len(q[b])] /\ s[Len(p[b])] = f + m
    BY <2>3, <2>4, <2>5, <2>7
  <2>9. PICK x \in Int, y \in Int : x = d.leaked[b] /\ y = d.wb[b] /\ e.leaked[b] = x + m /\ e.wb[b] = y
    BY <1>3, <1>4
  <2>10. Own(e, b, f) = y + f + (x + m) /\ Own(d, b, f + m) = y + (f + m) + x
    BY <2>9 DEF Own
  <2>11. y + f + (x + m) = y + (f + m) + x
    BY ONLY y \in Int, f \in Int, x \in Int, m \in Int
  <2> QED
    BY <2>8, <2>10, <2>11, Zenon
<1>7. \A c \in Zones : c # b => e.wb[c] = d.wb[c] /\ e.leaked[c] = d.leaked[c] /\ q[c] = p[c]
    BY <1>3, <1>4, <1>5
<1>8. e.zone = d.zone /\ e.split = d.split
    BY <1>3
<1> QED
    BY <1>6, <1>7, <1>8, Zenon DEF Even

\* A write that passes the checks keeps the account.
LEMMA DoneLedger ==
    ASSUME IInv, IInv', Ledger(dev, pend), NEW q \in SQs, zns_write_done(q)
    PROVE  Ledger(dev', pend')
<1>1. PICK z \in Zones : z = ZoneOf(q) /\ IsWrite(q) /\ dev.zone[z].zrwav = 0
                         /\ WriteStatus(z, StartOf(q), sq[q].n) = "SUCCESS" /\ dev.wb[BufOf(z)] >= sq[q].n
    BY DEF zns_write_done
<1>2. /\ cfg \in Configs /\ DevInv(dev) /\ sq[q].n \in Nat /\ sq[q].n >= 1
      /\ BufOf(z) \in Zones /\ StartOf(q) \in Nat /\ pend \in [Zones -> Seq(Nat)]
    BY <1>1, WriteHead DEF IInv
<1>3. PICK x \in ZoneDescs : x = dev.zone[z] /\ ZoneInv(z, x, dev.written[z]) /\ dev \in Devs /\ x.wp \in Nat
    BY <1>2, Counted DEF ZoneDescs
<1>4. PICK b \in Zones, n \in Nat, slba \in Nat : b = BufOf(z) /\ n = sq[q].n /\ slba = StartOf(q) /\ n >= 1
    BY <1>2
<1>5. /\ slba = x.wp /\ x.state # "FULL" /\ lba_to_zone(slba) = z /\ x.wp + n <= zone_to_slba(z + 1)
      /\ x.state = "EMPTY" => dev.res["ACTIVE"] # NZones
      /\ x.state \in {"EMPTY", "CLOSED"} => dev.res["OPEN"] # NZones
    BY <1>1, <1>3, <1>4, WriteChecked
<1>6. PICK s \in BOOLEAN : s = (dev.split \/ slba % cfg.page # 0 \/ (slba + n) % cfg.page # 0)
    OBVIOUS
<1>7. PICK f, w : f = [dev.wb EXCEPT ![b] = @ - n]
                  /\ w = [dev.written EXCEPT ![z] = @ \cup (slba .. slba + n - 1)]
    OBVIOUS
<1>8. f \in [Zones -> Nat] /\ w \in [Zones -> SUBSET Nat]
  <2>1. dev.wb \in [Zones -> Nat] /\ dev.written \in [Zones -> SUBSET Nat] /\ dev.wb[b] \in Nat
    BY <1>3 DEF Devs
  <2>2. dev.wb[b] - n \in Nat /\ slba .. slba + n - 1 \in SUBSET Nat
    BY <1>1, <1>4, <2>1
  <2> QED
    BY <1>7, <2>1, <2>2
<1>9. PICK t : t = [dev EXCEPT !.wb = f, !.written = w, !.split = s]
    OBVIOUS
<1>10. Made(t, dev.zone, dev.res, w, dev.zleaked)
    BY <1>3, <1>8, <1>9, TakenMade
<1>11. t = [dev EXCEPT !.wb[b] = @ - n, !.written[z] = @ \cup (slba .. slba + n - 1),
                       !.split = @ \/ slba % cfg.page # 0 \/ (slba + n) % cfg.page # 0]
    BY <1>3, <1>6, <1>7, <1>9 DEF Devs
<1>13. PICK o : o = OpenForWrite(t, z)
    OBVIOUS
<1>14. \A y \in Zones : y # z => w[y] = dev.written[y]
    BY <1>3, <1>7 DEF Devs
<1>15. Opens(dev, o, z)
  <2>1. /\ dev.zone[z].state # "FULL"
        /\ dev.zone[z].state = "EMPTY" => dev.res["ACTIVE"] # NZones
        /\ dev.zone[z].state \in {"EMPTY", "CLOSED"} => dev.res["OPEN"] # NZones
    BY <1>3, <1>5
  <2> QED
    BY <1>2, <1>10, <1>13, <1>14, <2>1, OpensIt
<1>16. PICK y : Prepared(dev, o, z, y)
    BY <1>15 DEF Opens
<1>12. PICK e : e = AfterWrite(q) /\ e = increase_write_ptr(OpenForWrite(t, z), z, n) /\ e \in Devs
  <2>1. AfterWrite(q) = increase_write_ptr(OpenForWrite(t, z), z, n)
    BY <1>1, <1>4, <1>11 DEF AfterWrite, WriteTaken
  <2> QED
    BY <2>1, AfterInv DEF DevInv
<1>17. /\ o \in Devs /\ o.zone = [dev.zone EXCEPT ![z] = y] /\ o.zone[z] = y /\ y.state \in Opened
       /\ y.wp = x.wp /\ y.zrwav = 0
    BY <1>1, <1>3, <1>16 DEF Prepared, Devs
<1>18. Moved(o, e, z, n)
  <2>1. Fielded(o) /\ o.zone \in [Zones -> ZoneDescs]
    BY <1>17, DevFielded DEF Devs
  <2> QED
    BY <1>12, <1>13, <2>1, AdvanceMoves
<1>19. t \in Devs /\ t.wb = f /\ t.leaked = dev.leaked /\ t.split = s
    BY <1>3, <1>9, <1>10 DEF Made, Devs
<1>20. e.wb = f /\ e.leaked = dev.leaked /\ e.split = s
    BY <1>13, <1>18, <1>19, OpenKeeps DEF Moved, Keeps
<1>21. /\ \A v \in Zones : v # z => e.zone[v] = dev.zone[v]
       /\ e.zone[z].zrwav = 0 /\ e.zone[z].wp = x.wp + n
       /\ e.zone[z].state = IF x.wp + n = zone_to_slba(z) + cfg.size THEN "FULL" ELSE y.state
    BY <1>3, <1>17, <1>18 DEF Moved, Devs
<1>22. zone_to_slba(z + 1) = zone_to_slba(z) + cfg.size
    BY <1>2, Addr
<1>23. \A v \in Zones : f[v] = dev.wb[v] - (IF v = b THEN n ELSE 0)
  <2>1. \A v \in Zones : dev.wb[v] \in Int
    BY <1>3 DEF Devs
  <2>2. dev.wb \in [Zones -> Nat]
    BY <1>3 DEF Devs
  <2>3. ASSUME NEW v \in Zones
        PROVE  f[v] = dev.wb[v] - (IF v = b THEN n ELSE 0)
    <3>1. CASE v = b
      BY <1>7, <2>2, <3>1
    <3>2. CASE v # b
      <4>1. f[v] = dev.wb[v]
        BY <1>7, <2>2, <3>2
      <4> QED
        BY <2>1, <3>2, <4>1
    <3> QED
      BY <3>1, <3>2
  <2> QED
    BY <2>3
<1>24. Written(dev, e, z, n)
  <2>1. dev.split => e.split
    BY <1>6, <1>20
  <2>2. ~ e.split => (dev.zone[z].wp + n) % cfg.page = 0
    BY <1>3, <1>5, <1>6, <1>20
  <2>3. IF e.zone[z].wp = zone_to_slba(z + 1) THEN e.zone[z].state = "FULL" ELSE e.zone[z].state \in Active
    BY <1>17, <1>21, <1>22 DEF Active
  <2>4. \A v \in Zones : e.wb[v] = dev.wb[v] - (IF v = BufOf(z) THEN n ELSE 0)
    BY <1>4, <1>20, <1>23
  <2> QED
    BY <1>3, <1>20, <1>21, <2>1, <2>2, <2>3, <2>4 DEF Written
<1>25. PICK rel \in Seq(Nat) : rel = WriteReleases(q) /\ rel = Releases(z, dev.zone[z].wp, n)
    BY <1>1, <1>2, <1>3, <1>4, <1>5, ReleasesSeq DEF WriteReleases
<1>26. PICK p : p = [pend EXCEPT ![b] = @ \o rel]
    OBVIOUS
<1>27. Ledger(e, p)
  <2>1. dev.zone[z].zrwav = 0 /\ dev.zone[z].state # "FULL" /\ dev.zone[z].wp + n <= zone_to_slba(z + 1)
    BY <1>1, <1>3, <1>5
  <2>2. n >= 1 /\ e \in Devs /\ DevInv(dev) /\ cfg \in Configs /\ pend \in [Zones -> Seq(Nat)]
    BY <1>2, <1>4, <1>12
  <2>3. p = [pend EXCEPT ![BufOf(z)] = @ \o Releases(z, dev.zone[z].wp, n)]
    BY <1>4, <1>25, <1>26
  <2> QED
    BY <1>24, <2>1, <2>2, <2>3, WriteLedger
<1>28. PICK k \in Scheduled(rel) : /\ dev' = Lose(e, b, rel, k)
                                   /\ pend' = [pend EXCEPT ![b] = @ \o SubSeq(rel, 1, k)]
  <2>1. b = BufOf(ZoneOf(q)) /\ rel = WriteReleases(q) /\ e = AfterWrite(q)
    BY <1>1, <1>4, <1>12, <1>25
  <2> QED
    BY <2>1, WriteDone, Zenon
<1>29. Even(e, dev', p, pend', b)
    BY <1>2, <1>12, <1>26, <1>28, LoseEven
<1>30. /\ dev' \in Devs /\ pend' \in [Zones -> Seq(Nat)] /\ p \in [Zones -> Seq(Nat)]
  <2>1. pend[b] \o rel \in Seq(Nat)
    BY <1>2
  <2> QED
    BY <1>2, <1>26, <2>1, NextTypes
<1> QED
    BY <1>2, <1>12, <1>27, <1>29, <1>30, EvenLedger

\* A write that fails keeps the account: the buffer that it took is lost or was
\* never taken.
LEMMA ErrorLedger ==
    ASSUME IInv, IInv', Ledger(dev, pend), NEW q \in SQs, zns_write_error(q)
    PROVE  Ledger(dev', pend')
<1>1. PICK z \in Zones : z = ZoneOf(q) /\ IsWrite(q)
    BY DEF zns_write_error
<1>2. cfg \in Configs /\ DevInv(dev) /\ sq[q].n \in Nat /\ BufOf(z) \in Zones /\ dev \in Devs
      /\ pend \in [Zones -> Seq(Nat)]
    BY <1>1, WriteHead DEF DevInv, IInv
<1>3. PICK b \in Zones, n \in Nat : b = BufOf(z) /\ n = sq[q].n
    BY <1>2
<1>4. dev' = [dev EXCEPT !.wb[b] = @ - n, !.leaked[b] = @ + n] /\ pend' = pend
    BY <1>1, <1>3 DEF zns_write_error
<1>5. PICK w, l : w = [dev.wb EXCEPT ![b] = @ - n] /\ l = [dev.leaked EXCEPT ![b] = @ + n]
    OBVIOUS
<1>6. PICK e \in Devs : e = dev'
    BY NextTypes
<1>7. e = [dev EXCEPT !.wb = w, !.leaked = l]
    BY <1>2, <1>4, <1>5, <1>6 DEF Devs
<1>8. e.wb = w /\ e.leaked = l /\ e.zone = dev.zone /\ e.split = dev.split
    BY <1>2, <1>7 DEF Devs
<1>9. PICK x \in Int, k \in Int : x = dev.wb[b] /\ k = dev.leaked[b] /\ w[b] = x - n /\ l[b] = k + n
  <2>1. dev.wb \in [Zones -> Nat] /\ dev.leaked \in [Zones -> Int]
    BY <1>2 DEF Devs
  <2>2. dev.wb[b] \in Nat /\ dev.leaked[b] \in Int
    BY <2>1
  <2> QED
    BY <1>5, <2>1, <2>2
<1>10. \A y \in Zones : y # b => e.wb[y] = dev.wb[y] /\ e.leaked[y] = dev.leaked[y]
    BY <1>2, <1>5, <1>8 DEF Devs
<1>11. ASSUME NEW s, NEW r, IsSum(s, pend[b]), IsSum(r, pend[b])
       PROVE  Own(e, b, r[Len(pend[b])]) = Own(dev, b, s[Len(pend[b])])
  <2>1. PICK u \in Seq(Nat) : u = pend[b] /\ u \in Seq(Int)
    BY <1>2
  <2>2. IsSum(s, u) /\ IsSum(r, u)
    BY <1>11, <2>1
  <2>7. r[Len(u)] = s[Len(u)] /\ s[Len(u)] \in Int
    BY <2>1, <2>2, SameSum, LastSum
  <2>3. PICK v \in Int : v = s[Len(u)] /\ v = r[Len(u)]
    BY <2>7
  <2>4. Own(e, b, v) = (x - n) + v + (k + n)
    BY <1>8, <1>9 DEF Own
  <2>5. Own(dev, b, v) = x + v + k
    BY <1>9 DEF Own
  <2>6. Own(e, b, v) = Own(dev, b, v)
    BY <2>4, <2>5
  <2> QED
    BY <2>1, <2>3, <2>6
<1>13. Even(dev, e, pend, pend, b)
    BY <1>8, <1>10, <1>11 DEF Even
<1>12. Ledger(e, pend)
    BY <1>2, <1>13, EvenLedger
<1> QED
    BY <1>4, <1>6, <1>12

\* Buffer that comes back at its time is no longer scheduled.
LEMMA BackLedger ==
    ASSUME IInv, IInv', Ledger(dev, pend), NEW b \in Zones, ReleaseBuffer(b)
    PROVE  Ledger(dev', pend')
<1>1. cfg \in Configs /\ dev \in Devs /\ pend \in [Zones -> Seq(Nat)]
    BY DEF IInv, DevInv
<1>2. PICK u \in Seq(Nat) : u = pend[b] /\ u # <<>> /\ u \in Seq(Int)
    BY <1>1 DEF ReleaseBuffer
<1>3. PICK h \in Nat : h = Head(u)
    BY <1>2
<1>4. PICK e \in Devs, p \in [Zones -> Seq(Nat)] : e = dev' /\ p = pend'
    BY NextTypes
<1>5. e = [dev EXCEPT !.wb[b] = @ + h] /\ p = [pend EXCEPT ![b] = Tail(u)]
    BY <1>2, <1>3, <1>4 DEF ReleaseBuffer
<1>6. p[b] = Tail(u) /\ \A y \in Zones : y # b => p[y] = pend[y]
    BY <1>1, <1>5
<1>7. PICK w : w = [dev.wb EXCEPT ![b] = @ + h]
    OBVIOUS
<1>8. e.wb = w /\ e.leaked = dev.leaked /\ e.zone = dev.zone /\ e.split = dev.split
    BY <1>1, <1>5, <1>7 DEF Devs
<1>9. PICK x \in Int, k \in Int : x = dev.wb[b] /\ k = dev.leaked[b] /\ w[b] = x + h
  <2>1. dev.wb \in [Zones -> Nat] /\ dev.wb[b] \in Int /\ dev.leaked[b] \in Int
    BY <1>1 DEF Devs
  <2> QED
    BY <1>7, <2>1
<1>10. \A y \in Zones : y # b => e.wb[y] = dev.wb[y]
    BY <1>1, <1>7, <1>8 DEF Devs
<1>11. ASSUME NEW s, NEW r, IsSum(s, pend[b]), IsSum(r, p[b])
       PROVE  Own(e, b, r[Len(p[b])]) = Own(dev, b, s[Len(pend[b])])
  <2>1. IsSum(s, u) /\ IsSum(r, Tail(u))
    BY <1>2, <1>6, <1>11
  <2>2. r[Len(Tail(u))] = s[Len(u)] - Head(u)
    BY <1>2, <2>1, SumTail
  <2>3. PICK v \in Int : v = s[Len(u)]
    <3>1. s[Len(u)] \in Int
      BY <1>2, <2>1, LastSum
    <3> QED
      BY <3>1
  <2>4. Own(e, b, v - h) = (x + h) + (v - h) + k
    BY <1>8, <1>9 DEF Own
  <2>5. Own(dev, b, v) = x + v + k
    BY <1>9 DEF Own
  <2>6. Own(e, b, v - h) = Own(dev, b, v)
    BY <2>4, <2>5
  <2> QED
    BY <1>2, <1>3, <1>6, <2>2, <2>3, <2>6
<1>13. Even(dev, e, pend, p, b)
    BY <1>6, <1>8, <1>10, <1>11 DEF Even
<1>12. Ledger(e, p)
    BY <1>1, <1>13, EvenLedger
<1> QED
    BY <1>4, <1>12

\* A zone with ZRWA holds no write buffer.
LEMMA ZrwaSettled ==
    ASSUME cfg \in Configs, NEW d \in Devs, NEW e, Keeps(d, e), NEW z \in Zones,
           \A v \in Zones : v # z => e.zone[v] = d.zone[v],
           d.zone[z].zrwav = 1, e.zone[z].zrwav = 1
    PROVE  Settled(d, e, z)
<1>1. Held(d, z) = 0 /\ Held(e, z) = 0
    BY HeldNothing
<1> QED
    BY <1>1 DEF Settled, Keeps

\* A write to a ZRWA keeps the account.
LEMMA ZrwaLedger ==
    ASSUME IInv, IInv', Ledger(dev, pend), NEW q \in SQs, zns_write_zrwa(q)
    PROVE  Ledger(dev', pend')
<1>1. PICK z \in Zones : z = ZoneOf(q) /\ IsWrite(q) /\ dev.zone[z].zrwav = 1
    BY DEF zns_write_zrwa
<1>2. cfg \in Configs /\ dev \in Devs /\ pend \in [Zones -> Seq(Nat)] /\ dev.zone \in [Zones -> ZoneDescs]
      /\ Fielded(dev) /\ Keeps(dev, dev)
    BY DevFielded DEF IInv, DevInv, Devs, Keeps
<1>3. PICK d : d = ZrwaOpened(z)
    OBVIOUS
<1>4. PICK k : k = ImplicitFlush(z, sq[q].slba + sq[q].n - 1)
    OBVIOUS
<1>5. PICK o : o = [d EXCEPT !.zwb[z] = @ - k]
    OBVIOUS
<1>6. PICK m : m = increase_write_ptr(o, z, k)
    OBVIOUS
<1>7. pend' = pend /\ (dev' = dev \/ dev' = d \/ dev' = m)
    BY <1>1, <1>3, <1>4, <1>5, <1>6 DEF zns_write_zrwa
<1>8. Keeps(dev, d) /\ d.zone \in [Zones -> ZoneDescs] /\ d.zone[z].zrwav = 1
      /\ \A v \in Zones : v # z => d.zone[v] = dev.zone[v]
  <2>1. CASE dev.zone[z].state = "CLOSED"
    <3>1. PICK a : a = acquire_zone_resource(dev, "OPEN")
      OBVIOUS
    <3>2. Keeps(dev, a) /\ a.zone = dev.zone
      BY <1>2, <3>1, ResourceKeeps
    <3>3. PICK c : c = change_zone_state(a, z, "OPENED_IMPL")
      OBVIOUS
    <3>4. Keeps(dev, c) /\ c.zone = [dev.zone EXCEPT ![z].state = "OPENED_IMPL"]
      BY <3>2, <3>3, StateKeeps DEF Keeps
    <3>5. d = [c EXCEPT !.zwb[z] = @ - cfg.zrwa]
      BY <1>3, <2>1, <3>1, <3>3 DEF ZrwaOpened
    <3>6. Keeps(dev, d) /\ d.zone = c.zone
      BY <3>4, <3>5 DEF Keeps, Fielded
    <3>7. PICK y \in ZoneDescs : y = [dev.zone[z] EXCEPT !.state = "OPENED_IMPL"] /\ y.zrwav = 1
      <4>1. PICK x \in ZoneDescs : x = dev.zone[z]
        BY <1>2
      <4>2. "OPENED_IMPL" \in States /\ x.zrwav = 1
        BY <1>1, <4>1 DEF States, Active, Opened
      <4>3. PICK y : y = [x EXCEPT !.state = "OPENED_IMPL"]
        OBVIOUS
      <4>4. y \in ZoneDescs /\ y.zrwav = 1
        BY <4>2, <4>3, NewState
      <4> QED
        BY <4>1, <4>3, <4>4
    <3>8. d.zone = [dev.zone EXCEPT ![z] = y]
      BY <1>2, <3>4, <3>6, <3>7
    <3> QED
      BY <1>2, <3>6, <3>7, <3>8
  <2>2. CASE dev.zone[z].state # "CLOSED"
    <3>1. d = dev
      BY <1>3, <2>2 DEF ZrwaOpened
    <3> QED
      BY <1>1, <1>2, <3>1
  <2> QED
    BY <2>1, <2>2
<1>9. Keeps(dev, o) /\ o.zone = d.zone
    BY <1>5, <1>8 DEF Keeps, Fielded
<1>10. Moved(o, m, z, k)
    BY <1>6, <1>8, <1>9, AdvanceMoves DEF Keeps
<1>11. Keeps(dev, m) /\ m.zone[z].zrwav = 1 /\ \A v \in Zones : v # z => m.zone[v] = dev.zone[v]
    BY <1>8, <1>9, <1>10 DEF Moved, Keeps
<1>12. Settled(dev, d, z) /\ Settled(dev, m, z)
    BY <1>1, <1>2, <1>8, <1>11, ZrwaSettled
<1>13. PICK e \in Devs : e = dev'
    BY NextTypes
<1>14. Ledger(e, pend)
  <2>1. CASE e = dev
    BY <2>1
  <2>2. CASE e = d \/ e = m
    BY <1>2, <1>12, <2>2, SettledLedger
  <2> QED
    BY <1>7, <1>13, <2>1, <2>2
<1> QED
    BY <1>7, <1>13, <1>14

-----------------------------------------------------------------------------
(* The account in every reachable state. *)

\* A management command of the host keeps the account.
LEMMA ManageLedger ==
    ASSUME IInv, Ledger(dev, pend), NEW q \in SQs, zns_zmgmt_send(q)
    PROVE  Ledger(dev', pend')
<1>1. PICK c : c = sq[q]
    OBVIOUS
<1>2. c # NoCmd /\ c.op \in {"close", "finish", "open", "reset", "offline", "zflush"}
    BY <1>1 DEF zns_zmgmt_send
<1>3. cfg \in Configs /\ DevInv(dev) /\ CmdInv(c) /\ c \in Cmds /\ pend \in [Zones -> Seq(Nat)]
    BY <1>1, <1>2 DEF IInv, CmdInv
<1>4. PICK slba \in Nat : slba = c.slba
    BY <1>3 DEF Cmds
<1>5. lba_to_zone(slba) \in Zones
    BY <1>2, <1>3, <1>4 DEF CmdInv
<1>6. pend' = pend
      /\ \/ dev' = dev
         \/ dev' = SendToAll(dev, c)
         \/ dev' = zmgmt_send(dev, c, slba)
    BY <1>1, <1>4 DEF zns_zmgmt_send
<1>7. Ledger(SendToAll(dev, c), pend)
    BY <1>3, SendAllLedger
<1>8. Ledger(zmgmt_send(dev, c, slba), pend)
    BY <1>3, <1>5, SendLedger
<1> QED
    BY <1>6, <1>7, <1>8

\* ZRWA buffer that comes back is not write buffer.
LEMMA ZrwaBackLedger ==
    ASSUME IInv, IInv', Ledger(dev, pend), NEW z \in Zones, ReleaseZrwaBuffer(z)
    PROVE  Ledger(dev', pend')
<1>1. cfg \in Configs /\ dev \in Devs /\ pend \in [Zones -> Seq(Nat)]
    BY DEF IInv, DevInv
<1>2. PICK e \in Devs : e = dev'
    BY NextTypes
<1>3. e = [dev EXCEPT !.zwb[z] = @ + Head(zpend[z])] /\ pend' = pend
    BY <1>2 DEF ReleaseZrwaBuffer
<1>4. e.wb = dev.wb /\ e.leaked = dev.leaked /\ e.split = dev.split /\ e.zone = dev.zone
    BY <1>1, <1>3 DEF Devs
<1>5. Held(e, z) = Held(dev, z)
    BY <1>4 DEF Held
<1>6. Settled(dev, e, z)
    BY <1>4, <1>5 DEF Settled
<1>7. Ledger(e, pend)
    BY <1>1, <1>6, SettledLedger
<1> QED
    BY <1>2, <1>3, <1>7

\* The account balances at the start, when the buffers are full.
LEMMA InitLedger ==
    ASSUME Init
    PROVE  Ledger(dev, pend)
<1>1. IInv /\ cfg \in Configs /\ dev \in Devs
    BY InitInv DEF IInv, DevInv
<1> SUFFICES ASSUME NEW b \in {BufOf(z) : z \in Zones}, NEW t, NEW s, TotalHeld(dev, b, t), IsSum(s, pend[b])
             PROVE  Balanced(Own(dev, b, s[Len(pend[b])]) + t, dev.split)
    BY DEF Ledger
<1>2. b \in Zones /\ cfg.wb \in Nat
    BY <1>1, BufIn, CfgFacts
<1>3. dev.wb[b] = cfg.wb /\ dev.leaked[b] = 0 /\ pend[b] = <<>>
    BY <1>2 DEF Init, zns_init_namespace
<1>4. s[Len(pend[b])] = 0
    BY <1>3 DEF IsSum
<1>5. t = 0
  <2>1. \A y \in Zones : HeldBy(dev, b)[y] = 0
    <3> SUFFICES ASSUME NEW y \in Zones
                 PROVE  HeldBy(dev, b)[y] = 0
      OBVIOUS
    <3>1. dev.zone[y].wp = zone_to_slba(y)
      BY DEF Init, zns_init_namespace
    <3>2. Held(dev, y) = 0
      BY <1>1, <3>1, HeldNothing
    <3> QED
      BY <3>2 DEF HeldBy
  <2>2. PICK g : IsFold(g, Zones, HeldBy(dev, b), AnyZone) /\ t = g[Zones]
    BY DEF TotalHeld
  <2>3. PICK f : f = HeldBy(dev, b) /\ \A y \in Zones : f[y] = 0
    BY <2>1
  <2>4. g[Zones] = 0
    BY <2>2, <2>3, ZonesPick, FoldZero
  <2> QED
    BY <2>2, <2>4
<1>6. Own(dev, b, s[Len(pend[b])]) + t = cfg.wb
    BY <1>2, <1>3, <1>4, <1>5 DEF Own
<1> QED
    BY <1>2, <1>6 DEF Balanced

\* Every step keeps the account.
LEMMA NextLedger ==
    ASSUME IInv, IInv', Ledger(dev, pend), [Next]_vars
    PROVE  Ledger(dev, pend)'
<1>1. cfg' = cfg /\ Ledger(dev', pend')
  <2>1. CASE UNCHANGED vars
    BY <2>1 DEF vars
  <2>2. ASSUME NEW q \in SQs, Submit(q)
        PROVE  cfg' = cfg /\ Ledger(dev', pend')
    BY <2>2 DEF Submit
  <2>3. ASSUME NEW q \in SQs, zns_proc_nvme_io_cmd(q)
        PROVE  cfg' = cfg /\ Ledger(dev', pend')
    <3>1. cfg' = cfg
      BY <2>3 DEF zns_proc_nvme_io_cmd
    <3>2. CASE zns_write_refused(q) \/ NoSuchZone(q) \/ zns_read(q)
      BY <3>1, <3>2 DEF zns_write_refused, NoSuchZone, zns_read
    <3>3. CASE zns_write_error(q)
      BY <3>1, <3>3, ErrorLedger
    <3>4. CASE zns_write_done(q)
      BY <3>1, <3>4, DoneLedger
    <3>5. CASE zns_write_zrwa(q)
      BY <3>1, <3>5, ZrwaLedger
    <3>6. CASE zns_zmgmt_send(q)
      BY <3>1, <3>6, ManageLedger
    <3> QED
      BY <2>3, <3>2, <3>3, <3>4, <3>5, <3>6 DEF zns_proc_nvme_io_cmd
  <2>4. ASSUME NEW b \in Zones, ReleaseBuffer(b)
        PROVE  cfg' = cfg /\ Ledger(dev', pend')
    BY <2>4, BackLedger DEF ReleaseBuffer
  <2>5. ASSUME NEW z \in Zones, ReleaseZrwaBuffer(z)
        PROVE  cfg' = cfg /\ Ledger(dev', pend')
    BY <2>5, ZrwaBackLedger DEF ReleaseZrwaBuffer
  <2> QED
    BY <2>1, <2>2, <2>3, <2>4, <2>5 DEF Next
<1> QED
    BY <1>1 DEF Ledger, BufOf, TotalHeld, HeldBy, Held, zone_to_slba, UnitBlocks, Balanced, Own

\* The write buffer is accounted for in every reachable state: nothing of it
\* disappears but what a failed write or a zone that is reset or finished
\* loses, and nothing comes back twice (zns_write, zns_mgmt_send.c).
THEOREM BufferAccounted == Spec => []BufferLedger
<1>1. Init => IInv /\ Ledger(dev, pend)
    BY InitInv, InitLedger
<1>2. IInv /\ Ledger(dev, pend) /\ [Next]_vars => IInv' /\ Ledger(dev, pend)'
    BY NextInv, NextLedger
<1>3. IInv /\ Ledger(dev, pend) => BufferLedger
    BY LedgerBalances
<1> QED
    BY <1>1, <1>2, <1>3, PTL DEF Spec

=============================================================================
