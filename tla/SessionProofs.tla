--------------------------- MODULE SessionProofs ---------------------------
(***************************************************************************)
(* Proofs that the session releases what it acquires: Released and        *)
(* NoDoubleFree hold for every set of write outcomes.                      *)
(***************************************************************************)
EXTENDS Session, TLAPS

(* The records drv ranges over. *)
DrvRecs ==
  [io : {"closed", "registered"}, inst : {"none", "live"},
   unitptr : {"null", "live", "dangling"}, pps : BOOLEAN,
   flag2 : BOOLEAN, fault : {"none", "double free"}]

(***************************************************************************)
(* The inductive invariant.  Released alone is not inductive: a failed    *)
(* peer must also have pp->unitptr null (so that the javad_shutdown of    *)
(* refclock_unpeer does nothing), and a running peer must hold a live     *)
(* instance that pp->unitptr points to (so that javad_shutdown frees it). *)
(***************************************************************************)
SInv ==
  /\ drv \in DrvRecs
  /\ ppflag2 \in BOOLEAN
  /\ peer \in {"idle", "running", "failed", "removed"}
  /\ peer \in {"idle", "failed", "removed"} =>
        drv.io = "closed" /\ drv.inst = "none" /\ ~drv.pps
  /\ peer = "failed" => drv.unitptr = "null"
  /\ peer = "running" => drv.inst = "live" /\ drv.unitptr = "live"
  /\ drv.fault = "none"

LEMMA SInvInit == Init => SInv
  BY DEF Init, SInv, DrvRecs, NoDriver

(* javad_shutdown of a live instance pointed to by pp->unitptr releases   *)
(* everything; clean_up then clears pp->unitptr.                          *)
LEMMA ShutdownLive ==
  ASSUME NEW d \in DrvRecs, d.inst = "live", d.unitptr = "live"
  PROVE  /\ Shutdown(d) \in DrvRecs
         /\ Shutdown(d).io = "closed" /\ Shutdown(d).inst = "none"
         /\ ~Shutdown(d).pps /\ Shutdown(d).fault = d.fault
         /\ CleanUp(d) \in DrvRecs
         /\ CleanUp(d).io = "closed" /\ CleanUp(d).inst = "none"
         /\ ~CleanUp(d).pps /\ CleanUp(d).unitptr = "null"
         /\ CleanUp(d).fault = d.fault
  BY DEF Shutdown, CleanUp, DrvRecs

LEMMA LiveRec ==
  ASSUME SInv, NEW b \in BOOLEAN, NEW f \in BOOLEAN
  PROVE  /\ [Live(b) EXCEPT !.flag2 = f] \in DrvRecs
         /\ [Live(b) EXCEPT !.flag2 = f].inst = "live"
         /\ [Live(b) EXCEPT !.flag2 = f].unitptr = "live"
         /\ [Live(b) EXCEPT !.flag2 = f].fault = "none"
  BY DEF SInv, Live, NoDriver, DrvRecs

LEMMA SInvStep == SInv /\ [Next]_vars => SInv'
<1> SUFFICES ASSUME SInv, [Next]_vars PROVE SInv'
  OBVIOUS
<1>1. CASE Start
  <2>1. CASE /\ drv' = [NoDriver EXCEPT !.fault = drv.fault]
             /\ peer' = "failed"
    BY <1>1, <2>1 DEF Start, SInv, DrvRecs, NoDriver
  <2>2. CASE /\ drv' = CleanUp(Live(TRUE))
             /\ peer' = "failed"
    <3>1. Live(TRUE) \in DrvRecs /\ Live(TRUE).inst = "live"
          /\ Live(TRUE).unitptr = "live" /\ Live(TRUE).fault = "none"
      BY DEF SInv, Live, NoDriver, DrvRecs
    <3>2. /\ CleanUp(Live(TRUE)) \in DrvRecs
          /\ CleanUp(Live(TRUE)).io = "closed"
          /\ CleanUp(Live(TRUE)).inst = "none"
          /\ ~CleanUp(Live(TRUE)).pps
          /\ CleanUp(Live(TRUE)).unitptr = "null"
          /\ CleanUp(Live(TRUE)).fault = "none"
      BY <3>1, ShutdownLive
    <3>3. ppflag2' = ppflag2 /\ ppflag2 \in BOOLEAN
      BY <1>1 DEF Start, SInv
    <3>4. QED
      BY <2>2, <3>2, <3>3 DEF SInv
  <2>3. ASSUME NEW ppscreated \in BOOLEAN, NEW res \in [1 .. 3 -> WriteOutcomes],
               IF ConfigOk(res)
                 THEN /\ drv' = [Live(ppscreated) EXCEPT !.flag2 = ppflag2]
                      /\ peer' = "running"
                 ELSE /\ drv' = CleanUp([Live(ppscreated) EXCEPT !.flag2 = ppflag2])
                      /\ peer' = "failed"
        PROVE  SInv'
    <3> DEFINE l == [Live(ppscreated) EXCEPT !.flag2 = ppflag2]
    <3>1. ppflag2' = ppflag2 /\ ppflag2 \in BOOLEAN
      BY <1>1 DEF Start, SInv
    <3>2. l \in DrvRecs /\ l.inst = "live" /\ l.unitptr = "live"
          /\ l.fault = "none"
      BY <3>1, LiveRec
    <3> HIDE DEF l
    <3>3. CASE ConfigOk(res)
      BY <2>3, <3>1, <3>2, <3>3 DEF SInv, l
    <3>4. CASE ~ConfigOk(res)
      <4>1. /\ CleanUp(l) \in DrvRecs
            /\ CleanUp(l).io = "closed" /\ CleanUp(l).inst = "none"
            /\ ~CleanUp(l).pps /\ CleanUp(l).unitptr = "null"
            /\ CleanUp(l).fault = "none"
        BY <3>2, ShutdownLive
      <4>2. QED
        BY <2>3, <3>1, <3>4, <4>1 DEF SInv, l
    <3>5. QED
      BY <3>3, <3>4
  <2>4. QED
    BY <1>1, <2>1, <2>2, <2>3 DEF Start
<1>2. ASSUME NEW f2 \in BOOLEAN, Control(f2) PROVE SInv'
  BY <1>2 DEF Control, SInv, DrvRecs
<1>3. CASE Unpeer
  <2>1. CASE peer = "running"
    <3>1. drv \in DrvRecs /\ drv.inst = "live" /\ drv.unitptr = "live"
      BY <2>1 DEF SInv
    <3>2. /\ Shutdown(drv) \in DrvRecs
          /\ Shutdown(drv).io = "closed" /\ Shutdown(drv).inst = "none"
          /\ ~Shutdown(drv).pps /\ Shutdown(drv).fault = drv.fault
      BY <3>1, ShutdownLive
    <3>3. QED
      BY <1>3, <2>1, <3>2 DEF Unpeer, SInv
  <2>2. CASE peer = "failed"
    BY <1>3, <2>2 DEF Unpeer, SInv, Shutdown
  <2>3. QED
    BY <1>3, <2>1, <2>2 DEF Unpeer
<1>4. CASE UNCHANGED vars
  BY <1>4 DEF vars, SInv
<1>5. QED
  BY <1>1, <1>2, <1>3, <1>4 DEF Next

(***************************************************************************)
(* Whichever step of javad_start fails and whatever the writes do, a peer *)
(* that is down holds no line, instance or PPS handle, and javad_shutdown *)
(* never frees an instance twice.                                          *)
(***************************************************************************)
THEOREM SessionReleased == Spec => [](Released /\ NoDoubleFree)
<1>1. Spec => []SInv
  BY SInvInit, SInvStep, PTL DEF Spec
<1>2. SInv => Released /\ NoDoubleFree
  BY DEF SInv, Released, NoDoubleFree
<1>3. QED
  BY <1>1, <1>2, PTL

(***************************************************************************)
(* javad_shutdown never frees an instance that is already freed: neither *)
(* the clean_up of a failed javad_start nor the refclock_unpeer that      *)
(* follows it, whatever the writes and system calls return.               *)
(***************************************************************************)
THEOREM SessionNoDoubleFree == Spec => []NoDoubleFree
BY SessionReleased, PTL
=============================================================================
