------------------------------ MODULE Session ------------------------------
(***************************************************************************)
(* The session of the Javad driver (src/ntpd/refclock_javad.c):           *)
(* javad_start, javad_config with its three javad_send calls,             *)
(* javad_control and javad_shutdown, as ntpd calls them for one peer.     *)
(*                                                                         *)
(* drv is what the driver holds: the serial line (registered with ntpd's  *)
(* I/O loop or closed), the instance (allocated or not), pp->unitptr      *)
(* (null, the live instance, or dangling), the PPS handle, and the FLAG2  *)
(* bit of instance->sloppyclockflag.  fault records a free of what is     *)
(* already freed.                                                          *)
(*                                                                         *)
(* rx is the receiver at the end of the line: the output it sends, its    *)
(* NMEA notime setting, whether its command line holds the start of a     *)
(* command cut short by a short write, and whether a command javad_send   *)
(* reported as written was rejected.  The receiver executes a line ending *)
(* in CR when it is exactly one command, and rejects it otherwise.        *)
(*                                                                         *)
(* peer is ntpd's view: idle, running (javad_start returned 1), failed    *)
(* (it returned 0) or removed (javad_shutdown called).  As ntpd's          *)
(* refclock_unpeer does, a failed start is followed by javad_shutdown.    *)
(* The outcomes of the system calls are chosen by \E: refclock_open,      *)
(* io_addclock, time_pps_create, javad_ppsapi and every write.             *)
(***************************************************************************)
EXTENDS Integers, Sequences

CONSTANTS
  WriteOutcomes  \* results write() may have: "ok", "short", "error"

ASSUME WriteAssumption ==
  WriteOutcomes \subseteq {"ok", "short", "error"} /\ "ok" \in WriteOutcomes

VARIABLES drv, rx, peer, ppflag2

vars == <<drv, rx, peer, ppflag2>>

(* The commands javad_config sends, in order. *)
Commands == <<"dm,/cur/term", "set,/par/nmea/notime,off", "em,,nmea/RMC:1">>

NoDriver ==
  [io |-> "closed", inst |-> "none", unitptr |-> "null", pps |-> FALSE,
   flag2 |-> FALSE, fault |-> "none"]

Init ==
  /\ drv = NoDriver
  /\ rx = [out |-> "unknown", notime |-> "unknown", dirty |-> FALSE,
           lost |-> FALSE]
  /\ peer = "idle"
  /\ ppflag2 \in BOOLEAN

(* What the receiver does with a command line. *)
Execute(r, cmd) ==
  IF cmd = Commands[1] THEN [r EXCEPT !.out = "none"]
  ELSE IF cmd = Commands[2] THEN [r EXCEPT !.notime = "off"]
  ELSE [r EXCEPT !.out = "rmc"]

(***************************************************************************)
(* javad_send: "<cmd>\r" is written; the receiver gets all of it, the     *)
(* start of it, or nothing.                                                *)
(***************************************************************************)
Send(r, cmd, res) ==
  IF res = "ok"
    THEN IF r.dirty THEN [r EXCEPT !.dirty = FALSE, !.lost = TRUE]
                    ELSE Execute(r, cmd)
  ELSE IF res = "short" THEN [r EXCEPT !.dirty = TRUE]
  ELSE r

(***************************************************************************)
(* javad_config's sends: each one only if the ones before it succeeded.   *)
(* res[i] is the outcome the i-th write would have.                       *)
(***************************************************************************)
ConfigSends(r, res) ==
  LET r1 == Send(r, Commands[1], res[1])
      r2 == IF res[1] = "ok" THEN Send(r1, Commands[2], res[2]) ELSE r1
  IN  IF res[1] = "ok" /\ res[2] = "ok" THEN Send(r2, Commands[3], res[3])
                                        ELSE r2

ConfigOk(res) == \A i \in 1 .. 3 : res[i] = "ok"

(* Mutant: the PPS handle is not destroyed. *)
ShutdownKeepsPps(d) ==
  IF d.unitptr = "null" THEN d
  ELSE IF d.inst = "none"
    THEN [d EXCEPT !.fault = "double free"]
    ELSE [d EXCEPT !.io = "closed", !.inst = "none", !.unitptr = "dangling"]

(***************************************************************************)
(* javad_shutdown: nothing if pp->unitptr is null; else the PPS handle is *)
(* destroyed, the line closed and the instance freed (pp->unitptr is left *)
(* pointing at it).                                                        *)
(***************************************************************************)
Shutdown(d) ==
  IF d.unitptr = "null" THEN d
  ELSE IF d.inst = "none"
    THEN [d EXCEPT !.fault = "double free"]
    ELSE [d EXCEPT !.pps = FALSE, !.io = "closed", !.inst = "none",
                   !.unitptr = "dangling"]

(* Mutant: clean_up leaves pp->unitptr set. *)
CleanUpKeepsUnitptr(d) == Shutdown(d)

(* clean_up in javad_start: javad_shutdown, then pp->unitptr = 0. *)
CleanUp(d) == [Shutdown(d) EXCEPT !.unitptr = "null"]

(* The driver once javad_start has registered the line and set           *)
(* pp->unitptr, with or without a PPS handle.                              *)
Live(ppscreated) ==
  [NoDriver EXCEPT !.io = "registered", !.inst = "live", !.unitptr = "live",
                   !.pps = ppscreated, !.fault = drv.fault]

(***************************************************************************)
(* javad_start, for a new peer (whose pp->unitptr is null).  Its three    *)
(* ways through are disjuncts:                                             *)
(*  - refclock_open or io_addclock fails: the line is closed and the      *)
(*    instance freed on the spot;                                          *)
(*  - time_pps_create succeeds and javad_ppsapi fails: clean_up;           *)
(*  - javad_config runs (with or without a PPS handle): 1 if all its      *)
(*    writes succeed, clean_up otherwise.                                  *)
(***************************************************************************)
Start ==
  /\ peer \in {"idle", "removed"}
  /\ \/ /\ drv' = [NoDriver EXCEPT !.fault = drv.fault]
        /\ peer' = "failed"
        /\ UNCHANGED rx
     \/ /\ drv' = CleanUp(Live(TRUE))
        /\ peer' = "failed"
        /\ UNCHANGED rx
     \/ \E ppscreated \in BOOLEAN, res \in [1 .. 3 -> WriteOutcomes] :
          /\ rx' = ConfigSends(rx, res)
          /\ IF ConfigOk(res)
               THEN /\ drv' = [Live(ppscreated) EXCEPT !.flag2 = ppflag2]
                    /\ peer' = "running"
               ELSE /\ drv' = CleanUp([Live(ppscreated) EXCEPT !.flag2 = ppflag2])
                    /\ peer' = "failed"
  /\ UNCHANGED ppflag2

(***************************************************************************)
(* javad_control, after the fudge flags were set with FLAG2 = f2: a       *)
(* change of FLAG2 is the mode switch, which calls javad_config and       *)
(* ignores what it returns.  (The limit it computes is read nowhere, and  *)
(* the PPS edge it selects is left to the PPS model.)                     *)
(***************************************************************************)
Control(f2) ==
  /\ peer = "running"
  /\ ppflag2' = f2
  /\ IF f2 # drv.flag2
       THEN \E res \in [1 .. 3 -> WriteOutcomes] :
              /\ rx' = ConfigSends(rx, res)
              /\ drv' = [drv EXCEPT !.flag2 = f2]
       ELSE UNCHANGED <<rx, drv>>
  /\ UNCHANGED peer

(* refclock_unpeer: javad_shutdown is called for a running or failed peer. *)
Unpeer ==
  /\ peer \in {"running", "failed"}
  /\ drv' = Shutdown(drv)
  /\ peer' = "removed"
  /\ UNCHANGED <<rx, ppflag2>>

Next == Start \/ (\E f2 \in BOOLEAN : Control(f2)) \/ Unpeer

Spec == Init /\ [][Next]_vars

-----------------------------------------------------------------------------
(***************************************************************************)
(* Whenever the peer is not running and has been shut down (or never      *)
(* started), the driver holds nothing: the line is closed, the instance   *)
(* freed and the PPS handle destroyed, whichever step of javad_start      *)
(* failed.                                                                 *)
(***************************************************************************)
Released ==
  peer \in {"idle", "removed"} =>
    drv.io = "closed" /\ drv.inst = "none" /\ ~drv.pps

(***************************************************************************)
(* No instance is freed twice, though javad_shutdown runs both in the     *)
(* clean_up of a failed javad_start and in the refclock_unpeer after it.  *)
(***************************************************************************)
NoDoubleFree == drv.fault = "none"

(***************************************************************************)
(* Every command javad_send reports as written is executed by the         *)
(* receiver.                                                               *)
(***************************************************************************)
CommandsTakeEffect == ~rx.lost

(***************************************************************************)
(* While the peer runs, the receiver sends RMC sentences and no NMEA      *)
(* before UTC is known: the configuration of javad_config is in force.    *)
(***************************************************************************)
RunningConfigured ==
  peer = "running" => rx.out = "rmc" /\ rx.notime = "off"
=============================================================================
