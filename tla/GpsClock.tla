------------------------------ MODULE GpsClock ------------------------------
(***************************************************************************)
(* The week tracker of GpsTime driven by a receiver.  The receiver keeps   *)
(* the true time: now is the UTC time, in seconds since the GPS epoch      *)
(* (without leap seconds, as Unix time counts them), of the last PPS edge. *)
(* After each edge it sends a pulse message giving the seconds into the    *)
(* week of the NEXT edge (the code's "This timecode describes next         *)
(* pulse"), and between edges it may send position messages, whose GPS    *)
(* time differs from that of the next edge by a skew (leap seconds, and    *)
(* the early week change the comment in javad_parse_t describes).          *)
(*                                                                         *)
(* The receiver may be made unreliable through two constants: MaxGap > 1   *)
(* lets pulse messages be lost (the edge happens, its message is not       *)
(* read), and GarbageSweek lets a pulse message that is flagged not valid  *)
(* or not UTC-synchronised carry any seconds-into-week value.              *)
(***************************************************************************)
EXTENDS GpsTime

CONSTANTS
  GposSkew,      \* possible differences: position-message time - next edge
  MaxGap,        \* edges between two pulse messages read (1: none lost)
  GarbageSweek,  \* may an invalid pulse message carry any sweek?
  MaxTime        \* bound on now, for model checking

ASSUME SkewAssumption ==
  /\ GposSkew \subseteq Int
  /\ \A k \in GposSkew : 2 * k < WEEKSECS /\ -2 * k < WEEKSECS
ASSUME GapAssumption == MaxGap \in Nat \ {0}
ASSUME GarbageAssumption == GarbageSweek \in BOOLEAN
ASSUME MaxTimeAssumption == MaxTime \in Nat

VARIABLE now

vars == <<tvars, now>>

(* The receiver starts at some second of a week other than week 0, which  *)
(* the driver uses as "unknown".                                           *)
Init ==
  /\ TrackerInit
  /\ now \in WEEKSECS .. 2 * WEEKSECS - 1

(* The raw sweek fields a pulse message about the edge at time t can      *)
(* carry, given its flags.                                                 *)
PulseSweeks(t, valid, utc) ==
  IF GarbageSweek /\ ~(valid /\ utc) THEN 0 .. WEEKSECS - 1
                                     ELSE {t % WEEKSECS}

(* One or more edges happen; the pulse message of the last one is read    *)
(* and handed to javad_parse_t.                                            *)
Pulse ==
  \E gap \in 1 .. MaxGap, valid, utc \in BOOLEAN :
    /\ now + gap <= MaxTime
    /\ now' = now + gap
    /\ \/ ParseTUnknownWeek
       \/ \E raw \in PulseSweeks(now' + 1, valid, utc) : ParseT(raw, valid, utc)

(* A position message with a valid solution at GPS time g, its sweek      *)
(* either folded or carrying one extra week of seconds.                    *)
Gpos ==
  \E k \in GposSkew :
    LET g == now + 2 + k
    IN  /\ \/ ParseGpos(g \div WEEKSECS, g % WEEKSECS)
           \/ /\ g \div WEEKSECS >= 1
              /\ ParseGpos(g \div WEEKSECS - 1, (g % WEEKSECS) + WEEKSECS)
        /\ UNCHANGED now

(* A position message whose solution is not valid. *)
GposInvalid ==
  /\ ParseGposInvalid
  /\ UNCHANGED now

(* The mode switch of javad_control, which calls javad_config. *)
Reconfig ==
  /\ Config
  /\ UNCHANGED now

Next == Pulse \/ Gpos \/ GposInvalid \/ Reconfig

Spec == Init /\ [][Next]_vars

-----------------------------------------------------------------------------
(* Type invariant. *)
TypeOK ==
  /\ TrackerTypeOK
  /\ now \in Nat

(***************************************************************************)
(* A pulse message that javad_parse_t accepted (returned NULL for) has     *)
(* set timecode to the Unix time of the next PPS edge.  This takes the     *)
(* anchoring of the week by a position message with its half-week          *)
(* tie-break, and the natural week rollover, to be right over any          *)
(* sequence of pulse, position and reset events.                           *)
(***************************************************************************)
TimecodeCorrect ==
  tresult = "ok" => timecode = GPS_EPOCH + now + 1

-----------------------------------------------------------------------------
(***************************************************************************)
(* The inductive strengthening of TimecodeCorrect for a reliable receiver  *)
(* (MaxGap = 1, ~GarbageSweek), proved in GpsClockProofs.                  *)
(*                                                                         *)
(* WeekTracked: while the week is known, gweek and lastsweek together are  *)
(* the time of the next edge, so that the next pulse message either        *)
(* continues the week or is its natural rollover.                          *)
(* AnchorFresh: while the week is unknown, a stored position anchor was    *)
(* taken since the last edge, so its skew to the next edge is one of       *)
(* GposSkew and the half-week tie-break resolves it.                       *)
(***************************************************************************)
WeekTracked ==
  gweek # 0 => /\ lastsweek \in 0 .. WEEKSECS - 1
               /\ gweek * WEEKSECS + lastsweek = now + 1

AnchorFresh ==
  gweek = 0 /\ gpos_gweek # 0 =>
    \E k \in GposSkew : gpos_gweek * WEEKSECS + gpos_sweek = now + 2 + k

IInv ==
  /\ TypeOK
  /\ now >= WEEKSECS
  /\ TimecodeCorrect
  /\ WeekTracked
  /\ AnchorFresh
=============================================================================
