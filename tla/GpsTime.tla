------------------------------ MODULE GpsTime ------------------------------
(***************************************************************************)
(* The GPS week tracker of the Javad refclock driver                       *)
(* (src/ntpd/refclock_javad.c): the fields of struct instance that         *)
(* reconstruct an absolute time from a "seconds into GPS week" counter,    *)
(* the reset of those fields in javad_config, and the two message          *)
(* handlers javad_parse_gpos (position message, anchors the week) and      *)
(* javad_parse_t (pulse message, follows the week and computes the         *)
(* timecode of the next pulse).                                            *)
(*                                                                         *)
(* Message fields are parameters of the actions; the module that composes  *)
(* the tracker with a receiver chooses them.  Debug output (javad_debug,   *)
(* gmtime/asctime, the clock billboard) changes no state the driver reads  *)
(* back and is left out.                                                   *)
(***************************************************************************)
EXTENDS Integers

CONSTANTS
  WEEKSECS,   \* One week's worth of seconds (7 * 24 * 60 * 60 in the code)
  GPS_EPOCH   \* Unix timestamp of the GPS epoch (315964800 in the code)

ASSUME WeekAssumption == WEEKSECS \in Nat /\ WEEKSECS >= 2
ASSUME EpochAssumption == GPS_EPOCH \in Nat

VARIABLES
  gpos_gweek,  \* GPS week of the last valid position message (0: none)
  gpos_sweek,  \* seconds into that week
  gweek,       \* current GPS week number (0: unknown)
  lastsweek,   \* last seconds into week; 2 * WEEKSECS means "none yet"
  timecode,    \* time of the next pulse (0: none yet)
  tresult      \* value returned by the last javad_parse_t

tvars == <<gpos_gweek, gpos_sweek, gweek, lastsweek, timecode, tresult>>

(* The value javad_config stores in lastsweek to mean "no value yet". *)
NoSweek == 2 * WEEKSECS

(* Return values of javad_parse_t; "ok" stands for the NULL return, and   *)
(* "none" for no call since the last reset.  The return value of           *)
(* javad_parse_gpos is only logged and is not kept.                        *)
Results == {"none", "ok", "Unknown gweek", "time mark not valid",
            "time mark not sync'ed to UTC"}

(***************************************************************************)
(* javad_config: the unit variables of the tracker are reset.              *)
(***************************************************************************)
TrackerInit ==
  /\ gpos_gweek = 0
  /\ gpos_sweek = 0
  /\ gweek = 0
  /\ lastsweek = NoSweek
  /\ timecode = 0
  /\ tresult = "none"

Config ==
  /\ gpos_gweek' = 0
  /\ gpos_sweek' = 0
  /\ gweek' = 0
  /\ lastsweek' = NoSweek
  /\ timecode' = 0
  /\ tresult' = "none"

(***************************************************************************)
(* The week of a pulse whose seconds-into-week is sweek, derived from the  *)
(* anchor (gw, gs) of a position message: the anchor week, moved by one    *)
(* when the two seconds-into-week are more than half a week apart.         *)
(***************************************************************************)
AnchorWeek(gw, gs, sweek) ==
  CASE gs >= sweek /\ gs - sweek > WEEKSECS \div 2 -> gw + 1
    [] gs <  sweek /\ sweek - gs > WEEKSECS \div 2 -> gw - 1
    [] OTHER                                      -> gw

(* Mutant: the rollover test compares lastsweek with WEEKSECS. *)
FollowWeekOffByOne(sweek) ==
  IF sweek = 0 /\ lastsweek = WEEKSECS THEN gweek + 1 ELSE gweek

(* The week once it is known: incremented on the natural rollover. *)
FollowWeek(sweek) ==
  IF sweek = 0 /\ lastsweek = WEEKSECS - 1 THEN gweek + 1 ELSE gweek

(***************************************************************************)
(* javad_parse_t, called with the raw DS2UI(jp->sweek) and the VALID and   *)
(* UTC bits of jp->flags.                                                  *)
(***************************************************************************)

(* The week is unknown and no position message has anchored it. *)
ParseTUnknownWeek ==
  /\ gweek = 0
  /\ gpos_gweek = 0
  /\ tresult' = "Unknown gweek"
  /\ UNCHANGED <<gpos_gweek, gpos_sweek, gweek, lastsweek, timecode>>

(* The value returned once the state is updated: the flags are checked.   *)
ParseTResult(valid, utc) ==
  IF ~valid THEN "time mark not valid"
  ELSE IF ~utc THEN "time mark not sync'ed to UTC"
  ELSE "ok"

(* The week is known or can be anchored: the state is updated, then the   *)
(* flags are checked.                                                      *)
ParseT(raw, valid, utc) ==
  LET sweek == raw % WEEKSECS
      week  == IF gweek = 0 THEN AnchorWeek(gpos_gweek, gpos_sweek, sweek)
                            ELSE FollowWeek(sweek)
  IN  /\ gweek # 0 \/ gpos_gweek # 0
      /\ gweek' = week
      /\ lastsweek' = sweek
      /\ timecode' = GPS_EPOCH + week * WEEKSECS + sweek
      /\ tresult' = ParseTResult(valid, utc)
      /\ UNCHANGED <<gpos_gweek, gpos_sweek>>

(***************************************************************************)
(* javad_parse_gpos, called with jg->navval, jg->gweek and                 *)
(* DS2UI(jg->sweek).                                                       *)
(***************************************************************************)
ParseGposInvalid ==
  /\ gpos_gweek' = 0
  /\ gpos_sweek' = 0
  /\ UNCHANGED <<gweek, lastsweek, timecode, tresult>>

(* Mutant: the fold of sweek into one week is left out. *)
ParseGposNoFold(gw, sw) ==
  /\ gpos_gweek' = gw
  /\ gpos_sweek' = sw
  /\ gweek' = 0
  /\ UNCHANGED <<lastsweek, timecode, tresult>>

(* The while loop folds sweek into [0, WEEKSECS), carrying into the week. *)
ParseGpos(gw, sw) ==
  /\ gpos_gweek' = gw + sw \div WEEKSECS
  /\ gpos_sweek' = sw % WEEKSECS
  /\ gweek' = 0
  /\ UNCHANGED <<lastsweek, timecode, tresult>>

(***************************************************************************)
(* Type of the tracker's state.                                            *)
(***************************************************************************)
TrackerTypeOK ==
  /\ gpos_gweek \in Nat
  /\ gpos_sweek \in 0 .. WEEKSECS - 1
  /\ gweek \in Nat
  /\ lastsweek \in (0 .. WEEKSECS - 1) \cup {NoSweek}
  /\ timecode \in Nat
  /\ tresult \in Results
=============================================================================
