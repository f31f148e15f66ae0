--------------------------- MODULE GpsClockProofs ---------------------------
(***************************************************************************)
(* Proofs about GpsClock: the type invariant for every receiver, and      *)
(* TimecodeCorrect for a reliable one, for every week length, epoch,       *)
(* skew set and time bound that satisfy the assumptions of GpsTime and    *)
(* GpsClock.                                                               *)
(***************************************************************************)
EXTENDS GpsClock, TLAPS

(***************************************************************************)
(* Facts about the arithmetic of the week counter.                         *)
(***************************************************************************)

(* A time splits into a week and the seconds into that week. *)
LEMMA WeekSplit ==
  ASSUME NEW t \in Int
  PROVE  /\ t % WEEKSECS \in 0 .. WEEKSECS - 1
         /\ t \div WEEKSECS \in Int
         /\ (t \div WEEKSECS) * WEEKSECS + (t % WEEKSECS) = t
  BY WeekAssumption

(* A number of seconds less than a week is its own seconds into week. *)
LEMMA ModSmall ==
  ASSUME NEW x \in 0 .. WEEKSECS - 1
  PROVE  x % WEEKSECS = x
  BY WeekAssumption

(* The split is unique. *)
LEMMA WeekSplitUnique ==
  ASSUME NEW w \in Int, NEW s \in 0 .. WEEKSECS - 1
  PROVE  /\ (w * WEEKSECS + s) \div WEEKSECS = w
         /\ (w * WEEKSECS + s) % WEEKSECS = s
  BY WeekAssumption

(***************************************************************************)
(* Type correctness.  TypeOK alone is not inductive: a position message    *)
(* taken in week 0 could give a negative week.  The receiver starts, and   *)
(* stays, at or after week 1.                                              *)
(***************************************************************************)
TypeInv == TypeOK /\ now >= WEEKSECS

LEMMA TypeInvInit == Init => TypeInv
  BY WeekAssumption, EpochAssumption
  DEF Init, TrackerInit, TypeInv, TypeOK, TrackerTypeOK, NoSweek, Results

(* The week a pulse message gives is a natural number. *)
LEMMA ParseTWeekType ==
  ASSUME TypeOK, NEW s \in 0 .. WEEKSECS - 1, gweek # 0 \/ gpos_gweek # 0
  PROVE  /\ gweek = 0 => AnchorWeek(gpos_gweek, gpos_sweek, s) \in Nat
         /\ FollowWeek(s) \in Nat
  BY WeekAssumption DEF TypeOK, TrackerTypeOK, AnchorWeek, FollowWeek

LEMMA TypeInvStep == TypeInv /\ [Next]_vars => TypeInv'
<1> SUFFICES ASSUME TypeInv, [Next]_vars PROVE TypeInv'
  OBVIOUS
<1> USE WeekAssumption, EpochAssumption DEF TypeInv, TypeOK, TrackerTypeOK
<1>1. CASE Pulse
  <2>1. PICK gap \in 1 .. MaxGap, valid, utc \in BOOLEAN :
               /\ now + gap <= MaxTime
               /\ now' = now + gap
               /\ \/ ParseTUnknownWeek
                  \/ \E raw \in PulseSweeks(now' + 1, valid, utc) :
                       ParseT(raw, valid, utc)
    BY <1>1 DEF Pulse
  <2>2. now' \in Nat /\ now' >= WEEKSECS
    BY <2>1, GapAssumption
  <2>3. CASE ParseTUnknownWeek
    BY <2>2, <2>3 DEF ParseTUnknownWeek, Results
  <2>4. ASSUME NEW raw \in PulseSweeks(now' + 1, valid, utc),
               ParseT(raw, valid, utc)
        PROVE  TypeInv'
    <3>1. raw \in Int
      BY <2>2 DEF PulseSweeks
    <3>2. raw % WEEKSECS \in 0 .. WEEKSECS - 1
      BY <3>1, WeekSplit
    <3>3. gweek # 0 \/ gpos_gweek # 0
      BY <2>4 DEF ParseT
    <3>4. gweek' \in Nat
      <4>1. CASE gweek = 0
        <5>1. gweek' = AnchorWeek(gpos_gweek, gpos_sweek, raw % WEEKSECS)
          BY <2>4, <4>1 DEF ParseT
        <5>2. QED
          BY <5>1, <4>1, <3>2, <3>3, ParseTWeekType
      <4>2. CASE gweek # 0
        <5>1. gweek' = FollowWeek(raw % WEEKSECS)
          BY <2>4, <4>2 DEF ParseT
        <5>2. QED
          BY <5>1, <3>2, <3>3, ParseTWeekType
      <4>3. QED
        BY <4>1, <4>2
    <3>5. timecode' \in Nat
      BY <2>4, <3>2, <3>4 DEF ParseT
    <3>6. QED
      BY <2>2, <2>4, <3>2, <3>4, <3>5 DEF ParseT, ParseTResult, Results, NoSweek
  <2>5. QED
    BY <2>1, <2>3, <2>4
<1>2. CASE Gpos
  <2>1. PICK k \in GposSkew :
          LET g == now + 2 + k
          IN  /\ \/ ParseGpos(g \div WEEKSECS, g % WEEKSECS)
                 \/ /\ g \div WEEKSECS >= 1
                    /\ ParseGpos(g \div WEEKSECS - 1, (g % WEEKSECS) + WEEKSECS)
              /\ UNCHANGED now
    BY <1>2 DEF Gpos
  <2> DEFINE g == now + 2 + k
  <2>2. g \in Nat
    BY SkewAssumption
  <2>3. g \div WEEKSECS \in Nat /\ g % WEEKSECS \in 0 .. WEEKSECS - 1
    BY <2>2
  <2>4. ASSUME NEW gw \in Nat, NEW sw \in Nat, ParseGpos(gw, sw)
        PROVE  gpos_gweek' \in Nat /\ gpos_sweek' \in 0 .. WEEKSECS - 1
    BY <2>4, WeekSplit DEF ParseGpos
  <2>5. gpos_gweek' \in Nat /\ gpos_sweek' \in 0 .. WEEKSECS - 1
    BY <2>1, <2>3, <2>4
  <2>6. ASSUME NEW gw, NEW sw, ParseGpos(gw, sw)
        PROVE  gweek' = 0 /\ UNCHANGED <<lastsweek, timecode, tresult>>
    BY <2>6 DEF ParseGpos
  <2>7. QED
    BY <2>1, <2>5, <2>6
<1>3. CASE GposInvalid
  BY <1>3 DEF GposInvalid, ParseGposInvalid
<1>4. CASE Reconfig
  <2>1. lastsweek' \in (0 .. WEEKSECS - 1) \cup {NoSweek}
    BY <1>4 DEF Reconfig, Config
  <2>2. tresult' \in Results
    BY <1>4 DEF Reconfig, Config, Results
  <2>3. QED
    BY <1>4, <2>1, <2>2 DEF Reconfig, Config
<1>5. CASE UNCHANGED vars
  BY <1>5 DEF vars, tvars
<1>6. QED
  BY <1>1, <1>2, <1>3, <1>4, <1>5 DEF Next

(* The state of the tracker always has its type. *)
THEOREM TypeCorrect == Spec => []TypeOK
<1>1. Spec => []TypeInv
  BY TypeInvInit, TypeInvStep, PTL DEF Spec
<1>2. QED
  BY <1>1, PTL DEF TypeInv

(***************************************************************************)
(* The half-week tie-break of javad_parse_t is right: if the anchor (gw,   *)
(* gs) of a position message differs from the time (w, s) of the next      *)
(* edge by a skew k of less than half a week, AnchorWeek recovers w from   *)
(* gw, gs and s alone.                                                     *)
(***************************************************************************)
LEMMA AnchorCorrect ==
  ASSUME NEW gw \in Int, NEW gs \in 0 .. WEEKSECS - 1, NEW t \in Int,
         2 * ((gw * WEEKSECS + gs) - t) < WEEKSECS,
         -2 * ((gw * WEEKSECS + gs) - t) < WEEKSECS
  PROVE  AnchorWeek(gw, gs, t % WEEKSECS) = t \div WEEKSECS
<1> DEFINE w == t \div WEEKSECS
           s == t % WEEKSECS
<1>0. w \in Int /\ s \in 0 .. WEEKSECS - 1 /\ w * WEEKSECS + s = t
  BY WeekSplit
<1> USE WeekAssumption
<1> DEFINE k == (gw * WEEKSECS + gs) - (w * WEEKSECS + s)
<1>1. /\ (gw - w) * WEEKSECS = s - gs + k
      /\ 2 * k < WEEKSECS /\ -2 * k < WEEKSECS
  BY <1>0
<1>2. gw - w \in {-1, 0, 1}
  <2>1. ~(gw - w >= 2)
    <3>1. SUFFICES ASSUME gw - w >= 2 PROVE FALSE
      OBVIOUS
    <3>2. (gw - w) * WEEKSECS >= 2 * WEEKSECS
      BY <3>1
    <3>3. QED
      BY <1>1, <3>2
  <2>2. ~(gw - w <= -2)
    <3>1. SUFFICES ASSUME gw - w <= -2 PROVE FALSE
      OBVIOUS
    <3>2. (gw - w) * WEEKSECS <= -2 * WEEKSECS
      BY <3>1
    <3>3. QED
      BY <1>1, <3>2
  <2>3. QED
    BY <2>1, <2>2
<1>3. SUFFICES AnchorWeek(gw, gs, s) = w
  BY DEF w, s
<1> HIDE DEF w, s, k
<1>4. CASE gw = w
  BY <1>0, <1>1, <1>4 DEF AnchorWeek
<1>5. CASE gw = w + 1
  BY <1>0, <1>1, <1>5 DEF AnchorWeek
<1>6. CASE gw = w - 1
  BY <1>0, <1>1, <1>6 DEF AnchorWeek
<1>7. QED
  BY <1>0, <1>2, <1>4, <1>5, <1>6

(***************************************************************************)
(* For a reliable receiver, IInv is inductive.                             *)
(***************************************************************************)
LEMMA IInvInit == Init => IInv
  BY TypeInvInit DEF Init, TrackerInit, IInv, TypeInv, TimecodeCorrect,
                     WeekTracked, AnchorFresh

(* A pulse message read while the week is known continues it. *)
LEMMA FollowCorrect ==
  ASSUME TypeOK, WeekTracked, gweek # 0,
         NEW s \in Int, s = (now + 2) % WEEKSECS
  PROVE  FollowWeek(s) * WEEKSECS + s = now + 2
<1> USE WeekAssumption DEF TypeOK, TrackerTypeOK, WeekTracked
<1>1. CASE lastsweek = WEEKSECS - 1
  <2>1. now + 2 = (gweek + 1) * WEEKSECS + 0
    BY <1>1
  <2>2. ((gweek + 1) * WEEKSECS + 0) % WEEKSECS = 0
    BY WeekSplitUnique
  <2>3. s = 0
    BY <2>1, <2>2
  <2>4. QED
    BY <1>1, <2>1, <2>3 DEF FollowWeek
<1>2. CASE lastsweek # WEEKSECS - 1
  <2>1. now + 2 = gweek * WEEKSECS + (lastsweek + 1)
       /\ lastsweek + 1 \in 0 .. WEEKSECS - 1
    BY <1>2
  <2>2. (gweek * WEEKSECS + (lastsweek + 1)) % WEEKSECS = lastsweek + 1
    BY <2>1, WeekSplitUnique
  <2>3. s = lastsweek + 1
    BY <2>1, <2>2
  <2>4. QED
    BY <2>1, <2>3 DEF FollowWeek
<1>3. QED
  BY <1>1, <1>2

(* A position message stores its time g as anchor, folded or not. *)
LEMMA GposAnchor ==
  ASSUME NEW g \in Int,
         NEW gw, NEW sw,
         \/ gw = g \div WEEKSECS /\ sw = g % WEEKSECS
         \/ gw = g \div WEEKSECS - 1 /\ sw = (g % WEEKSECS) + WEEKSECS
  PROVE  (gw + sw \div WEEKSECS) * WEEKSECS + (sw % WEEKSECS) = g
<1> USE WeekAssumption
<1>1. g % WEEKSECS \in 0 .. WEEKSECS - 1
      /\ g \div WEEKSECS \in Int
      /\ (g \div WEEKSECS) * WEEKSECS + (g % WEEKSECS) = g
  BY WeekSplit
<1>2. CASE gw = g \div WEEKSECS /\ sw = g % WEEKSECS
  <2>1. sw = 0 * WEEKSECS + (g % WEEKSECS)
    BY <1>1, <1>2
  <2>2. (0 * WEEKSECS + (g % WEEKSECS)) \div WEEKSECS = 0
        /\ (0 * WEEKSECS + (g % WEEKSECS)) % WEEKSECS = g % WEEKSECS
    BY <1>1, WeekSplitUnique
  <2>3. sw \div WEEKSECS = 0 /\ sw % WEEKSECS = g % WEEKSECS
    BY <2>1, <2>2
  <2>4. QED
    BY <1>1, <1>2, <2>3
<1>3. CASE gw = g \div WEEKSECS - 1 /\ sw = (g % WEEKSECS) + WEEKSECS
  <2>1. sw = 1 * WEEKSECS + (g % WEEKSECS)
    BY <1>1, <1>3
  <2>2. (1 * WEEKSECS + (g % WEEKSECS)) \div WEEKSECS = 1
        /\ (1 * WEEKSECS + (g % WEEKSECS)) % WEEKSECS = g % WEEKSECS
    BY <1>1, WeekSplitUnique
  <2>3. sw \div WEEKSECS = 1 /\ sw % WEEKSECS = g % WEEKSECS
    BY <2>1, <2>2
  <2>4. QED
    BY <1>1, <1>3, <2>3
<1>4. QED
  BY <1>2, <1>3

LEMMA IInvStep ==
  ASSUME MaxGap = 1, ~GarbageSweek
  PROVE  IInv /\ [Next]_vars => IInv'
<1> SUFFICES ASSUME IInv, [Next]_vars PROVE IInv'
  OBVIOUS
<1> USE WeekAssumption, EpochAssumption
<1>0. /\ TypeInv'
      /\ now \in Nat /\ now >= WEEKSECS
      /\ gweek \in Nat /\ gpos_gweek \in Nat
      /\ gpos_sweek \in 0 .. WEEKSECS - 1
      /\ now' \in Nat /\ gweek' \in Nat /\ timecode' \in Nat
  BY TypeInvStep DEF IInv, TypeInv, TypeOK, TrackerTypeOK
<1>1. CASE Pulse
  <2>1. PICK valid, utc \in BOOLEAN :
               /\ now' = now + 1
               /\ \/ ParseTUnknownWeek
                  \/ \E raw \in PulseSweeks(now' + 1, valid, utc) :
                       ParseT(raw, valid, utc)
    BY <1>1 DEF Pulse
  <2>2. CASE ParseTUnknownWeek
    BY <1>0, <2>2 DEF ParseTUnknownWeek, IInv, TypeInv, TimecodeCorrect,
                      WeekTracked, AnchorFresh
  <2>3. ASSUME NEW raw \in PulseSweeks(now' + 1, valid, utc),
               ParseT(raw, valid, utc)
        PROVE  IInv'
    <3> DEFINE T == now + 2
               s == T % WEEKSECS
    <3>1. T \in Int /\ now' + 1 = T
      BY <1>0, <2>1
    <3>2. s \in 0 .. WEEKSECS - 1 /\ T \div WEEKSECS \in Int
          /\ (T \div WEEKSECS) * WEEKSECS + s = T
      BY <3>1, WeekSplit
    <3>3. raw % WEEKSECS = s
      <4>1. raw = s
        BY <2>1, <2>3, <3>1 DEF PulseSweeks
      <4>2. s % WEEKSECS = s
        BY <3>2, ModSmall
      <4>3. QED
        BY <4>1, <4>2
    <3>4. /\ lastsweek' = s
          /\ timecode' = GPS_EPOCH + gweek' * WEEKSECS + s
      BY <2>3, <3>3 DEF ParseT
    (* The week the message gives is the week of the next edge. *)
    <3>5. gweek' * WEEKSECS + s = T /\ gweek' # 0
      <4>1. CASE gweek # 0
        <5>1. gweek' = FollowWeek(s)
          BY <2>3, <3>3, <4>1 DEF ParseT
        <5>2. FollowWeek(s) * WEEKSECS + s = T
          BY <1>0, <3>2, <4>1, FollowCorrect DEF IInv, TypeInv
        <5>3. FollowWeek(s) >= gweek
          BY <1>0 DEF FollowWeek
        <5>4. QED
          BY <1>0, <4>1, <5>1, <5>2, <5>3
      <4>2. CASE gweek = 0
        <5>1. gweek' = AnchorWeek(gpos_gweek, gpos_sweek, s)
          BY <2>3, <3>3, <4>2 DEF ParseT
        <5>2. gpos_gweek # 0
          BY <2>3, <4>2 DEF ParseT
        <5>3. PICK k \in GposSkew :
                gpos_gweek * WEEKSECS + gpos_sweek = now + 2 + k
          BY <4>2, <5>2 DEF IInv, AnchorFresh
        <5>4. /\ 2 * ((gpos_gweek * WEEKSECS + gpos_sweek)
                      - ((T \div WEEKSECS) * WEEKSECS + s)) < WEEKSECS
              /\ -2 * ((gpos_gweek * WEEKSECS + gpos_sweek)
                      - ((T \div WEEKSECS) * WEEKSECS + s)) < WEEKSECS
          <6>1. k \in Int /\ 2 * k < WEEKSECS /\ -2 * k < WEEKSECS
            BY SkewAssumption
          <6>2. (gpos_gweek * WEEKSECS + gpos_sweek)
                  - ((T \div WEEKSECS) * WEEKSECS + s) = k
            BY <3>2, <5>3, <6>1
          <6>3. QED
            BY <6>1, <6>2
        <5>5. AnchorWeek(gpos_gweek, gpos_sweek, (now + 2) % WEEKSECS)
                = (now + 2) \div WEEKSECS
          <6>1. /\ 2 * ((gpos_gweek * WEEKSECS + gpos_sweek) - T) < WEEKSECS
                /\ -2 * ((gpos_gweek * WEEKSECS + gpos_sweek) - T) < WEEKSECS
            BY <3>2, <5>4
          <6>2. gpos_gweek \in Int /\ now + 2 \in Int
            BY <1>0
          <6>3. QED
            BY <1>0, <6>1, <6>2, AnchorCorrect, Zenon
        <5>6. T \div WEEKSECS # 0
          <6>1. SUFFICES ASSUME T \div WEEKSECS = 0 PROVE FALSE
            OBVIOUS
          <6>2. s = T
            BY <3>2, <6>1
          <6>3. QED
            BY <1>0, <3>2, <6>2
        <5>7. QED
          BY <3>2, <5>1, <5>5, <5>6
      <4>3. QED
        BY <4>1, <4>2
    <3>6. TimecodeCorrect'
      <4>1. timecode' = GPS_EPOCH + now' + 1
        <5>1. gweek' * WEEKSECS \in Int /\ s \in Int
          BY <1>0, <3>2
        <5>2. timecode' = GPS_EPOCH + (gweek' * WEEKSECS + s)
          BY <3>4, <5>1
        <5>3. QED
          BY <1>0, <2>1, <3>1, <3>5, <5>2
      <4>2. QED
        BY <4>1 DEF TimecodeCorrect
    <3>7. WeekTracked'
      <4>1. gweek' * WEEKSECS + lastsweek' = now' + 1
        <5>1. lastsweek' = s
          BY <3>4
        <5>2. QED
          BY <3>1, <3>5, <5>1
      <4>2. QED
        BY <3>2, <3>4, <4>1 DEF WeekTracked
    <3>8. AnchorFresh'
      BY <3>5 DEF AnchorFresh
    <3>9. QED
      BY <1>0, <3>6, <3>7, <3>8 DEF IInv, TypeInv
  <2>4. QED
    BY <2>1, <2>2, <2>3
<1>2. CASE Gpos
  <2>1. PICK k \in GposSkew :
          LET g == now + 2 + k
          IN  /\ \/ ParseGpos(g \div WEEKSECS, g % WEEKSECS)
                 \/ /\ g \div WEEKSECS >= 1
                    /\ ParseGpos(g \div WEEKSECS - 1, (g % WEEKSECS) + WEEKSECS)
              /\ UNCHANGED now
    BY <1>2 DEF Gpos
  <2> DEFINE g == now + 2 + k
  <2>2. g \in Int
    BY <1>0, SkewAssumption
  <2>3. PICK gw, sw :
          /\ \/ gw = g \div WEEKSECS /\ sw = g % WEEKSECS
             \/ gw = g \div WEEKSECS - 1 /\ sw = (g % WEEKSECS) + WEEKSECS
          /\ ParseGpos(gw, sw)
    BY <2>1
  <2>4. gpos_gweek' * WEEKSECS + gpos_sweek' = now' + 2 + k
    <3>1. (gw + sw \div WEEKSECS) * WEEKSECS + (sw % WEEKSECS) = g
      BY <2>2, <2>3, GposAnchor
    <3>2. QED
      BY <2>1, <2>3, <3>1 DEF ParseGpos
  <2>5. gweek' = 0 /\ UNCHANGED <<lastsweek, timecode, tresult>>
    BY <2>3 DEF ParseGpos
  <2>6. AnchorFresh'
    BY <2>4 DEF AnchorFresh
  <2>7. QED
    BY <1>0, <2>1, <2>5, <2>6 DEF IInv, TypeInv, TimecodeCorrect, WeekTracked
<1>3. CASE GposInvalid
  BY <1>0, <1>3 DEF GposInvalid, ParseGposInvalid, IInv, TypeInv,
                    TimecodeCorrect, WeekTracked, AnchorFresh
<1>4. CASE Reconfig
  BY <1>0, <1>4 DEF Reconfig, Config, IInv, TypeInv, TimecodeCorrect,
                    WeekTracked, AnchorFresh
<1>5. CASE UNCHANGED vars
  BY <1>0, <1>5 DEF vars, tvars, IInv, TypeInv, TimecodeCorrect,
                    WeekTracked, AnchorFresh
<1>6. QED
  BY <1>1, <1>2, <1>3, <1>4, <1>5 DEF Next

(***************************************************************************)
(* With a receiver that loses no pulse message and sends the right         *)
(* seconds into week even in messages it flags invalid, every pulse        *)
(* message javad_parse_t accepts sets timecode to the Unix time of the     *)
(* next PPS edge.                                                          *)
(***************************************************************************)
THEOREM ReliableTimecode ==
  ASSUME MaxGap = 1, ~GarbageSweek
  PROVE  Spec => []TimecodeCorrect
<1>1. Spec => []IInv
  BY IInvInit, IInvStep, PTL DEF Spec
<1>2. QED
  BY <1>1, PTL DEF IInv

=============================================================================
