---------------------------- MODULE FreeSlotsProofs ----------------------------
(***************************************************************************)
(* Proofs about FreeSlots, for any moments, durations and busy periods.    *)
(* The argument: every slot was free when it was offered, and the cursor   *)
(* passes an hour only when it has a reason to.                            *)
(***************************************************************************)
EXTENDS FreeSlots, SequenceTheorems, TLAPS

Types ==
    /\ from \in Int /\ end \in Int /\ duration \in Int /\ cursor \in Int
    /\ zone \in Int /\ offset \in {zone, 0}
    /\ busy \subseteq Int \X Int
    /\ slots \in Seq(Int \X Int) /\ Len(slots) <= 5
    /\ done \in BOOLEAN

\* What is true of a slot from the moment it is offered.
Sound(s) ==
    /\ s[2] = s[1] + duration /\ s[1] < end
    /\ from <= s[1] \/ duration < 0
    /\ \A p \in busy : s[1] >= p[2] \/ s[2] <= p[1]

\* The cursor is behind every slot, and slots do not overlap.
CursorBehind ==
    /\ from <= cursor \/ duration < 0
    /\ \A i \in 1 .. Len(slots) : Sound(slots[i])
    /\ duration > 0 =>
          /\ \A i \in 1 .. Len(slots) : slots[i][2] <= cursor
          /\ \A i, j \in 1 .. Len(slots) : i < j => slots[i][2] <= slots[j][1]

-----------------------------------------------------------------------------
(* Hours and days.                                                         *)

LEMMA UnitsInt == U = 2 /\ Day = 48
BY DEF U, Day

LEMMA Clock ==
  ASSUME NEW t \in Int
  PROVE  /\ t \div Day \in Int /\ t % Day \in 0 .. 47
         /\ t = (t \div Day) * 48 + (t % Day)
<1>1. /\ t \div 48 \in Int /\ t % 48 \in 0 .. 47
      /\ t = (t \div 48) * 48 + (t % 48)
  OBVIOUS
<1>2. QED
  BY <1>1, UnitsInt

\* Nine of the next day is later than what a clock shows.
LEMMA MorningIsLater ==
  ASSUME NEW t \in Int
  PROVE  /\ NineNextDay(t) = (t \div 48) * 48 + 66
         /\ NineNextDay(t) \in Int /\ NineNextDay(t) > t
<1>1. NineNextDay(t) = (t \div Day) * 48 + 66 /\ Day = 48
  BY Clock, UnitsInt DEF NineNextDay
<1>2. QED
  BY <1>1, Clock

LEMMA InitTypes == Init => Types /\ CursorBehind
<1> SUFFICES ASSUME Init PROVE Types /\ CursorBehind
  OBVIOUS
<1>1. PICK now \in Nows, days \in Horizons :
         from = (now \div U + 1) * U /\ end = now + days * Day
  BY DEF Init
<1>2. now \in Int /\ days \in Int
  BY FreeSlotsAssumption
<1>3. from \in Int /\ end \in Int
  <2>1. (now \div 2 + 1) * 2 \in Int /\ now + days * 48 \in Int
    BY <1>2
  <2>2. QED
    BY <1>1, <2>1, UnitsInt
<1>4. duration \in Int /\ busy \subseteq Int \X Int
  BY FreeSlotsAssumption DEF Init
<1>5. slots \in Seq(Int \X Int) /\ Len(slots) = 0
  BY EmptySeq DEF Init
<1>6. cursor \in Int /\ done \in BOOLEAN /\ from <= cursor
  <2>1. cursor = from /\ done = FALSE
    BY DEF Init
  <2>2. cursor \in Int /\ from <= cursor
    BY <1>3, <2>1
  <2>3. QED
    BY <2>1, <2>2
<1>7. Types
  <2>1. Len(slots) <= 5
    BY <1>5
  <2>2. zone \in Int /\ offset = zone
    BY FreeSlotsAssumption DEF Init
  <2>3. QED
    BY <1>3, <1>4, <1>5, <1>6, <2>1, <2>2 DEF Types
<1>8. \A i \in 1 .. Len(slots) : FALSE
  BY <1>5
<1>9. CursorBehind
  BY <1>3, <1>6, <1>8, Zenon DEF CursorBehind
<1>10. QED
  BY <1>7, <1>9

-----------------------------------------------------------------------------
(* The steps.                                                              *)

\* A step moves the cursor on and keeps the slots, or offers the time at the
\* cursor, or ends the search.
LEMMA StepKinds ==
  ASSUME Types, Next
  PROVE  /\ UNCHANGED <<zone, from, end, duration, busy>>
         /\ offset' = offset \/ (offset' = 0 /\ busy # {})
         /\ \/ /\ Searching /\ slots' = slots /\ done' = done
               /\ cursor' \in Int /\ cursor' > cursor
            \/ Offer
            \/ ReturnSlots
<1>1. cursor \in Int /\ offset \in Int /\ busy \subseteq Int \X Int
  BY DEF Types
<1>2. CASE NextHour
  BY <1>1, <1>2 DEF NextHour, Keep, U
<1>3. CASE NextMorning
  <2>1. Wall = cursor + offset /\ Wall \in Int
    BY <1>1 DEF Wall
  <2>2. NineNextDay(Wall) \in Int /\ NineNextDay(Wall) > Wall
    BY <2>1, MorningIsLater
  <2>3. cursor' = NineNextDay(Wall) - offset
    BY <1>3 DEF NextMorning
  <2>4. cursor' \in Int /\ cursor' > cursor
    BY <1>1, <2>1, <2>2, <2>3
  <2>5. QED
    BY <1>3, <2>4 DEF NextMorning, Keep
<1>4. CASE SkipBusy
  <2>1. PICK p \in busy : Overlaps(p) /\ cursor' = p[2]
    BY <1>4 DEF SkipBusy
  <2>2. p[2] \in Int
    BY <1>1
  <2>3. QED
    BY <1>4, <2>1, <2>2 DEF SkipBusy, Overlaps, Keep
<1>5. QED
  BY <1>2, <1>3, <1>4 DEF Next, Offer, ReturnSlots, Keep

LEMMA NextKeepsTypes ==
  ASSUME Types, Next
  PROVE  Types'
<1>1. /\ from \in Int /\ end \in Int /\ duration \in Int /\ cursor \in Int
      /\ busy \subseteq Int \X Int /\ done \in BOOLEAN
      /\ slots \in Seq(Int \X Int) /\ Len(slots) <= 5
  BY DEF Types
<1>2. /\ from' \in Int /\ end' \in Int /\ duration' \in Int
      /\ busy' \subseteq Int \X Int /\ zone' \in Int /\ offset' \in {zone', 0}
  BY <1>1, StepKinds DEF Types
<1>3. CASE slots' = slots /\ done' = done /\ cursor' \in Int
  BY <1>1, <1>2, <1>3 DEF Types
<1>4. CASE Offer
  <2>1. <<cursor, SlotEnd>> \in Int \X Int /\ cursor' \in Int
    BY <1>1, <1>4 DEF Offer, SlotEnd
  <2>2. slots' \in Seq(Int \X Int) /\ Len(slots') = Len(slots) + 1
    BY <1>1, <1>4, <2>1, AppendProperties DEF Offer
  <2>3. Len(slots') <= 5
    <3>1. Len(slots) < 5 /\ Len(slots) \in Nat
      BY <1>1, <1>4, LenProperties DEF Offer, Searching
    <3>2. QED
      BY <2>2, <3>1
  <2>4. done' = done
    BY <1>4 DEF Offer
  <2>5. QED
    BY <1>1, <1>2, <2>1, <2>2, <2>3, <2>4 DEF Types
<1>5. CASE ReturnSlots
  <2>1. slots' = slots /\ cursor' = cursor /\ done' = TRUE
    BY <1>5 DEF ReturnSlots
  <2>2. QED
    BY <1>1, <1>2, <2>1 DEF Types
<1>6. QED
  BY <1>3, <1>4, <1>5, StepKinds

LEMMA NextKeepsCursorBehind ==
  ASSUME Types, CursorBehind, Next
  PROVE  CursorBehind'
<1>1. /\ from \in Int /\ end \in Int /\ duration \in Int /\ cursor \in Int
      /\ busy \subseteq Int \X Int /\ slots \in Seq(Int \X Int)
      /\ Len(slots) \in Nat
  BY LenProperties DEF Types
<1>2. \A i \in 1 .. Len(slots) : slots[i][1] \in Int /\ slots[i][2] \in Int
  BY <1>1, ElementOfSeq
<1>3. UNCHANGED <<zone, from, end, duration, busy>>
  BY StepKinds
<1>4. ASSUME slots' = slots, cursor' \in Int, cursor' >= cursor
      PROVE  CursorBehind'
  <2>1. from <= cursor' \/ duration < 0
    BY <1>1, <1>4 DEF CursorBehind
  <2>2. duration > 0 => \A i \in 1 .. Len(slots) : slots[i][2] <= cursor'
    BY <1>1, <1>2, <1>4 DEF CursorBehind
  <2>3. QED
    BY <1>3, <1>4, <2>1, <2>2 DEF CursorBehind, Sound
<1>5. CASE Offer
  <2> DEFINE new == <<cursor, SlotEnd>>
             n == Len(slots) + 1
  <2>1. /\ new \in Int \X Int /\ new[1] = cursor /\ new[2] = cursor + duration
        /\ cursor' = cursor + duration
    BY <1>1, <1>5 DEF Offer, SlotEnd
  <2>2. /\ Len(slots') = n /\ slots'[n] = new
        /\ \A i \in 1 .. Len(slots) : slots'[i] = slots[i]
    BY <1>1, <1>5, <2>1, AppendProperties DEF Offer
  <2>3. Sound(new)
    <3>1. cursor < end /\ \A p \in busy : ~Overlaps(p)
      BY <1>5 DEF Offer, Searching
    <3>2. \A p \in busy : cursor >= p[2] \/ cursor + duration <= p[1]
      BY <1>1, <3>1 DEF Overlaps, SlotEnd
    <3>3. QED
      BY <2>1, <3>1, <3>2 DEF Sound, CursorBehind
  <2>4. \A i \in 1 .. n : i \in 1 .. Len(slots) \/ i = n
    BY <1>1
  <2>5. (\A i \in 1 .. Len(slots) : Sound(slots[i]))'
    <3>1. \A i \in 1 .. Len(slots) : Sound(slots[i])
      BY DEF CursorBehind
    <3>2. \A i \in 1 .. Len(slots') : Sound(slots'[i])
      BY <2>2, <2>3, <2>4, <3>1
    <3>3. QED
      BY <1>3, <3>2 DEF Sound
  <2>6. from' <= cursor' \/ duration' < 0
    BY <1>1, <1>3, <2>1 DEF CursorBehind
  <2>7. ASSUME duration > 0
        PROVE  /\ \A i \in 1 .. Len(slots') : slots'[i][2] <= cursor'
               /\ \A i, j \in 1 .. Len(slots') : i < j => slots'[i][2] <= slots'[j][1]
    <3>1. \A i \in 1 .. Len(slots) : slots[i][2] <= cursor
      BY <2>7 DEF CursorBehind
    <3>2. ASSUME NEW i \in 1 .. Len(slots')
          PROVE  slots'[i][2] <= cursor'
      <4>1. CASE i \in 1 .. Len(slots)
        BY <1>1, <1>2, <2>1, <2>2, <2>7, <3>1, <4>1
      <4>2. CASE i = n
        BY <1>1, <2>1, <2>2, <4>2
      <4>3. QED
        BY <2>2, <2>4, <4>1, <4>2
    <3>3. ASSUME NEW i \in 1 .. Len(slots'), NEW j \in 1 .. Len(slots'), i < j
          PROVE  slots'[i][2] <= slots'[j][1]
      <4>1. i \in 1 .. Len(slots)
        BY <1>1, <2>2, <3>3
      <4>2. CASE j \in 1 .. Len(slots)
        BY <2>2, <2>7, <3>3, <4>1, <4>2 DEF CursorBehind
      <4>3. CASE j = n
        BY <2>1, <2>2, <3>1, <4>1, <4>3
      <4>4. QED
        BY <2>2, <2>4, <4>2, <4>3
    <3>4. QED
      BY <3>2, <3>3
  <2>8. QED
    BY <1>3, <2>5, <2>6, <2>7 DEF CursorBehind
<1>6. CASE ReturnSlots
  BY <1>1, <1>4, <1>6 DEF ReturnSlots
<1>7. QED
  BY <1>1, <1>4, <1>5, <1>6, StepKinds

IInv == Types /\ CursorBehind

\* The invariant holds for any moments, durations, horizons and periods.
THEOREM Invariance == Spec => []IInv
<1>1. Init => IInv
  BY InitTypes DEF IInv
<1>2. ASSUME IInv, [Next]_vars
      PROVE  IInv'
  <2>1. CASE UNCHANGED vars
    BY <1>2, <2>1 DEF vars, IInv, Types, CursorBehind, Sound
  <2>2. CASE Next
    BY <1>2, <2>2, NextKeepsTypes, NextKeepsCursorBehind DEF IInv
  <2>3. QED
    BY <1>2, <2>1, <2>2
<1>3. QED
  BY <1>1, <1>2, PTL DEF Spec

\* Whatever the calendars report and whatever is asked for, no slot that
\* FindSlot offers touches a busy period or the slot before it.
THEOREM OfferedSlotsAreFree == Spec => []SlotsAreFree
<1>1. ASSUME IInv
      PROVE  SlotsAreFree
  <2>1. slots \in Seq(Int \X Int) /\ busy \subseteq Int \X Int
    BY <1>1 DEF IInv, Types
  <2>2. \A s \in Offered : Sound(s) /\ s \in Int \X Int
    <3>1. \A i \in 1 .. Len(slots) : slots[i] \in Int \X Int
      BY <2>1, ElementOfSeq
    <3>2. \A i \in 1 .. Len(slots) : Sound(slots[i])
      BY <1>1 DEF IInv, CursorBehind
    <3>3. QED
      BY <3>1, <3>2 DEF Offered
  <2>3. ASSUME NEW s \in Offered, NEW t \in s[1] .. s[2] - 1, NEW p \in busy
        PROVE  ~(p[1] <= t /\ t < p[2])
    <3>1. s[1] \in Int /\ s[2] \in Int /\ p[1] \in Int /\ p[2] \in Int
      BY <2>1, <2>2
    <3>2. s[1] >= p[2] \/ s[2] <= p[1]
      BY <2>2 DEF Sound
    <3>3. QED
      BY <3>1, <3>2
  <2>4. \A s \in Offered : (from <= s[1] \/ duration < 0) /\ s[1] < end
    BY <2>2 DEF Sound
  <2>5. \A i, j \in 1 .. Len(slots) :
           i < j /\ duration > 0 => slots[i][2] <= slots[j][1]
    BY <1>1 DEF IInv, CursorBehind
  <2>6. QED
    BY <2>3, <2>4, <2>5 DEF SlotsAreFree
<1>2. QED
  BY <1>1, Invariance, PTL

\* Why the search ends: every step moves the cursor on, of which the window
\* has an end, or adds a slot, of which there are five, or is the last one.
THEOREM EveryStepAdvances ==
  Spec => [][ \/ cursor' > cursor /\ slots' = slots /\ cursor < end
              \/ Len(slots') = Len(slots) + 1 /\ Len(slots') <= 5
              \/ ~done /\ done' ]_vars
<1> DEFINE Advances == \/ cursor' > cursor /\ slots' = slots /\ cursor < end
                       \/ Len(slots') = Len(slots) + 1 /\ Len(slots') <= 5
                       \/ ~done /\ done'
<1>1. ASSUME IInv, IInv', [Next]_vars
      PROVE  [Advances]_vars
  <2>1. CASE Offer
    <3>1. Len(slots') = Len(slots) + 1
      <4>1. slots \in Seq(Int \X Int) /\ <<cursor, SlotEnd>> \in Int \X Int
        BY <1>1 DEF IInv, Types, SlotEnd
      <4>2. QED
        BY <2>1, <4>1, AppendProperties DEF Offer
    <3>2. Len(slots') <= 5
      BY <1>1 DEF IInv, Types
    <3>3. QED
      BY <3>1, <3>2
  <2>2. CASE ReturnSlots
    BY <2>2 DEF ReturnSlots
  <2>3. CASE Searching /\ slots' = slots /\ cursor' > cursor
    BY <2>3 DEF Searching
  <2>4. QED
    BY <1>1, <2>1, <2>2, <2>3, StepKinds DEF IInv
<1>2. QED
  BY <1>1, Invariance, PTL DEF Spec

-----------------------------------------------------------------------------
(* No free hour is passed over.                                            *)

\* The full hours at which the meeting would fit, by every clock in use.
Fits(t) ==
    /\ \A o \in Clocks : FitsIntoTheDay(t + o)
    /\ \A p \in busy : t >= p[2] \/ t + duration <= p[1]

Covered(t) == \E s \in Offered : t < s[2] /\ s[1] < t + duration

FullHour(t) == t \in Int /\ t % U = 0

\* Every full hour before the cursor at which the meeting fits is covered, the
\* cursor stays on the hour, and its clock is one of those by which it fits.
NothingPassed ==
    /\ offset \in Clocks
    /\ OnTheHour =>
          /\ FullHour(from) /\ FullHour(cursor)
          /\ \A t \in Int : from <= t /\ t < cursor /\ FullHour(t) /\ Fits(t) => Covered(t)

\* What ends the search: the window or the fifth slot.
EndsForAReason == done => cursor >= end \/ Len(slots) >= 5

LEMMA HourPassed ==
  ASSUME NEW t \in Int, NEW c \in Int, c <= t, t < c + 2, t % 2 = 0, c % 2 = 0
  PROVE  t = c
OBVIOUS

\* Of a day whose office hours end before the meeting would, the rest fits
\* the meeting no better.
LEMMA TooLateForTheDay ==
  ASSUME NEW c \in Int, NEW d \in Int, d > 0, NEW t \in Int,
         c <= t, t < (c \div 48) * 48 + 66,
         ((c + d) % 48) \div 2 > 18,
         9 <= (t % 48) \div 2
  PROVE  ~((t % 48) + d <= 36)
<1>1. /\ c \div 48 \in Int /\ c % 48 \in 0 .. 47 /\ c = (c \div 48) * 48 + (c % 48)
      /\ t \div 48 \in Int /\ t % 48 \in 0 .. 47 /\ t = (t \div 48) * 48 + (t % 48)
  OBVIOUS
<1>2. t \div 48 = c \div 48
  <2>1. t % 48 >= 18
    OBVIOUS
  <2>2. QED
    BY <1>1, <2>1
<1>3. t % 48 >= c % 48
  BY <1>1, <1>2
<1>4. SUFFICES ASSUME (t % 48) + d <= 36
               PROVE  FALSE
  OBVIOUS
<1>5. (c % 48) + d \in 0 .. 36
  BY <1>1, <1>3, <1>4
<1>6. (c + d) % 48 = (c % 48) + d
  BY <1>1, <1>5
<1>7. QED
  BY <1>5, <1>6

LEMMA InitNothingPassed == Init => NothingPassed /\ EndsForAReason
<1> SUFFICES ASSUME Init PROVE NothingPassed /\ EndsForAReason
  OBVIOUS
<1>1. Types /\ cursor = from /\ done = FALSE
  BY InitTypes DEF Init
<1>2. FullHour(from)
  <2>1. PICK now \in Nows : from = (now \div U + 1) * U
    BY DEF Init
  <2>2. now \in Int
    BY FreeSlotsAssumption
  <2>3. (now \div 2 + 1) * 2 \in Int /\ ((now \div 2 + 1) * 2) % 2 = 0
    BY <2>2
  <2>4. QED
    BY <2>1, <2>3, UnitsInt DEF FullHour
<1>3. \A t \in Int : ~(from <= t /\ t < cursor)
  BY <1>1 DEF Types
<1>4. offset \in Clocks
  BY DEF Init, Clocks
<1>5. QED
  BY <1>1, <1>2, <1>3, <1>4 DEF NothingPassed, EndsForAReason

\* The hours from the cursor to where a step moves it: none that fits is lost.
LEMMA NextPassesNothing ==
  ASSUME Types, Types', OnTheHour, FullHour(cursor), offset \in Clocks, Next,
         NEW t \in Int, cursor <= t, t < cursor', FullHour(t), Fits(t)
  PROVE  Covered(t)'
<1>1. /\ cursor \in Int /\ duration \in Int /\ duration > 0 /\ cursor' \in Int
      /\ busy \subseteq Int \X Int /\ slots \in Seq(Int \X Int)
      /\ offset \in Int /\ FitsIntoTheDay(t + offset)
  BY DEF Types, OnTheHour, Fits
<1>2. CASE NextHour
  <2>1. t < cursor + 2 /\ t % 2 = 0 /\ cursor % 2 = 0
    BY <1>2, UnitsInt DEF NextHour, FullHour
  <2>2. t = cursor
    BY <1>1, <2>1, HourPassed
  <2>3. QED
    BY <1>1, <1>2, <2>2 DEF NextHour, FitsIntoTheDay, Wall
<1>3. CASE NextMorning
  <2> DEFINE c == cursor + offset
             w == t + offset
  <2>1. c \in Int /\ w \in Int /\ c <= w
    BY <1>1
  <2>2. ((c + duration) % 48) \div 2 > 18
    <3>1. SlotEnd + offset = c + duration
      BY <1>1 DEF SlotEnd
    <3>2. QED
      BY <1>3, <3>1, UnitsInt DEF NextMorning, TooLate, Hour
  <2>3. 9 <= (w % 48) \div 2 /\ (w % 48) + duration <= 36
    BY <1>1, UnitsInt DEF FitsIntoTheDay, OfficeHours, Hour
  <2>4. w < (c \div 48) * 48 + 66
    <3>1. cursor' = NineNextDay(c) - offset
      BY <1>3 DEF NextMorning, Wall
    <3>2. NineNextDay(c) = (c \div 48) * 48 + 66 /\ NineNextDay(c) \in Int
      BY <2>1, MorningIsLater
    <3>3. t < NineNextDay(c) - offset /\ w - offset = t
      BY <1>1, <3>1 DEF w
    <3> HIDE DEF c, w
    <3>4. QED
      BY <1>1, <2>1, <3>2, <3>3
  <2> HIDE DEF c, w
  <2>5. QED
    BY <1>1, <2>1, <2>2, <2>3, <2>4, TooLateForTheDay
<1>4. CASE SkipBusy
  <2>1. PICK p \in busy : Overlaps(p) /\ cursor' = p[2]
    BY <1>4 DEF SkipBusy
  <2>2. p[1] \in Int /\ p[2] \in Int
    BY <1>1
  <2>3. t >= p[2] \/ t + duration <= p[1]
    BY DEF Fits
  <2>4. QED
    BY <1>1, <2>1, <2>2, <2>3 DEF Overlaps, SlotEnd
<1>5. CASE Offer
  <2> DEFINE new == <<cursor, SlotEnd>>
             n == Len(slots) + 1
  <2>1. /\ new \in Int \X Int /\ new[1] = cursor /\ new[2] = cursor + duration
        /\ cursor' = cursor + duration
    BY <1>1, <1>5 DEF Offer, SlotEnd
  <2>2. Len(slots') = n /\ slots'[n] = new /\ n \in 1 .. n
    BY <1>1, <1>5, <2>1, AppendProperties, LenProperties DEF Offer
  <2>3. new \in Offered'
    BY <2>2 DEF Offered
  <2>4. t < new[2] /\ new[1] < t + duration'
    BY <1>1, <1>5, <2>1 DEF Offer, Keep
  <2>5. QED
    BY <2>3, <2>4 DEF Covered
<1>6. CASE ReturnSlots
  BY <1>1, <1>6 DEF ReturnSlots
<1>7. QED
  BY <1>2, <1>3, <1>4, <1>5, <1>6 DEF Next

\* The cursor stays on the hour.
LEMMA NextOnTheHour ==
  ASSUME Types, OnTheHour, FullHour(cursor), Next
  PROVE  FullHour(cursor')
<1>1. /\ cursor \in Int /\ duration \in Int /\ busy \subseteq Int \X Int
      /\ cursor % 2 = 0 /\ duration % 2 = 0 /\ offset \in Int /\ offset % 2 = 0
      /\ \A p \in busy : p[2] % 2 = 0
  <2>1. /\ cursor \in Int /\ duration \in Int /\ busy \subseteq Int \X Int
        /\ cursor % 2 = 0 /\ duration % 2 = 0
        /\ \A p \in busy : p[2] % 2 = 0
    BY UnitsInt DEF Types, OnTheHour, FullHour
  <2>2. zone \in Int /\ zone % 2 = 0 /\ offset \in {zone, 0}
    BY UnitsInt DEF Types, OnTheHour
  <2>3. offset \in Int /\ offset % 2 = 0
    BY <2>2
  <2>4. QED
    BY <2>1, <2>3
<1>2. CASE NextHour
  <2>1. (cursor + 2) % 2 = 0 /\ cursor + 2 \in Int
    BY <1>1
  <2>2. QED
    BY <1>2, <2>1, UnitsInt DEF NextHour, FullHour
<1>3. CASE NextMorning
  <2>1. Wall \in Int
    BY <1>1 DEF Wall
  <2>2. NineNextDay(Wall) = (Wall \div 48) * 48 + 66 /\ Wall \div 48 \in Int
    BY <2>1, MorningIsLater
  <2>3. cursor' = NineNextDay(Wall) - offset
    BY <1>3 DEF NextMorning
  <2>4. cursor' \in Int /\ cursor' % 2 = 0
    BY <1>1, <2>2, <2>3
  <2>5. QED
    BY <2>4, UnitsInt DEF FullHour
<1>4. CASE SkipBusy
  <2>1. PICK p \in busy : cursor' = p[2]
    BY <1>4 DEF SkipBusy
  <2>2. QED
    BY <1>1, <2>1, UnitsInt DEF FullHour
<1>5. CASE Offer
  <2>1. (cursor + duration) % 2 = 0 /\ cursor + duration \in Int
    BY <1>1
  <2>2. QED
    BY <1>5, <2>1, UnitsInt DEF Offer, SlotEnd, FullHour
<1>6. CASE ReturnSlots
  BY <1>6 DEF ReturnSlots
<1>7. QED
  BY <1>2, <1>3, <1>4, <1>5, <1>6 DEF Next

LEMMA NextKeepsNothingPassed ==
  ASSUME Types, Types', NothingPassed, Next
  PROVE  NothingPassed'
<1>1. UNCHANGED <<zone, from, end, duration, busy>>
  BY StepKinds
<1>2. from \in Int /\ cursor \in Int /\ cursor' \in Int
  BY DEF Types
<1>3. Offered \subseteq Offered'
  <2>1. slots \in Seq(Int \X Int) /\ Len(slots) \in Nat
    BY LenProperties DEF Types
  <2>2. CASE slots' = slots
    BY <2>2 DEF Offered
  <2>3. CASE Offer
    <3>1. <<cursor, SlotEnd>> \in Int \X Int
      BY DEF Types, SlotEnd
    <3>2. /\ Len(slots') = Len(slots) + 1
          /\ \A i \in 1 .. Len(slots) : slots'[i] = slots[i]
      BY <2>1, <2>3, <3>1, AppendProperties DEF Offer
    <3>3. \A i \in 1 .. Len(slots) : i \in 1 .. Len(slots')
      BY <2>1, <3>2
    <3>4. QED
      BY <3>2, <3>3 DEF Offered
  <2>4. QED
    BY <2>2, <2>3, StepKinds DEF ReturnSlots
<1>4. SUFFICES ASSUME OnTheHour
               PROVE  /\ FullHour(from') /\ FullHour(cursor')
                      /\ \A t \in Int : from <= t /\ t < cursor' /\ FullHour(t) /\ Fits(t)
                                           => Covered(t)'
  <2>1. OnTheHour' <=> OnTheHour
    BY <1>1 DEF OnTheHour
  <2>2. \A t : Fits(t)' <=> Fits(t)
    BY <1>1 DEF Fits, Clocks, FitsIntoTheDay, OfficeHours, Weekend, Hour
  <2>3. (offset \in Clocks)'
    BY <1>1, StepKinds DEF NothingPassed, Clocks
  <2>4. QED
    BY <1>1, <2>1, <2>2, <2>3 DEF NothingPassed, FullHour
<1>5. FullHour(from') /\ FullHour(cursor) /\ offset \in Clocks
  BY <1>1, <1>4 DEF NothingPassed
<1>6. ASSUME NEW t \in Int, from <= t, t < cursor', FullHour(t), Fits(t)
      PROVE  Covered(t)'
  <2>1. CASE t < cursor
    <3>1. Covered(t)
      BY <1>4, <1>6, <2>1 DEF NothingPassed
    <3>2. QED
      BY <1>1, <1>3, <3>1 DEF Covered
  <2>2. CASE ~(t < cursor)
    <3>1. cursor <= t
      BY <1>2, <2>2
    <3>2. QED
      BY <1>4, <1>5, <1>6, <3>1, NextPassesNothing
  <2>3. QED
    BY <2>1, <2>2
<1>7. QED
  BY <1>4, <1>5, <1>6, NextOnTheHour

\* When the calendars, the duration and the zone are whole hours, FindSlot that
\* returns fewer than five slots has missed no hour that is one of the office
\* hours by both the clocks it uses, whatever the zone, calendars and duration.
THEOREM NoHourIsMissed == Spec => []NothingMissed
<1> DEFINE J == IInv /\ NothingPassed /\ EndsForAReason
<1>1. Init => J
  BY InitTypes, InitNothingPassed DEF IInv
<1>2. ASSUME J, [Next]_vars
      PROVE  J'
  <2>1. CASE UNCHANGED vars
    BY <1>2, <2>1 DEF vars, IInv, Types, CursorBehind, Sound, NothingPassed, OnTheHour, Fits,
       Clocks, FitsIntoTheDay, Covered, Offered, OfficeHours, Hour, Weekend, FullHour, EndsForAReason
  <2>2. CASE Next
    <3>1. IInv'
      BY <1>2, <2>2, NextKeepsTypes, NextKeepsCursorBehind DEF IInv
    <3>2. NothingPassed'
      BY <1>2, <2>2, <3>1, NextKeepsNothingPassed DEF IInv
    <3>3. EndsForAReason'
      <4>1. CASE ReturnSlots
        <5>1. ~(cursor < end /\ Len(slots) < 5) /\ UNCHANGED <<cursor, end, slots>>
          BY <4>1 DEF ReturnSlots, Searching, Keep
        <5>2. cursor \in Int /\ end \in Int /\ Len(slots) \in Nat
          BY <1>2, LenProperties DEF IInv, Types
        <5>3. QED
          BY <5>1, <5>2 DEF EndsForAReason
      <4>2. CASE Searching /\ done' = done
        BY <4>2 DEF EndsForAReason, Searching
      <4>3. QED
        BY <1>2, <2>2, <4>1, <4>2, StepKinds DEF IInv, Offer
    <3>4. QED
      BY <3>1, <3>2, <3>3
  <2>3. QED
    BY <1>2, <2>1, <2>2
<1>3. ASSUME J
      PROVE  NothingMissed
  <2> SUFFICES ASSUME done, Len(slots) < 5, OnTheHour,
                      NEW h \in from \div U .. (end - 1) \div U, Fits(h * U)
               PROVE  Covered(h * U)
    BY DEF NothingMissed, Fits, Covered
  <2>1. /\ from \in Int /\ end \in Int /\ cursor \in Int /\ Len(slots) \in Nat
        /\ from % 2 = 0
    BY <1>3, LenProperties, UnitsInt DEF IInv, Types, NothingPassed, FullHour
  <2>2. h \in from \div 2 .. (end - 1) \div 2
    BY UnitsInt
  <2>3. h * 2 \in Int /\ from <= h * 2 /\ h * 2 < end /\ (h * 2) % 2 = 0
    BY <2>1, <2>2
  <2>4. cursor >= end
    BY <1>3, <2>1 DEF EndsForAReason
  <2>5. h * 2 < cursor /\ FullHour(h * 2)
    BY <2>1, <2>3, <2>4, UnitsInt DEF FullHour
  <2>6. QED
    BY <1>3, <2>3, <2>5, UnitsInt DEF NothingPassed
<1>4. QED
  BY <1>1, <1>2, <1>3, PTL DEF Spec

=============================================================================
