--------------------------- MODULE DetectionProofs ---------------------------
(***************************************************************************)
(* The invariants of Detection hold for every measurement period, every    *)
(* threshold, every width of the counters and every clock a peer may have. *)
(***************************************************************************)
EXTENDS Detection, TLAPS

\* What the properties rest on: the clock reads zero only at the very start, a
\* handler that persists has an event to persist, and whatever has been read for
\* or from a record was true once.
Sane ==
  /\ Timestamp >= 0 /\ (Timestamp = 0 => now = 0)
  /\ pc # "idle" => started <= now
  /\ pc = "persist" => stamp > 0
  /\ LastEvent = 0 /\ left = {} => logged = 0
  /\ left # {} => "time" \in left /\ RecordValid(found)

RecordsSane ==
  /\ draft.carry \in Rests /\ draft.time <= wall + maxErr
  /\ args.carry \in Rests /\ args.time <= wall + maxErr
  /\ found.carry \in Rests /\ found.time <= wall + maxErr
  /\ rec.carry \in Rests /\ rec.time <= wall + maxErr

\* StampsPast with what it leaves out: while the record is being put back, an event
\* ahead of the clock is the one the record names.
EventPast ==
  ~turned => LastEvent <= Timestamp \/ (left # {} /\ LastEvent = found.last)

IInv ==
  DetectionTypeOK /\ Sane /\ RecordsSane /\ ChainKept /\ ClockNotAhead /\ EventPast

-----------------------------------------------------------------------------
LEMMA ThousandDivides ==
  ASSUME NEW n \in Nat
  PROVE  n = 1000 * (n \div 1000) + (n % 1000) /\ n % 1000 \in 0..999 /\ n \div 1000 \in Nat
  OBVIOUS

\* The arithmetic of one delta loses nothing but what does not fit.
LEMMA DeltaSplits ==
  ASSUME DetectionAssumption, last \in Nat, carry \in Rests, Timestamp \in Nat
  PROVE  /\ Elapsed \in Nat /\ Delta \in Nat /\ Rest \in Rests
         /\ last # 0 /\ Timestamp >= last => Elapsed = Timestamp - last
         /\ last = 0 => Elapsed = 0
         /\ ~Saturated => 1000 * Delta + Rest = carry + Elapsed
         /\ Saturated => 1000 * Delta + Rest <= carry + Elapsed
<1>1. Elapsed \in Nat
  BY DEF Elapsed
<1>2. Total \in Nat /\ Seconds \in Nat /\ MaxDelta \in Nat
  BY <1>1 DEF Rests, Total, Seconds, DetectionAssumption
<1>3. Total = 1000 * Seconds + (Total % 1000) /\ Total % 1000 \in 0..999
  BY <1>2, ThousandDivides DEF Seconds
<1>4. Total = carry + Elapsed
  BY DEF Total
<1>5. CASE Saturated
  <2>1. Delta = MaxDelta /\ Rest = 999 /\ Seconds >= MaxDelta + 1
    BY <1>2, <1>5 DEF Delta, Rest, Saturated
  <2> QED
    BY <1>1, <1>2, <1>3, <1>4, <1>5, <2>1 DEF Rests, Elapsed
<1>6. CASE ~Saturated
  <2>1. Delta = Seconds /\ Rest = Total % 1000
    BY <1>6 DEF Delta, Rest
  <2> QED
    BY <1>1, <1>2, <1>3, <1>4, <1>6, <2>1 DEF Rests, Elapsed
<1> QED
  BY <1>5, <1>6

\* A crossing is never found at uptime zero.
LEMMA CrossingIsLater ==
  ASSUME DetectionAssumption, written \in BOOLEAN, seen \in Nat, started \in Nat, IsCrossing
  PROVE  started > 0
<1>1. \A i \in Nat \ {0} : GapOf(i) \in Nat /\ GapOf(i) > 0
  BY DEF GapOf
<1>2. Gap \in Nat /\ Gap > 0
  BY <1>1 DEF Gap, DetectionAssumption
<1> QED
  BY <1>2 DEF IsCrossing

\* What an event does to the state, whether or not it is persisted.
LEMMA CrossingKeeps ==
  ASSUME DetectionAssumption, IInv, NEW kept \in BOOLEAN, Crosses(kept),
         UNCHANGED <<clock, cuts, left>>,
         last' \in Nat, LastEvent' = Timestamp
  PROVE  /\ carry' \in Rests /\ valid' \in 0..(Byte - 1) /\ logged' \in Nat
         /\ origin' \in Int /\ {short', back', turned', written'} \subseteq BOOLEAN
         /\ Timestamp > 0
         /\ ChainKept' /\ EventPast'
<1> DEFINE T == Timestamp
<1>1. T \in Nat /\ T > 0 /\ Timestamp' = T
  BY CrossingIsLater DEF IInv, DetectionTypeOK, Sane, Crosses, Timestamp, clock
<1>2. /\ Elapsed \in Nat /\ Delta \in Nat /\ Rest \in Rests
      /\ last # 0 /\ T >= last => Elapsed = T - last
      /\ last = 0 => Elapsed = 0
      /\ ~Saturated => 1000 * Delta + Rest = carry + Elapsed
      /\ Saturated => 1000 * Delta + Rest <= carry + Elapsed
  BY <1>1, DeltaSplits DEF IInv, DetectionTypeOK
<1>3. LastEvent = last /\ last \in Nat /\ logged \in Nat /\ carry \in Rests
      /\ cuts \in Nat /\ cuts' = cuts /\ origin \in Int
  BY DEF IInv, DetectionTypeOK, LastEvent, Crosses
<1>4. valid' \in 0..(Byte - 1)
  BY DEF IInv, DetectionTypeOK, Crosses, Counted, DetectionAssumption
<1>5. Passes \in BOOLEAN /\ Saturated \in BOOLEAN
  BY DEF Passes, Saturated
<1>6. carry' = Rest /\ logged' = logged + Stored(kept) /\ Stored(kept) \in {0, Delta}
  BY DEF Crosses, Stored
<1>7. /\ ~short' => ~short /\ ~Saturated /\ Stored(kept) = Delta
      /\ ~back' => ~back /\ ~(last # 0 /\ Timestamp < last)
  <2>1. /\ ~short' => ~short /\ ~Saturated /\ Passes /\ kept
        /\ ~back' => ~back /\ ~(last # 0 /\ Timestamp < last)
    BY Zenon DEF Crosses
  <2>2. Passes /\ kept => Stored(kept) = Delta
    BY DEF Stored
  <2> QED
    BY <2>1, <2>2, Zenon
<1>8. {short', back', turned', written'} \subseteq BOOLEAN /\ origin' \in Int /\ logged' \in Nat
  <2>1. {short', back', turned', written'} \subseteq BOOLEAN
    BY Zenon DEF Crosses
  <2> QED
    BY <1>1, <1>2, <1>3, <1>5, <1>6, <2>1 DEF Crosses
<1>9. EventPast'
  BY <1>1, LastEvent' = Timestamp DEF EventPast
<1>12. CASE left # {}
  BY <1>1, <1>3, <1>4, <1>6, <1>8, <1>9, <1>12, <1>2 DEF ChainKept
<1>10. CASE last = 0 /\ left = {}
  <2>1. logged = 0 /\ origin' = T - carry
    BY <1>3, <1>10 DEF IInv, Sane, Crosses
  <2>2. Drift' = carry - 1000 * logged' - carry'
    BY <1>1, <1>2, <1>3, <1>6, <2>1 DEF Rests, Drift
  <2>3. (Delta = 0 /\ Rest = carry) \/ Saturated
    <3>1. SUFFICES ASSUME ~Saturated PROVE Delta = 0 /\ Rest = carry
      OBVIOUS
    <3>2. 1000 * Delta + Rest = carry + Elapsed /\ Elapsed = 0
      BY <1>2, <1>10, <3>1
    <3>3. Delta \in Nat /\ Rest \in 0..999 /\ carry \in 0..999
      BY <1>2, <1>3 DEF Rests
    <3> HIDE DEF Delta, Rest, Elapsed
    <3> QED
      BY <3>2, <3>3
  <2>4. ~short' => Drift' = 0
    <3>1. ~short' => Stored(kept) = 0 /\ Rest = carry
      BY <1>6, <1>7, <2>3
    <3>2. ~short' => logged' = 0 /\ carry' = carry
      BY <1>6, <2>1, <3>1
    <3> QED
      BY <1>3, <2>2, <3>2 DEF Rests
  <2>5. Drift' >= 0
    BY <1>2, <1>3, <1>5, <1>6, <1>10, <2>1, <2>2 DEF Rests
  <2>6. 0 <= 999 * cuts'
    BY <1>3
  <2>7. ChainKept'
    BY <2>4, <2>5, <2>6 DEF ChainKept
  <2> QED
    BY <1>1, <1>2, <1>4, <1>6, <1>8, <1>9, <2>7
<1>11. CASE last # 0 /\ left = {}
  <2>1. origin' = origin
    BY <1>11 DEF Crosses
  <2>2. Drift \in Int /\ Drift' \in Int
    BY <1>1, <1>2, <1>3, <1>6, <2>1 DEF Rests, Drift
  <2>3. ~short' => Drift' = Drift + (T - last - Elapsed) /\ ~short
    BY <1>1, <1>2, <1>3, <1>5, <1>6, <1>7, <2>1 DEF Rests, Drift
  <2>4. Drift' >= Drift + (T - last - Elapsed)
    BY <1>1, <1>2, <1>3, <1>5, <1>6, <2>1 DEF Rests, Drift
  <2>5. T - last - Elapsed <= 0
    BY <1>1, <1>2, <1>3, <1>11
  <2>6. ~back' => T - last - Elapsed = 0 /\ ~back
    BY <1>1, <1>2, <1>3, <1>7, <1>11
  <2>7. (~short => Drift <= 999 * cuts) /\ (~back => Drift >= 0)
    BY <1>3, <1>11 DEF IInv, ChainKept
  <2>8. ~short' => Drift' <= 999 * cuts'
    BY <1>1, <1>2, <1>3, <2>2, <2>3, <2>5, <2>7
  <2>9. ~back' => Drift' >= 0
    BY <1>1, <1>2, <1>3, <2>2, <2>4, <2>6, <2>7
  <2>10. ChainKept'
    BY <2>8, <2>9 DEF ChainKept
  <2> QED
    BY <1>1, <1>2, <1>4, <1>6, <1>8, <1>9, <2>10
<1> QED
  BY <1>10, <1>11, <1>12

-----------------------------------------------------------------------------
LEMMA IInvInit == DetectionAssumption /\ Init => IInv
<1> SUFFICES ASSUME DetectionAssumption, Init PROVE IInv
  OBVIOUS
<1>1. NoRec \in Record /\ NoRec.time = 0 /\ NoRec.carry \in Rests
  BY DEF Rests, NoRec, Record, Fields
<1>2. wall \in Nat /\ maxErr = 0 /\ LastEvent = 0 /\ Timestamp = 0
  BY DEF Init, DetectionAssumption, LastEvent, Timestamp
<1>3. DetectionTypeOK
  <2>1. {conn, written, busy, short, back, turned} \subseteq BOOLEAN
    BY Zenon DEF Init
  <2> QED
    BY <1>1, <1>2, <2>1 DEF Rests, Init, DetectionTypeOK, DetectionAssumption
<1>4. Sane /\ ChainKept /\ EventPast
  BY <1>2 DEF Init, Sane, ChainKept, EventPast
<1>5. RecordsSane /\ ClockNotAhead
  <2>1. draft = NoRec /\ args = NoRec /\ found = NoRec /\ rec = NoRec /\ 0 <= wall + maxErr
    BY <1>2 DEF Init
  <2> QED
    BY <1>1, <1>2, <2>1 DEF RecordsSane, ClockNotAhead
<1> QED
  BY <1>3, <1>4, <1>5 DEF IInv

\* Records that are left alone, blanked or passed on stay sane as the clock goes on.
LEMMA RecordsKept ==
  ASSUME DetectionTypeOK, RecordsSane, wall' + maxErr' \in Nat, wall + maxErr <= wall' + maxErr',
         draft' \in {draft, NoRec}, args' \in {args, NoRec}, found' \in {found, rec, NoRec},
         rec' \in {rec, args, draft, NoRec}
  PROVE  RecordsSane'
<1>1. /\ draft.carry \in Rests /\ draft.time \in Int /\ draft.time <= wall + maxErr
      /\ args.carry \in Rests /\ args.time \in Int /\ args.time <= wall + maxErr
      /\ found.carry \in Rests /\ found.time \in Int /\ found.time <= wall + maxErr
      /\ rec.carry \in Rests /\ rec.time \in Int /\ rec.time <= wall + maxErr
  BY DEF DetectionTypeOK, Record, Fields, RecordsSane
<1>2. wall + maxErr \in Nat
  BY DEF DetectionTypeOK
<1>3. NoRec.time = 0 /\ NoRec.carry = 0
  BY DEF NoRec
<1>4. draft'.carry \in Rests /\ draft'.time <= wall' + maxErr'
  BY <1>1, <1>2, <1>3 DEF Rests
<1>5. args'.carry \in Rests /\ args'.time <= wall' + maxErr'
  BY <1>1, <1>2, <1>3 DEF Rests
<1>6. rec'.carry \in Rests /\ rec'.time <= wall' + maxErr'
  BY <1>1, <1>2, <1>3 DEF Rests
<1>7. found'.carry \in Rests /\ found'.time <= wall' + maxErr'
  BY <1>1, <1>2, <1>3 DEF Rests
<1> QED
  BY <1>4, <1>5, <1>6, <1>7, Zenon DEF RecordsSane

LEMMA RecordsFrame ==
  ASSUME RecordsSane, UNCHANGED <<draft, args, found, rec, wall, maxErr>>
  PROVE  RecordsSane'
  BY DEF RecordsSane

\* With sane records, only the clock itself is left to look at.
LEMMA ClockFrame ==
  ASSUME ClockNotAhead, RecordsSane', UNCHANGED <<now, base, wall, maxErr>>
  PROVE  ClockNotAhead'
  BY DEF ClockNotAhead, RecordsSane, Timestamp

LEMMA CounterKeeps ==
  ASSUME DetectionAssumption, IInv,
         CounterStarts \/ Bounces \/ CrossesQuietly \/ CrossesAndPersists \/ PersistReturns
  PROVE  IInv'
<1> USE DEF IInv, clock, booting, filter, handler, watch, chain
<1>1. CASE CounterStarts
  <2>1. DetectionTypeOK'
    BY <1>1 DEF CounterStarts, DetectionTypeOK
  <2>2. Sane'
    BY <1>1 DEF CounterStarts, Sane, DetectionTypeOK, LastEvent, Timestamp
  <2>3. RecordsSane'
    <3>1. UNCHANGED <<draft, args, found, rec, wall, maxErr>>
      BY <1>1 DEF CounterStarts
    <3> QED
      BY <3>1, RecordsFrame
  <2>4. ChainKept'
    BY <1>1 DEF CounterStarts, ChainKept, LastEvent, Drift
  <2>5. ClockNotAhead' /\ EventPast'
    BY <1>1 DEF CounterStarts, ClockNotAhead, EventPast, LastEvent, Timestamp
  <2> QED
    BY <2>1, <2>2, <2>3, <2>4, <2>5
<1>2. CASE Bounces
  <2>1. DetectionTypeOK'
    BY <1>2 DEF Bounces, DetectionAssumption, DetectionTypeOK
  <2>2. Sane'
    BY <1>2 DEF Bounces, Sane, DetectionTypeOK, LastEvent, Timestamp
  <2>3. RecordsSane'
    <3>1. UNCHANGED <<draft, args, found, rec, wall, maxErr>>
      BY <1>2 DEF Bounces
    <3> QED
      BY <3>1, RecordsFrame
  <2>4. ChainKept'
    BY <1>2 DEF Bounces, ChainKept, LastEvent, Drift
  <2>5. ClockNotAhead' /\ EventPast'
    BY <1>2 DEF Bounces, ClockNotAhead, EventPast, LastEvent, Timestamp
  <2> QED
    BY <2>1, <2>2, <2>3, <2>4, <2>5
<1>3. CASE CrossesQuietly
  <2> PICK kept \in BOOLEAN : Crosses(kept)
    BY <1>3 DEF CrossesQuietly
  <2>1. last' = Timestamp /\ pc' = "idle" /\ UNCHANGED <<clock, cuts, left, found>>
    BY <1>3 DEF CrossesQuietly
  <2>2. Timestamp \in Nat
    BY DEF DetectionTypeOK, Sane, Timestamp
  <2>3. LastEvent' = Timestamp /\ last' \in Nat
    BY <2>1, <2>2 DEF LastEvent
  <2>4. /\ carry' \in Rests /\ valid' \in 0..(Byte - 1) /\ logged' \in Nat
        /\ origin' \in Int /\ {short', back', turned', written'} \subseteq BOOLEAN
        /\ Timestamp > 0 /\ ChainKept' /\ EventPast'
    BY <2>1, <2>3, CrossingKeeps
  <2>5. DetectionTypeOK'
    BY <1>3, <2>1, <2>3, <2>4 DEF CrossesQuietly, DetectionTypeOK
  <2>7. RecordsSane' /\ ClockNotAhead'
    <3>1. UNCHANGED <<draft, args, found, rec, now, base, wall, maxErr>>
      BY <1>3 DEF CrossesQuietly
    <3> QED
      BY <3>1, RecordsFrame, ClockFrame
  <2>6. Sane'
    BY <1>3, <2>1, <2>3, <2>4 DEF CrossesQuietly, Sane, Timestamp
  <2> QED
    BY <2>4, <2>5, <2>6, <2>7
<1>4. CASE CrossesAndPersists
  <2> PICK kept \in BOOLEAN : Crosses(kept)
    BY <1>4 DEF CrossesAndPersists
  <2>1. stamp' = Timestamp /\ pc' = "persist" /\ UNCHANGED <<clock, cuts, last, left, found>>
    BY <1>4 DEF CrossesAndPersists
  <2>2. Timestamp \in Nat /\ last \in Nat
    BY DEF DetectionTypeOK, Sane, Timestamp
  <2>3. LastEvent' = Timestamp /\ last' \in Nat
    BY <2>1, <2>2 DEF LastEvent
  <2>4. /\ carry' \in Rests /\ valid' \in 0..(Byte - 1) /\ logged' \in Nat
        /\ origin' \in Int /\ {short', back', turned', written'} \subseteq BOOLEAN
        /\ Timestamp > 0 /\ ChainKept' /\ EventPast'
    BY <2>1, <2>3, CrossingKeeps
  <2>5. Rest \in Rests /\ args' = [time |-> Timestamp, last |-> last, carry |-> Rest]
    BY <1>4, <2>4 DEF CrossesAndPersists, Crosses
  <2>7. args' \in Record
    BY <2>2, <2>5 DEF Rests, Record, Fields
  <2>8. DetectionTypeOK' /\ ClockNotAhead'
    BY <1>4, <2>1, <2>2, <2>3, <2>4, <2>7 DEF CrossesAndPersists, DetectionTypeOK,
       ClockNotAhead, Timestamp
  <2>9. RecordsSane'
    <3>1. UNCHANGED <<draft, found, rec, wall, maxErr>>
      BY <1>4 DEF CrossesAndPersists
    <3>2. args'.time = Timestamp /\ args'.carry \in Rests
      BY <2>5
    <3>3. Timestamp <= wall + maxErr
      BY DEF ClockNotAhead
    <3>4. args'.carry \in Rests /\ args'.time <= wall' + maxErr'
      BY <3>1, <3>2, <3>3
    <3> QED
      BY <3>1, <3>4 DEF RecordsSane
  <2>10. Sane'
    <3>1. Timestamp' = Timestamp /\ UNCHANGED <<now, started>> /\ pc = "i2c"
      BY <1>4, <2>1 DEF CrossesAndPersists, Crosses, Timestamp
    <3> QED
      BY <2>1, <2>2, <2>3, <2>4, <3>1 DEF Sane
  <2> QED
    BY <2>4, <2>8, <2>9, <2>10
<1>5. CASE PersistReturns
  <2>1. LastEvent' = LastEvent /\ LastEvent > 0
    BY <1>5 DEF PersistReturns, LastEvent, Sane
  <2>2. Drift' = Drift /\ Timestamp' = Timestamp
    BY <1>5, <2>1 DEF PersistReturns, Drift, Timestamp
  <2>3. ChainKept' /\ EventPast'
    BY <1>5, <2>1, <2>2 DEF PersistReturns, ChainKept, EventPast
  <2>4. args' = NoRec /\ rec' \in {rec, args} /\ UNCHANGED <<draft, found, now, base, wall, maxErr>>
    BY <1>5 DEF PersistReturns
  <2>5. RecordsSane' /\ ClockNotAhead'
    <3>1. wall + maxErr \in Nat
      BY DEF DetectionTypeOK
    <3> QED
      BY <2>4, <3>1, RecordsKept, ClockFrame
  <2>6. DetectionTypeOK'
    BY <1>5 DEF PersistReturns, DetectionTypeOK, NoRec, Record, Fields
  <2>7. Sane'
    BY <1>5, <2>1, <2>2 DEF PersistReturns, Sane
  <2> QED
    BY <2>3, <2>5, <2>6, <2>7
<1> QED
  BY <1>1, <1>2, <1>3, <1>4, <1>5

LEMMA WatchKeeps ==
  ASSUME DetectionAssumption, IInv,
         WatchStarts \/ (\E f \in Fields : WatchReads(f)) \/ WatchWrites
  PROVE  IInv'
<1> USE DEF IInv, clock, booting, filter, handler, watch, chain
<1>1. /\ UNCHANGED <<now, wall, base, maxErr, main, left, found, last, carry, pc, started, stamp, args, turned>>
      /\ UNCHANGED <<origin, logged, cuts, short, back>>
  BY DEF WatchStarts, WatchReads, WatchWrites
<1>2. Sane' /\ ChainKept' /\ EventPast'
  BY <1>1 DEF Sane, ChainKept, EventPast, Drift, LastEvent, Timestamp
<1>3. CASE WatchStarts
  <2>1. DetectionTypeOK'
    BY <1>3 DEF WatchStarts, DetectionTypeOK
  <2>2. RecordsSane' /\ ClockNotAhead'
    <3>1. UNCHANGED <<draft, rec>>
      BY <1>3 DEF WatchStarts
    <3> QED
      BY <1>1, <3>1, RecordsFrame, ClockFrame
  <2> QED
    BY <1>2, <2>1, <2>2
<1>4. ASSUME NEW f \in Fields, WatchReads(f) PROVE IInv'
  <2>1. draft' = [draft EXCEPT ![f] = Found(f)] /\ UNCHANGED <<args, rec>>
    BY <1>4 DEF WatchReads
  <2>2. Found(f) \in Int
    BY <1>4 DEF Rests, Found, DetectionTypeOK, Timestamp
  <2>3. draft' \in Record
    BY <2>1, <2>2 DEF DetectionTypeOK, Record
  <2>4. draft'.time <= wall + maxErr /\ draft'.carry \in Rests
    <3>1. draft \in [Fields -> Int] /\ draft.time <= wall + maxErr /\ draft.carry \in Rests
      BY DEF RecordsSane, DetectionTypeOK, Record
    <3>2. draft'.time \in {draft.time, Timestamp} /\ draft'.carry \in {draft.carry, carry}
      BY <2>1, <3>1 DEF Found, Fields
    <3>3. Timestamp <= wall + maxErr /\ carry \in Rests
      BY DEF DetectionTypeOK, ClockNotAhead
    <3>4. draft'.time <= wall + maxErr
      BY <3>1, <3>2, <3>3
    <3>5. draft'.carry \in Rests
      BY <3>1, <3>2, <3>3, Zenon
    <3> QED
      BY <3>4, <3>5
  <2> QED
    <3>1. RecordsSane' /\ ClockNotAhead'
      <4>1. RecordsSane'
        <5>1. /\ args'.carry \in Rests /\ args'.time <= wall' + maxErr'
              /\ found'.carry \in Rests /\ found'.time <= wall' + maxErr'
              /\ rec'.carry \in Rests /\ rec'.time <= wall' + maxErr'
          BY <1>1, <2>1 DEF RecordsSane
        <5>2. draft'.carry \in Rests /\ draft'.time <= wall' + maxErr'
          BY <1>1, <2>4
        <5> QED
          BY <5>1, <5>2, Zenon DEF RecordsSane
      <4> QED
        BY <1>1, <4>1, ClockFrame
    <3>2. DetectionTypeOK'
      <4>1. todo' = todo \ {f} /\ UNCHANGED <<writes, conn, valid, seen, written, busy, boots>>
        BY <1>4 DEF WatchReads
      <4> QED
        BY <1>1, <2>1, <2>3, <4>1 DEF DetectionTypeOK
    <3> QED
      BY <1>2, <3>1, <3>2
<1>5. CASE WatchWrites
  <2>1. draft' = NoRec /\ rec' \in {rec, draft} /\ args' = args
    BY <1>5 DEF WatchWrites
  <2>2. NoRec \in Record /\ NoRec.time <= wall + maxErr /\ NoRec.carry \in Rests
    BY DEF Rests, NoRec, Record, Fields, DetectionTypeOK
  <2>3. RecordsSane' /\ ClockNotAhead'
    <3>1. wall + maxErr \in Nat
      BY DEF DetectionTypeOK
    <3> QED
      BY <1>1, <2>1, <3>1, RecordsKept, ClockFrame
  <2>4. DetectionTypeOK'
    <3>1. draft' \in Record /\ args' \in Record /\ rec' \in Record
      BY <2>1, <2>2 DEF DetectionTypeOK
    <3> QED
      <4>1. busy' \in BOOLEAN
        BY <1>5, Zenon DEF WatchWrites
      <4>2. UNCHANGED <<todo, writes, conn, valid, seen, written, boots>>
        BY <1>5 DEF WatchWrites
      <4> QED
        BY <1>1, <3>1, <4>1, <4>2 DEF DetectionTypeOK
  <2> QED
    BY <1>2, <2>3, <2>4
<1> QED
  BY <1>3, <1>4, <1>5

LEMMA PeerKeeps ==
  ASSUME DetectionAssumption, IInv,
         Connect \/ Disconnect \/ (\E e \in Errors : WriteTime(e)) \/ ClearLog \/ Quiet
  PROVE  IInv'
<1> USE DEF IInv, clock, booting, filter, handler, watch, chain
<1>1. CASE Connect
  <2>1. LastEvent' = LastEvent /\ Timestamp' = Timestamp
    BY <1>1 DEF Connect, LastEvent, Timestamp
  <2>2. Drift' = Drift + carry
    BY <1>1, <2>1 DEF Rests, Connect, Drift, LastEvent, DetectionTypeOK
  <2>3. Drift \in Int
    <3>1. {LastEvent, origin, logged, carry} \subseteq Int
      BY DEF Rests, LastEvent, DetectionTypeOK
    <3> QED
      BY <3>1 DEF Drift
  <2>4. ChainKept'
    BY <1>1, <2>1, <2>2, <2>3 DEF Rests, Connect, ChainKept, DetectionTypeOK
  <2>5. Sane' /\ EventPast'
    BY <1>1, <2>1 DEF Connect, Sane, EventPast, Timestamp
  <2>7. RecordsSane' /\ ClockNotAhead'
    <3>1. UNCHANGED <<draft, args, found, rec, now, base, wall, maxErr>>
      BY <1>1 DEF Connect
    <3> QED
      BY <3>1, RecordsFrame, ClockFrame
  <2>6. DetectionTypeOK'
    BY <1>1 DEF Rests, Connect, DetectionTypeOK, DetectionAssumption
  <2> QED
    BY <2>4, <2>5, <2>6, <2>7
<1>2. CASE Disconnect \/ Quiet
  <2>1. DetectionTypeOK'
    <3>1. conn' \in BOOLEAN /\ written' \in BOOLEAN
      BY <1>2, Zenon DEF Disconnect, Quiet, DetectionTypeOK
    <3>2. /\ UNCHANGED <<now, wall, base, maxErr, writes, main, left, found, last, carry, valid, seen, rec>>
          /\ UNCHANGED <<pc, started, stamp, args, todo, draft, busy>>
          /\ UNCHANGED <<origin, logged, cuts, short, back, turned, boots>>
      BY <1>2 DEF Disconnect, Quiet
    <3> QED
      BY <3>1, <3>2 DEF DetectionTypeOK
  <2>2. Sane'
    BY <1>2 DEF Disconnect, Quiet, Sane, DetectionTypeOK, LastEvent, Timestamp
  <2>3. RecordsSane'
    <3>1. UNCHANGED <<draft, args, found, rec, wall, maxErr>>
      BY <1>2 DEF Disconnect, Quiet
    <3> QED
      BY <3>1, RecordsFrame
  <2>4. ChainKept'
    BY <1>2 DEF Disconnect, Quiet, ChainKept, LastEvent, Drift
  <2>5. ClockNotAhead' /\ EventPast'
    BY <1>2 DEF Disconnect, Quiet, ClockNotAhead, EventPast, LastEvent, Timestamp
  <2> QED
    BY <2>1, <2>2, <2>3, <2>4, <2>5
<1>3. ASSUME NEW e \in Errors, WriteTime(e) PROVE IInv'
  <2>1. e \in Int /\ maxErr' \in Nat /\ maxErr' >= e /\ maxErr' >= maxErr
    <3>1. e \in Int
      BY <1>3 DEF DetectionAssumption
    <3>2. maxErr \in Nat
      BY DEF DetectionTypeOK
    <3>3. maxErr' = IF e > maxErr THEN e ELSE maxErr
      BY <1>3 DEF WriteTime
    <3> QED
      BY <3>1, <3>2, <3>3
  <2>2. base' \in Int /\ Timestamp' = wall + e /\ Timestamp' > 0
        /\ wall' = wall /\ now' = now /\ wall \in Nat
    BY <1>3, <2>1 DEF WriteTime, BaseOf, Timestamp, DetectionTypeOK
  <2>3. LastEvent' = LastEvent /\ Drift' = Drift
    BY <1>3 DEF WriteTime, LastEvent, Drift
  <2>4. ChainKept' /\ Sane'
    <3>1. UNCHANGED <<pc, started, stamp, left, found, logged, cuts, short, back, now>>
      BY <1>3 DEF WriteTime
    <3> QED
      <4>1. ChainKept'
        BY <2>3, <3>1 DEF ChainKept
      <4>2. Timestamp' >= 0 /\ Timestamp' # 0
        <5>1. wall + e \in Int /\ wall + e > 0
          BY <2>1, <2>2
        <5>2. \A i \in Int : i > 0 => i >= 0 /\ i # 0
          OBVIOUS
        <5> QED
          BY <2>2, <5>1, <5>2, Zenon
      <4> QED
        BY <2>3, <3>1, <4>1, <4>2 DEF Sane
  <2>5. wall + maxErr <= wall + maxErr' /\ wall' + maxErr' = wall + maxErr'
    <3>1. \A a, b, c \in Nat : b <= c => a + b <= a + c
      OBVIOUS
    <3>2. maxErr \in Nat
      BY DEF DetectionTypeOK
    <3>3. maxErr <= maxErr'
      BY <2>1, <3>2
    <3>4. wall + maxErr <= wall + maxErr'
      BY <2>1, <2>2, <3>1, <3>2, <3>3, Zenon
    <3>5. wall' = wall
      BY <2>2
    <3> QED
      BY <3>4, <3>5
  <2>6. RecordsSane'
    <3>1. UNCHANGED <<draft, args, found, rec>>
      BY <1>3 DEF WriteTime
    <3>2. wall' + maxErr' \in Nat
      <4>1. wall' \in Nat
        BY <2>2
      <4>2. \A a, b \in Nat : a + b \in Nat
        OBVIOUS
      <4> QED
        BY <2>1, <4>1, <4>2, Zenon
    <3> QED
      BY <2>5, <3>1, <3>2, RecordsKept
  <2>7. ClockNotAhead'
    <3>1. wall \in Nat /\ wall' = wall
      BY <2>2 DEF DetectionTypeOK
    <3>2. rec'.time <= wall' + maxErr'
      BY <2>6 DEF RecordsSane
    <3>3. Timestamp' <= wall' + maxErr'
      <4>1. \A a, b \in Nat, c \in Int : c <= b => a + c <= a + b
        OBVIOUS
      <4>2. e <= maxErr'
        BY <2>1
      <4>3. wall + e <= wall + maxErr'
        BY <2>1, <2>2, <4>1, <4>2
      <4> QED
        BY <2>2, <4>3, Zenon
    <3> QED
      BY <3>2, <3>3 DEF ClockNotAhead
  <2>8. DetectionTypeOK'
    BY <1>3, <2>1, <2>2 DEF WriteTime, DetectionTypeOK
  <2>9. EventPast'
    <3>1. SUFFICES ASSUME ~turned', LastEvent <= Timestamp PROVE LastEvent' <= Timestamp'
      BY <1>3, <2>3, Zenon DEF WriteTime, EventPast
    <3>2. ~turned /\ ~(base' < base)
      BY <1>3, <3>1, Zenon DEF WriteTime
    <3>3. Timestamp <= Timestamp' /\ Timestamp \in Int /\ LastEvent \in Int
      <4>1. base' \in Int /\ base \in Int /\ now \in Nat /\ now' = now /\ base <= base'
        BY <2>2, <3>2 DEF DetectionTypeOK
      <4>2. LastEvent \in Int
        BY DEF LastEvent, DetectionTypeOK
      <4>3. Timestamp = base + now /\ Timestamp' = base' + now
        BY <4>1 DEF Timestamp
      <4>4. base + now <= base' + now /\ base + now \in Int
        <5>1. \A a, b \in Int, n \in Nat : a <= b => a + n <= b + n /\ a + n \in Int
          OBVIOUS
        <5> QED
          BY <4>1, <5>1
      <4> QED
        BY <4>2, <4>3, <4>4
    <3>4. LastEvent <= Timestamp /\ LastEvent' = LastEvent /\ Timestamp' \in Int
      BY <2>1, <2>2, <2>3, <3>1, <3>3 DEF DetectionTypeOK
    <3> QED
      BY <3>3, <3>4
  <2> QED
    BY <2>4, <2>6, <2>7, <2>8, <2>9
<1>4. CASE ClearLog
  <2>1. NoRec \in Record /\ NoRec.time <= wall + maxErr /\ NoRec.carry \in Rests
    BY DEF Rests, NoRec, Record, Fields, DetectionTypeOK
  <2>2. rec' = NoRec /\ Timestamp' = Timestamp /\ LastEvent' = LastEvent /\ Drift' = Drift
    BY <1>4 DEF ClearLog, Timestamp, LastEvent, Drift
  <2> QED
    <3>1. DetectionTypeOK' /\ Sane'
      BY <1>4, <2>1, <2>2 DEF ClearLog, DetectionTypeOK, Sane
    <3>2. RecordsSane' /\ ClockNotAhead'
      <4>1. UNCHANGED <<draft, args, found, now, base, wall, maxErr>> /\ wall + maxErr \in Nat
        BY <1>4 DEF ClearLog, DetectionTypeOK
      <4> QED
        BY <2>2, <4>1, RecordsKept, ClockFrame
    <3>3. ChainKept' /\ EventPast'
      BY <1>4, <2>2 DEF ClearLog, ChainKept, EventPast
    <3> QED
      BY <3>1, <3>2, <3>3
<1> QED
  BY <1>1, <1>2, <1>3, <1>4

LEMMA ResetKeeps ==
  ASSUME DetectionAssumption, IInv,
         \E d \in Steps : Tick(d) \/ Reset(d)
  PROVE  IInv'
<1> USE DEF IInv, clock, booting, filter, handler, watch, chain
<1>1. ASSUME NEW d \in Steps, Tick(d) PROVE IInv'
  <2>1. d \in Nat /\ now' = now + d /\ wall' = wall + d /\ now' \in Nat /\ wall' \in Nat
    BY <1>1 DEF Tick, DetectionAssumption, DetectionTypeOK
  <2>2. Timestamp' = Timestamp + d /\ LastEvent' = LastEvent /\ Drift' = Drift
        /\ Timestamp \in Int /\ LastEvent \in Int
    BY <1>1, <2>1 DEF Tick, Timestamp, LastEvent, Drift, DetectionTypeOK
  <2>3. DetectionTypeOK' /\ ChainKept'
    BY <1>1, <2>1, <2>2 DEF Tick, DetectionTypeOK, ChainKept
  <2>4. EventPast'
    BY <1>1, <2>1, <2>2 DEF Tick, EventPast
  <2>5. Sane'
    BY <1>1, <2>1, <2>2 DEF Tick, Sane, DetectionTypeOK
  <2>6. RecordsSane'
    <3>1. UNCHANGED <<draft, args, found, rec, maxErr>>
      BY <1>1 DEF Tick
    <3>2. wall' + maxErr' \in Nat /\ wall + maxErr <= wall' + maxErr'
      BY <2>1, <3>1 DEF DetectionTypeOK
    <3> QED
      BY <3>1, <3>2, RecordsKept
  <2>7. ClockNotAhead'
    <3>1. wall \in Nat /\ maxErr \in Nat /\ maxErr' = maxErr
      BY <1>1 DEF Tick, DetectionTypeOK
    <3>2. rec'.time <= wall' + maxErr' /\ Timestamp <= wall + maxErr
      BY <2>6 DEF RecordsSane, ClockNotAhead
    <3> QED
      BY <2>1, <2>2, <3>1, <3>2 DEF ClockNotAhead
  <2> QED
    BY <2>3, <2>4, <2>5, <2>6, <2>7
<1>2. ASSUME NEW d \in Steps, Reset(d) PROVE IInv'
  <2>1. d \in Nat /\ wall' = wall + d /\ wall' \in Nat /\ maxErr' = maxErr /\ rec' = rec
    BY <1>2 DEF Reset, DetectionAssumption, DetectionTypeOK
  <2>2. Timestamp' = 0 /\ LastEvent' = 0
    BY <1>2 DEF Reset, Timestamp, LastEvent
  <2>3. NoRec \in Record /\ NoRec.time = 0 /\ NoRec.carry \in Rests
    BY DEF Rests, NoRec, Record, Fields
  <2>4. DetectionTypeOK'
    <3>1. {conn', written', busy', short', back', turned'} \subseteq BOOLEAN
      BY <1>2, Zenon DEF Reset
    <3>2. {draft', args', found', rec'} \subseteq Record /\ valid' \in 0..(Byte - 1)
      BY <1>2, <2>3 DEF Reset, DetectionTypeOK, DetectionAssumption
    <3>3. {boots', writes', maxErr'} \subseteq Nat
      BY <1>2 DEF Reset, DetectionTypeOK
    <3> QED
      BY <1>2, <2>1, <3>1, <3>2, <3>3 DEF Rests, Reset, DetectionTypeOK
  <2>5. ChainKept' /\ EventPast' /\ Sane'
    BY <1>2, <2>2 DEF Reset, ChainKept, EventPast, Sane
  <2>6. wall' + maxErr' \in Nat /\ wall + maxErr <= wall' + maxErr'
    BY <2>1 DEF DetectionTypeOK
  <2>7. RecordsSane'
    <3>1. draft' = NoRec /\ args' = NoRec /\ found' = NoRec
      BY <1>2 DEF Reset
    <3> QED
      BY <2>1, <2>6, <3>1, RecordsKept
  <2>8. ClockNotAhead'
    <3>1. rec'.time <= wall' + maxErr'
      BY <2>7 DEF RecordsSane
    <3> QED
      BY <2>2, <2>6, <3>1 DEF ClockNotAhead
  <2> QED
    BY <2>4, <2>5, <2>7, <2>8
<1> QED
  BY <1>1, <1>2

\* The steps of main() until its works run: only the last one moves the clock.
LEMMA BootKeeps ==
  ASSUME DetectionAssumption, IInv,
         \/ BootMounts \/ BootFinds \/ BootFresh
         \/ (\E f \in Fields : BootRestores(f)) \/ BootSeedsClock
  PROVE  IInv'
<1> USE DEF IInv, clock, booting, filter, handler, watch, chain
<1>1. CASE BootMounts \/ BootFresh
  <2>1. /\ UNCHANGED <<now, wall, base, maxErr, writes, conn, left, found, last, carry>>
        /\ UNCHANGED <<valid, seen, written, pc, started, stamp, args, todo, draft, busy, rec>>
        /\ UNCHANGED <<origin, logged, cuts, short, back, turned, boots>>
        /\ main' \in {"mounted", "runs"}
    BY <1>1 DEF BootMounts, BootFresh
  <2>2. DetectionTypeOK'
    BY <2>1 DEF DetectionTypeOK
  <2>3. Sane' /\ ChainKept' /\ EventPast' /\ ClockNotAhead'
    BY <2>1 DEF Sane, ChainKept, EventPast, ClockNotAhead, LastEvent, Timestamp, Drift
  <2>4. RecordsSane'
    BY <2>1, RecordsFrame
  <2> QED
    BY <2>2, <2>3, <2>4
<1>2. CASE BootFinds
  <2>1. /\ UNCHANGED <<now, wall, base, maxErr, writes, conn, main, last, carry>>
        /\ UNCHANGED <<valid, seen, written, pc, started, stamp, args, todo, draft, busy, rec>>
        /\ UNCHANGED <<origin, logged, cuts, short, back, turned, boots>>
        /\ left = {} /\ left' = Fields /\ found' = rec /\ RecordValid(rec)
    BY <1>2 DEF BootFinds
  <2>2. DetectionTypeOK'
    BY <2>1 DEF DetectionTypeOK
  <2>3. left' # {}
    BY <2>1 DEF Fields
  <2>4. LastEvent' = LastEvent /\ Timestamp' = Timestamp
    BY <2>1 DEF LastEvent, Timestamp
  <2>5. Sane' /\ ChainKept'
    BY <2>1, <2>3, <2>4 DEF Sane, ChainKept, Fields
  <2>6. EventPast' /\ ClockNotAhead'
    BY <2>1, <2>4 DEF EventPast, ClockNotAhead
  <2>7. RecordsSane'
    <3>1. wall + maxErr \in Nat
      BY DEF DetectionTypeOK
    <3> QED
      BY <2>1, <3>1, RecordsKept
  <2> QED
    BY <2>2, <2>5, <2>6, <2>7
<1>3. ASSUME NEW f \in Fields, BootRestores(f) PROVE IInv'
  <2>1. /\ UNCHANGED <<now, wall, base, maxErr, writes, conn, main, found>>
        /\ UNCHANGED <<valid, seen, written, pc, started, stamp, args, todo, draft, busy, rec>>
        /\ UNCHANGED <<origin, logged, cuts, short, back, turned, boots>>
        /\ left # {} /\ left' = left \ {f}
        /\ last' \in {last, found.last} /\ carry' \in {carry, found.carry}
    BY <1>3 DEF BootRestores
  <2>2. "time" \in left'
    <3>1. f # "time" /\ "time" \in left
      BY <1>3, Zenon DEF BootRestores, Sane
    <3> QED
      BY <2>1, <3>1
  <2>3. RecordValid(found) /\ found.last \in Nat /\ found.carry \in Rests
    <3>1. RecordValid(found) /\ found.carry \in Rests
      BY <2>1, Zenon DEF Sane, RecordsSane
    <3>2. found.last \in Int
      BY DEF DetectionTypeOK, Record, Fields
    <3> QED
      BY <3>1, <3>2 DEF RecordValid
  <2>4. DetectionTypeOK'
    <3>1. last' \in Nat /\ carry' \in Rests /\ left' \subseteq Fields
      BY <2>1, <2>3 DEF DetectionTypeOK
    <3> QED
      BY <2>1, <3>1 DEF DetectionTypeOK
  <2>5. LastEvent' \in {LastEvent, found.last} /\ Timestamp' = Timestamp
    BY <2>1 DEF LastEvent, Timestamp
  <2>6. Sane' /\ ChainKept'
    BY <2>1, <2>2, <2>3, <2>5 DEF Sane, ChainKept
  <2>7. EventPast' /\ ClockNotAhead'
    BY <2>1, <2>2, <2>5 DEF EventPast, ClockNotAhead
  <2>8. RecordsSane'
    BY <2>1, RecordsFrame
  <2> QED
    BY <2>4, <2>6, <2>7, <2>8
<1>4. CASE BootSeedsClock
  <2>1. /\ UNCHANGED <<now, wall, maxErr, writes, conn, last, carry>>
        /\ UNCHANGED <<valid, seen, written, pc, started, stamp, args, todo, draft, busy, rec, boots>>
        /\ left = {"time"} /\ left' = {} /\ found' = NoRec
        /\ base' = found.time - now /\ origin' = LastEvent - carry /\ logged' = 0 /\ cuts' = 0
    BY <1>4 DEF BootSeedsClock, BaseOf
  <2>2. found.time \in Int /\ found.last \in Int /\ found.time > 0 /\ found.last <= found.time
        /\ found.time <= wall + maxErr
    <3>1. RecordValid(found) /\ found.time <= wall + maxErr
      BY <2>1, Zenon DEF Sane, RecordsSane
    <3>2. found.time \in Int /\ found.last \in Int
      BY DEF DetectionTypeOK, Record, Fields
    <3> QED
      BY <3>1, <3>2 DEF RecordValid
  <2>3. Timestamp' = found.time /\ LastEvent' = LastEvent /\ LastEvent \in Int
        /\ base' \in Int /\ base \in Int /\ now \in Nat
    BY <2>1, <2>2 DEF Timestamp, LastEvent, DetectionTypeOK
  <2>4. Drift' = 0
    <3>1. Drift' = LastEvent - (LastEvent - carry) - 1000 * 0 - carry
      BY <2>1, <2>3 DEF Drift
    <3>2. carry \in Int
      BY DEF DetectionTypeOK, Rests
    <3> QED
      BY <2>3, <3>1, <3>2
  <2>5. ChainKept'
    BY <2>1, <2>4 DEF ChainKept
  <2>6. Sane'
    BY <2>1, <2>2, <2>3 DEF Sane
  <2>7. EventPast'
    <3>1. SUFFICES ASSUME ~turned' PROVE LastEvent <= found.time
      BY <2>1, <2>3 DEF EventPast
    <3>2. ~turned /\ ~(base' < base)
      BY <1>4, <3>1, Zenon DEF BootSeedsClock
    <3>3. CASE LastEvent = found.last
      BY <2>2, <3>3
    <3>4. CASE LastEvent <= Timestamp
      <4>1. Timestamp = base + now /\ base <= base'
        BY <2>3, <3>2 DEF Timestamp
      <4>2. base' + now = found.time
        BY <2>1, <2>2, <2>3
      <4>3. \A a, b, e \in Int, n \in Nat : a <= b /\ e <= a + n => e <= b + n
        OBVIOUS
      <4> QED
        BY <2>3, <3>4, <4>1, <4>2, <4>3
    <3> QED
      BY <3>2, <3>3, <3>4 DEF EventPast
  <2>8. RecordsSane'
    <3>1. wall + maxErr \in Nat
      BY DEF DetectionTypeOK
    <3> QED
      BY <2>1, <3>1, RecordsKept
  <2>9. ClockNotAhead'
    BY <2>1, <2>2, <2>3, <2>8 DEF ClockNotAhead, RecordsSane
  <2>10. DetectionTypeOK'
    <3>1. {short', back', turned'} \subseteq BOOLEAN /\ main' = "runs"
      BY <1>4, Zenon DEF BootSeedsClock, DetectionTypeOK
    <3>2. origin' \in Int /\ found' \in Record
      BY <2>1, <2>3 DEF DetectionTypeOK, Rests, NoRec, Record, Fields
    <3> QED
      BY <2>1, <2>3, <3>1, <3>2 DEF DetectionTypeOK
  <2> QED
    BY <2>5, <2>6, <2>7, <2>8, <2>9, <2>10
<1> QED
  BY <1>1, <1>2, <1>3, <1>4

LEMMA IInvStep ==
  ASSUME DetectionAssumption, IInv, [Next]_vars
  PROVE  IInv'
<1> USE DEF IInv, clock, booting, filter, handler, watch, chain
<1>1. CASE UNCHANGED vars
  <2>1. DetectionTypeOK'
    BY <1>1 DEF vars, DetectionTypeOK
  <2>2. Sane'
    BY <1>1 DEF vars, Sane, DetectionTypeOK, LastEvent, Timestamp
  <2>3. RecordsSane'
    <3>1. UNCHANGED <<draft, args, found, rec, wall, maxErr>>
      BY <1>1 DEF vars
    <3> QED
      BY <3>1, RecordsFrame
  <2>4. ChainKept'
    BY <1>1 DEF vars, ChainKept, LastEvent, Drift
  <2>5. ClockNotAhead' /\ EventPast'
    BY <1>1 DEF vars, ClockNotAhead, EventPast, LastEvent, Timestamp
  <2> QED
    BY <2>1, <2>2, <2>3, <2>4, <2>5
<1>2. CASE Next
  BY <1>2, CounterKeeps, WatchKeeps, PeerKeeps, ResetKeeps, BootKeeps DEF Next
<1> QED
  BY <1>1, <1>2

LEMMA IInvHolds == Spec => []IInv
  BY DetectionAssumption, IInvInit, IInvStep, PTL DEF Spec

-----------------------------------------------------------------------------
\* Every variable keeps its type: no delta and no carry is ever negative.
THEOREM DetectionTypeCorrect == Spec => []DetectionTypeOK
  BY IInvHolds, PTL DEF IInv

\* carry_ms keeps the rounding of any number of deltas below a second for each
\* connection, whatever resets, torn records and clock changes come between, as
\* long as every delta of the chain reached the log whole.
THEOREM DriftBounded == Spec => []ChainKept
  BY IInvHolds, PTL DEF IInv

\* No sequence of writes, resets and restores puts the clock further ahead than a
\* peer did.
THEOREM ClockBounded == Spec => []ClockNotAhead
  BY IInvHolds, PTL DEF IInv

\* Without a clock set back, no event is in the future, from the moment main() has
\* put the clock back on; a crossing may fall into any moment of the boot.
THEOREM EventsPast == Spec => []StampsPast
<1>1. IInv => StampsPast
  BY DEF IInv, EventPast, StampsPast
<1> QED
  BY <1>1, IInvHolds, PTL
=============================================================================
