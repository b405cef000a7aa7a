----------------------- MODULE CacheMaintenanceProofs -----------------------
(***************************************************************************)
(* Proofs about cache maintenance, for any number of lines, any values and *)
(* ranges of any length.                                                   *)
(*                                                                         *)
(* The invariant says what each loop has achieved for the lines it has     *)
(* passed, in a form that no eviction and no speculative fetch can undo:   *)
(* Achieved(f, p, c, v) holds of a line c with newest value v once loop p  *)
(* of function f has passed it (p = 0: before the first loop).             *)
(***************************************************************************)
EXTENDS CacheMaintenance, TLAPS

USE CacheAssumption

Copies == [l1 : Copy, l2 : Copy, ddr : Values]
Function == range_functions \cup {"clean_and_invalidate_all"}
flushing == {"clean_and_invalidate_range", "clean_and_invalidate_all"}

outer_fresh(c, v) == ~ dirty(c) /\ (c.l2.state = "absent" \/ c.l2.val = v)
fresh(c, v) == outer_fresh(c, v) /\ (c.l1.state = "absent" \/ c.l1.val = v)

Achieved(f, p, c, v) ==
  /\ f = "invalidate_range" => ~ dirty(c) /\ (p >= 1 => outer_fresh(c, v))
  /\ f = "clean_range" => (p >= 1 => c.l1.state # "dirty") /\ (p >= 2 => ~ dirty(c))
  /\ f \in flushing => /\ p >= 1 => c.l1.state # "dirty"
                       /\ p >= 2 => outer_fresh(c, v)
                       /\ p >= 3 => fresh(c, v)

(* The loops passed on line i.                                             *)
passed(i) == IF i < cur THEN phase ELSE phase - 1

InCall ==
  op # "none" =>
    /\ phase <= Len(loops(op)) /\ first <= cur /\ after = "none"
    /\ \A i \in first .. last : Achieved(op, passed(i), line[i], latest[i])
    /\ op = "invalidate_range" /\ phase = 2 /\ cur > first => fresh(line[first], latest[first])

AfterCall ==
  after # "none" =>
    /\ \A i \in first .. last : Achieved(after, 3, line[i], latest[i])
    /\ after = "invalidate_range" => fresh(line[first], latest[first])

Inv == TypeOK /\ NewestValueSurvives /\ first <= last /\ InCall /\ AfterCall

-----------------------------------------------------------------------------
(* What the operations do to one line.                                     *)

LEMMA KeepsNewest ==
  ASSUME NEW c \in Copies
  PROVE  /\ l1_clean(c) \in Copies /\ newest(l1_clean(c)) = newest(c)
         /\ l2_clean(c) \in Copies /\ newest(l2_clean(c)) = newest(c)
         /\ l1_clean_invalidate(c) \in Copies /\ newest(l1_clean_invalidate(c)) = newest(c)
         /\ l2_clean_invalidate(c) \in Copies /\ newest(l2_clean_invalidate(c)) = newest(c)
         /\ c.l1.state = "absent" => filled(c) \in Copies /\ newest(filled(c)) = newest(c)
<1> USE DEF Copies, Copy, newest
<1>1. l1_clean(c) \in Copies /\ newest(l1_clean(c)) = newest(c)
  BY DEF l1_clean
<1>2. l2_clean(c) \in Copies /\ newest(l2_clean(c)) = newest(c)
  BY DEF l2_clean
<1>3. l1_clean_invalidate(c) \in Copies /\ newest(l1_clean_invalidate(c)) = newest(c)
  BY DEF l1_clean_invalidate, l1_invalidate, l1_clean, absent
<1>4. l2_clean_invalidate(c) \in Copies /\ newest(l2_clean_invalidate(c)) = newest(c)
  BY DEF l2_clean_invalidate, l2_invalidate, l2_clean, absent
<1>5. c.l1.state = "absent" => filled(c) \in Copies /\ newest(filled(c)) = newest(c)
  BY DEF filled
<1> QED BY <1>1, <1>2, <1>3, <1>4, <1>5

LEMMA DiscardsNothing ==
  ASSUME NEW c \in Copies, ~ dirty(c)
  PROVE  /\ l1_invalidate(c) \in Copies /\ newest(l1_invalidate(c)) = newest(c)
         /\ l2_invalidate(c) \in Copies /\ newest(l2_invalidate(c)) = newest(c)
         /\ ~ dirty(l1_invalidate(c)) /\ ~ dirty(l2_invalidate(c))
  BY DEF Copies, Copy, newest, dirty, l1_invalidate, l2_invalidate, absent

(* No eviction and no speculative fetch undoes what was achieved.          *)
Disturbed(c, d) ==
  \/ c.l1.state = "absent" /\ d = filled(c)
  \/ d = l1_clean_invalidate(c)
  \/ d = l2_clean_invalidate(c)

LEMMA FreshIsStable ==
  ASSUME NEW c \in Copies, NEW d, Disturbed(c, d)
  PROVE  /\ c.l1.state # "dirty" => d.l1.state # "dirty"
         /\ ~ dirty(c) => ~ dirty(d)
         /\ outer_fresh(c, newest(c)) => outer_fresh(d, newest(c))
         /\ fresh(c, newest(c)) => fresh(d, newest(c))
<1> USE DEF Copies, Copy, newest, dirty, outer_fresh, fresh
<1>1. CASE c.l1.state = "absent" /\ d = filled(c)
  BY <1>1 DEF filled
<1>2. CASE d = l1_clean_invalidate(c)
  BY <1>2 DEF l1_clean_invalidate, l1_invalidate, l1_clean, absent
<1>3. CASE d = l2_clean_invalidate(c)
  BY <1>3 DEF l2_clean_invalidate, l2_invalidate, l2_clean, absent
<1> QED BY <1>1, <1>2, <1>3 DEF Disturbed

LEMMA AchievedIsStable ==
  ASSUME NEW c \in Copies, NEW d, Disturbed(c, d), NEW f \in Function, NEW p \in Nat,
         Achieved(f, p, c, newest(c))
  PROVE  Achieved(f, p, d, newest(c))
  BY FreshIsStable DEF Achieved

(* Each loop achieves its part on the line it operates on.                 *)
Loop(f, p, l) ==
  \/ f = "invalidate_range" /\ p = 1 /\ l = "l2_inv"
  \/ f = "invalidate_range" /\ p = 2 /\ l = "l1_inv_start"
  \/ f # "invalidate_range" /\ p = 1 /\ l = "l1_clean"
  \/ f = "clean_range" /\ p = 2 /\ l = "l2_clean"
  \/ f \in flushing /\ p = 2 /\ l = "l2_clean_inv"
  \/ f \in flushing /\ p = 3 /\ l = "l1_clean_inv"

LEMMA LoopsOfFunctions ==
  ASSUME NEW f \in Function
  PROVE  /\ Len(loops(f)) = IF f \in flushing THEN 3 ELSE 2
         /\ \A p \in 1 .. Len(loops(f)) : Loop(f, p, loops(f)[p])
<1>1. CASE f = "invalidate_range"
  <2>1. loops(f) = <<"l2_inv", "l1_inv_start">>
    BY <1>1 DEF loops
  <2>2. Len(loops(f)) = 2 /\ loops(f)[1] = "l2_inv" /\ loops(f)[2] = "l1_inv_start"
    BY <2>1
  <2>3. Loop(f, 1, "l2_inv") /\ Loop(f, 2, "l1_inv_start")
    BY <1>1 DEF Loop, flushing
  <2> QED BY <1>1, <2>2, <2>3 DEF flushing
<1>2. CASE f = "clean_range"
  <2>1. loops(f) = <<"l1_clean", "l2_clean">>
    BY <1>2 DEF loops
  <2>2. Len(loops(f)) = 2 /\ loops(f)[1] = "l1_clean" /\ loops(f)[2] = "l2_clean"
    BY <2>1
  <2>3. Loop(f, 1, "l1_clean") /\ Loop(f, 2, "l2_clean")
    BY <1>2 DEF Loop, flushing
  <2> QED BY <1>2, <2>2, <2>3 DEF flushing
<1>3. CASE f = "clean_and_invalidate_range"
  <2>1. loops(f) = <<"l1_clean", "l2_clean_inv", "l1_clean_inv">>
    BY <1>3 DEF loops
  <2>2. Len(loops(f)) = 3 /\ loops(f)[1] = "l1_clean" /\ loops(f)[2] = "l2_clean_inv" /\ loops(f)[3] = "l1_clean_inv"
    BY <2>1
  <2>3. Loop(f, 1, "l1_clean") /\ Loop(f, 2, "l2_clean_inv") /\ Loop(f, 3, "l1_clean_inv")
    BY <1>3 DEF Loop, flushing
  <2> QED BY <1>3, <2>2, <2>3 DEF flushing
<1>4. CASE f = "clean_and_invalidate_all"
  <2>1. loops(f) = <<"l1_clean", "l2_clean_inv", "l1_clean_inv">>
    BY <1>4 DEF loops
  <2>2. Len(loops(f)) = 3 /\ loops(f)[1] = "l1_clean" /\ loops(f)[2] = "l2_clean_inv" /\ loops(f)[3] = "l1_clean_inv"
    BY <2>1
  <2>3. Loop(f, 1, "l1_clean") /\ Loop(f, 2, "l2_clean_inv") /\ Loop(f, 3, "l1_clean_inv")
    BY <1>4 DEF Loop, flushing
  <2> QED BY <1>4, <2>2, <2>3 DEF flushing
<1> QED BY <1>1, <1>2, <1>3, <1>4 DEF Function, range_functions

LEMMA LoopAchieves ==
  ASSUME NEW c \in Copies, NEW f \in Function, NEW p \in 1 .. 3, NEW l, Loop(f, p, l),
         l # "l1_inv_start", Achieved(f, p - 1, c, newest(c))
  PROVE  /\ operate(l, c) \in Copies /\ newest(operate(l, c)) = newest(c)
         /\ Achieved(f, p, operate(l, c), newest(c))
<1> USE DEF Achieved, operate, flushing
<1>1. CASE l = "l2_inv"
  <2>1. f = "invalidate_range" /\ p = 1 /\ ~ dirty(c)
    BY <1>1 DEF Loop
  <2>2. outer_fresh(l2_invalidate(c), newest(c))
    BY <2>1, DiscardsNothing DEF outer_fresh, l2_invalidate, absent, Copies, Copy
  <2> QED BY <1>1, <2>1, <2>2, DiscardsNothing
<1>2. CASE l = "l1_clean"
  <2>1. p = 1 /\ f # "invalidate_range"
    BY <1>2 DEF Loop
  <2>2. l1_clean(c).l1.state # "dirty"
    BY DEF l1_clean, Copies, Copy
  <2> QED BY <1>2, <2>1, <2>2, KeepsNewest
<1>3. CASE l = "l2_clean"
  <2>1. f = "clean_range" /\ p = 2 /\ c.l1.state # "dirty"
    BY <1>3 DEF Loop
  <2>2. ~ dirty(l2_clean(c)) /\ l2_clean(c).l1.state # "dirty"
    BY <2>1 DEF l2_clean, Copies, Copy, dirty
  <2> QED BY <1>3, <2>1, <2>2, KeepsNewest
<1>4. CASE l = "l2_clean_inv"
  <2>1. f \in flushing /\ p = 2 /\ c.l1.state # "dirty"
    BY <1>4 DEF Loop
  <2>2. outer_fresh(l2_clean_invalidate(c), newest(c))
        /\ l2_clean_invalidate(c).l1.state # "dirty"
    BY <2>1 DEF l2_clean_invalidate, l2_invalidate, l2_clean, absent, Copies, Copy, dirty, outer_fresh
  <2> QED BY <1>4, <2>1, <2>2, KeepsNewest
<1>5. CASE l = "l1_clean_inv"
  <2>1. f \in flushing /\ p = 3 /\ c.l1.state # "dirty" /\ outer_fresh(c, newest(c))
    BY <1>5 DEF Loop
  <2>2. fresh(l1_clean_invalidate(c), newest(c)) /\ outer_fresh(l1_clean_invalidate(c), newest(c))
        /\ l1_clean_invalidate(c).l1.state # "dirty"
    BY <2>1 DEF l1_clean_invalidate, l1_invalidate, l1_clean, absent, Copies, Copy, dirty,
                outer_fresh, fresh
  <2> QED BY <1>5, <2>1, <2>2, KeepsNewest
<1> QED BY <1>1, <1>2, <1>3, <1>4, <1>5 DEF Loop

LEMMA InvalidatedIsFresh ==
  ASSUME NEW c \in Copies, outer_fresh(c, newest(c))
  PROVE  /\ l1_invalidate(c) \in Copies /\ newest(l1_invalidate(c)) = newest(c)
         /\ fresh(l1_invalidate(c), newest(c))
  BY DiscardsNothing DEF outer_fresh, fresh, l1_invalidate, absent, Copies, Copy, dirty, newest

-----------------------------------------------------------------------------
LEMMA InitInv == Init => Inv
<1> SUFFICES ASSUME Init PROVE Inv
  OBVIOUS
<1>1. PICK v \in Values :
        /\ latest = [i \in Line |-> v]
        /\ line = [i \in Line |-> [l1 |-> [state |-> "absent", val |-> v],
                                   l2 |-> [state |-> "absent", val |-> v], ddr |-> v]]
  BY DEF Init
<1>2. TypeOK
  BY <1>1 DEF Init, TypeOK, Copy, Line
<1>3. NewestValueSurvives
  BY <1>1 DEF NewestValueSurvives, newest
<1>4. InCall /\ AfterCall /\ first <= last
  BY DEF Init, InCall, AfterCall
<1> QED BY <1>2, <1>3, <1>4 DEF Inv

(* The caches act on their own.                                            *)
LEMMA DisturbInv ==
  ASSUME Inv, NEW i \in Line, Prefetch(i) \/ EvictL1(i) \/ EvictL2(i)
  PROVE  Inv'
<1> DEFINE d == line'[i]
<1>1. /\ UNCHANGED <<latest, op, first, last, phase, cur, after>>
      /\ line[i] \in Copies /\ Disturbed(line[i], d) /\ line' = [line EXCEPT ![i] = d]
  BY DEF Prefetch, EvictL1, EvictL2, Disturbed, callVars, Inv, TypeOK, Copies
<1>2. d \in Copies /\ newest(d) = newest(line[i])
  BY <1>1, KeepsNewest DEF Disturbed
<1>3. TypeOK'
  BY <1>1, <1>2 DEF Inv, TypeOK, Copies
<1>4. NewestValueSurvives'
  BY <1>1, <1>2 DEF Inv, NewestValueSurvives, TypeOK
<1>5. latest[i] = newest(line[i])
  BY DEF Inv, NewestValueSurvives
<1>6. ASSUME NEW f \in Function, NEW p \in Nat, NEW j \in Line, Achieved(f, p, line[j], latest[j])
      PROVE  Achieved(f, p, line'[j], latest'[j])
  BY <1>1, <1>5, <1>6, AchievedIsStable DEF Inv, TypeOK
<1>7. ASSUME NEW j \in Line, fresh(line[j], latest[j]) PROVE fresh(line'[j], latest'[j])
  BY <1>1, <1>5, <1>7, FreshIsStable DEF Inv, TypeOK
<1>8. first .. last \subseteq Line /\ first \in Line /\ (\A j \in Line : passed(j) \in Nat)
      /\ (op # "none" => op \in Function) /\ (after # "none" => after \in Function)
      /\ \A j : passed(j)' = passed(j)
  BY <1>1 DEF Inv, TypeOK, Line, passed, Function
<1>9. InCall'
  BY <1>1, <1>6, <1>7, <1>8 DEF Inv, InCall
<1>10. AfterCall'
  BY <1>1, <1>6, <1>7, <1>8 DEF Inv, AfterCall
<1> QED BY <1>1, <1>3, <1>4, <1>9, <1>10 DEF Inv

(* A call begins before its first loop.                                    *)
LEMMA CallInv ==
  ASSUME Inv, op = "none", op' \in Function,
         first' \in Line, last' \in Line, first' <= last', phase' = 1, cur' = first',
         after' = "none", UNCHANGED <<line, latest>>,
         op' = "invalidate_range" => \A i \in first' .. last' : ~ dirty(line[i])
  PROVE  Inv'
<1>1. TypeOK'
  BY DEF Inv, TypeOK, Function, range_functions, Line
<1>2. NewestValueSurvives'
  BY DEF Inv, NewestValueSurvives
<1>3. ASSUME NEW i \in first' .. last' PROVE Achieved(op', passed(i)', line'[i], latest'[i])
  <2>1. passed(i)' = 0
    BY DEF passed, Line
  <2> QED BY <2>1 DEF Achieved
<1>4. phase' <= Len(loops(op'))
  BY LoopsOfFunctions
<1>5. InCall'
  BY <1>3, <1>4 DEF InCall, Line
<1>6. AfterCall'
  BY DEF AfterCall
<1> QED BY <1>1, <1>2, <1>5, <1>6 DEF Inv

(* One line operation.                                                     *)
LEMMA StepInv == ASSUME Inv, step PROVE Inv'
<1> DEFINE l == loops(op)[phase]
           k == operand(l, cur)
           d == operate(l, line[k])
           now(i) == IF i < cur' THEN phase' ELSE phase' - 1
<1>1. /\ op \in Function /\ phase \in 1 .. 3 /\ first \in Line /\ last \in Line /\ cur \in first .. last
      /\ Loop(op, phase, l) /\ line \in [Line -> Copies]
      /\ \A i \in Line : newest(line[i]) = latest[i]
  BY LoopsOfFunctions DEF step, Inv, TypeOK, InCall, Function, range_functions, Line, in_range, Copies,
                          NewestValueSurvives
<1>2. /\ line' = [line EXCEPT ![k] = d] /\ cur' = cur + 1
      /\ UNCHANGED <<latest, op, first, last, phase, after>>
  BY DEF step
<1>3. k \in Line /\ k \in first .. last /\ cur \in Line
  BY <1>1 DEF operand, Line
<1>4. \A i \in first .. last : Achieved(op, passed(i), line[i], latest[i])
  BY <1>1 DEF Inv, InCall, range_functions, Function
<1>5. passed(cur) = phase - 1 /\ now(cur) = phase
      /\ \A i \in Line : i # cur => now(i) = passed(i)
  BY <1>1, <1>2 DEF passed, Line
<1>6. /\ d \in Copies /\ newest(d) = latest[k]
      /\ Achieved(op, now(k), d, latest[k])
      /\ op = "invalidate_range" /\ phase = 2 => fresh(d, latest[k]) /\ k = first
  <2>1. CASE l = "l1_inv_start"
    <3>1. op = "invalidate_range" /\ phase = 2 /\ k = first /\ d = l1_invalidate(line[k])
      BY <1>1, <2>1 DEF Loop, operand, operate, flushing
    <3>2. Achieved(op, passed(k), line[k], latest[k]) /\ passed(k) >= 1
      BY <1>1, <1>3, <1>4, <3>1 DEF passed, Line
    <3>3. outer_fresh(line[k], newest(line[k]))
      BY <1>1, <1>3, <3>1, <3>2 DEF Achieved
    <3>4. d \in Copies /\ newest(d) = latest[k] /\ fresh(d, latest[k])
      BY <1>1, <1>3, <3>1, <3>3, InvalidatedIsFresh
    <3>5. Achieved(op, now(k), d, latest[k])
      BY <3>1, <3>4 DEF Achieved, fresh, outer_fresh, flushing
    <3> QED BY <3>1, <3>4, <3>5
  <2>2. CASE l # "l1_inv_start"
    <3>1. k = cur /\ ~ (op = "invalidate_range" /\ phase = 2)
      BY <1>1, <2>2 DEF Loop, operand, flushing
    <3>2. Achieved(op, phase - 1, line[k], newest(line[k]))
      BY <1>1, <1>3, <1>4, <1>5, <3>1
    <3> QED BY <1>1, <1>3, <1>5, <2>2, <3>1, <3>2, LoopAchieves
  <2> QED BY <2>1, <2>2
<1>7. TypeOK'
  BY <1>1, <1>2, <1>3, <1>6 DEF Inv, TypeOK, Copies, Line
<1>8. NewestValueSurvives'
  BY <1>1, <1>2, <1>3, <1>6 DEF NewestValueSurvives
<1>9. ASSUME NEW i \in first .. last PROVE Achieved(op, now(i), line'[i], latest[i])
  <2>1. i \in Line
    BY <1>1 DEF Line
  <2>2. CASE i = k
    BY <1>1, <1>2, <1>3, <1>6, <2>2
  <2>3. CASE i # k /\ i # cur
    BY <1>1, <1>2, <1>4, <1>5, <2>1, <2>3
  <2>4. CASE i # k /\ i = cur
    <3>1. op = "invalidate_range" /\ phase = 2
      BY <1>1, <2>4 DEF operand, Loop
    <3>2. Achieved(op, 1, line'[i], latest[i])
      BY <1>1, <1>2, <1>4, <1>5, <2>1, <2>4, <3>1
    <3> QED BY <1>5, <2>4, <3>1, <3>2 DEF Achieved, flushing
  <2> QED BY <2>2, <2>3, <2>4
<1>10. after = "none"
  BY DEF step, Inv, InCall
<1>11. InCall'
  <2>1. phase' <= Len(loops(op'))
    BY <1>2 DEF Inv, InCall, step
  <2>2. op = "invalidate_range" /\ phase = 2 => fresh(line'[first], latest[first])
    BY <1>1, <1>2, <1>3, <1>6
  <2> QED BY <1>1, <1>2, <1>9, <1>10, <2>1, <2>2 DEF InCall, Line, passed
<1> QED BY <1>2, <1>7, <1>8, <1>10, <1>11 DEF Inv, AfterCall

(* A loop that has passed the last line has passed every line.             *)
LEMMA LoopEnds ==
  ASSUME Inv, op # "none", ~ in_range(cur)
  PROVE  /\ op \in Function /\ phase \in 1 .. 3 /\ after = "none" /\ phase <= Len(loops(op))
         /\ \A i \in first .. last : Achieved(op, phase, line[i], latest[i])
         /\ op = "invalidate_range" /\ phase = 2 => fresh(line[first], latest[first])
<1>1. op \in Function /\ phase \in 1 .. 3 /\ cur > last /\ first <= last
      /\ first \in Int /\ last \in Int /\ cur \in Int
  BY DEF Inv, TypeOK, Function, range_functions, Line, in_range
<1>2. \A i \in first .. last : passed(i) = phase
  BY <1>1 DEF passed
<1> QED BY <1>1, <1>2 DEF Inv, InCall

LEMMA NextLoopInv == ASSUME Inv, next_loop PROVE Inv'
<1>1. /\ UNCHANGED <<line, latest, op, first, last, after>> /\ phase' = phase + 1 /\ cur' = first
      /\ phase < Len(loops(op)) /\ op # "none" /\ ~ in_range(cur)
  BY DEF next_loop
<1>2. op \in Function /\ phase \in 1 .. 3 /\ Len(loops(op)) \in 2 .. 3 /\ after = "none"
  BY <1>1, LoopEnds, LoopsOfFunctions
<1>3. TypeOK' /\ NewestValueSurvives'
  <2>1. \A p \in 1 .. 3, n \in 2 .. 3 : p < n => p + 1 \in 1 .. 3
    OBVIOUS
  <2>2. phase' \in 1 .. 3
    BY <1>1, <1>2, <2>1
  <2>3. first \in 0 .. Lines - 1 /\ cur' = first
    BY <1>1 DEF Inv, TypeOK, Line
  <2>4. cur' \in 0 .. Lines
    BY <2>3, CacheAssumption
  <2> QED BY <1>1, <2>2, <2>4 DEF Inv, TypeOK, NewestValueSurvives
<1>4. ASSUME NEW i \in first .. last PROVE Achieved(op, passed(i)', line[i], latest[i])
  <2>1. passed(i)' = phase
    BY <1>1, <1>2 DEF passed, Inv, TypeOK, Line
  <2> QED BY <1>1, <2>1, LoopEnds
<1>5. InCall'
  BY <1>1, <1>2, <1>4 DEF InCall, Inv, TypeOK, Line
<1> QED BY <1>1, <1>2, <1>3, <1>5 DEF Inv, AfterCall

LEMMA ReturnInv == ASSUME Inv, return PROVE Inv'
<1>1. /\ UNCHANGED <<line, latest, first, last, phase, cur>> /\ op' = "none" /\ after' = op
      /\ phase = Len(loops(op)) /\ op # "none" /\ ~ in_range(cur)
  BY DEF return
<1>2. /\ op \in Function /\ phase = (IF op \in flushing THEN 3 ELSE 2)
      /\ \A i \in first .. last : Achieved(op, phase, line[i], latest[i])
      /\ op = "invalidate_range" => fresh(line[first], latest[first])
  BY <1>1, LoopEnds, LoopsOfFunctions DEF flushing
<1>3. TypeOK' /\ NewestValueSurvives' /\ InCall'
  BY <1>1, <1>2 DEF Inv, TypeOK, NewestValueSurvives, InCall, Function
<1>4. \A i \in first .. last : Achieved(op, 3, line[i], latest[i])
  BY <1>2 DEF Achieved, flushing
<1> QED BY <1>1, <1>2, <1>3, <1>4 DEF Inv, AfterCall

(* Memory is written.                                                      *)
LEMMA CpuWriteInv == ASSUME Inv, NEW i \in Line, NEW v \in Values, CpuWrite(i, v) PROVE Inv'
<1> DEFINE d == [filled(line[i]) EXCEPT !.l1 = [state |-> "dirty", val |-> v]]
<1>1. /\ op = "none" /\ line' = [line EXCEPT ![i] = d] /\ latest' = [latest EXCEPT ![i] = v]
      /\ after' = "none" /\ UNCHANGED <<op, first, last, phase, cur>>
  BY DEF CpuWrite, callVars
<1>2. d \in Copies /\ newest(d) = v
  BY DEF Inv, TypeOK, filled, newest, Copy, Copies
<1>3. TypeOK' /\ NewestValueSurvives'
  BY <1>1, <1>2 DEF Inv, TypeOK, NewestValueSurvives, Copies
<1> QED BY <1>1, <1>3 DEF Inv, InCall, AfterCall

LEMMA DmaWriteInv == ASSUME Inv, NEW i \in Line, NEW v \in Values, DmaWrite(i, v) PROVE Inv'
<1> DEFINE d == [line[i] EXCEPT !.ddr = v]
<1>1. /\ op # "none" => i \notin first .. last
      /\ line' = [line EXCEPT ![i] = d] /\ latest' = [latest EXCEPT ![i] = v]
      /\ after' = "none" /\ UNCHANGED <<op, first, last, phase, cur>>
  BY DEF DmaWrite, callVars, Inv, TypeOK
<1>2. d \in Copies /\ newest(d) = v
  BY DEF DmaWrite, dirty, Inv, TypeOK, newest, Copy, Copies
<1>3. TypeOK' /\ NewestValueSurvives'
  BY <1>1, <1>2 DEF Inv, TypeOK, NewestValueSurvives, Copies
<1>4. ASSUME op # "none"
      PROVE  \A j \in first .. last : line'[j] = line[j] /\ latest'[j] = latest[j]
  BY <1>1, <1>4 DEF Inv, TypeOK, Line
<1>5. InCall'
  BY <1>1, <1>4 DEF Inv, TypeOK, InCall, passed, Line
<1> QED BY <1>1, <1>3, <1>5 DEF Inv, AfterCall

LEMMA NextInv == Inv /\ [Next]_vars => Inv'
<1> SUFFICES ASSUME Inv, [Next]_vars PROVE Inv'
  OBVIOUS
<1>1. ASSUME NEW f \in range_functions, NEW a \in Line, NEW b \in Line, a <= b, call(f, a, b)
      PROVE  Inv'
  BY <1>1, CallInv DEF call, Function
<1>2. CASE call_all
  BY <1>2, CallInv DEF call_all, Function, Line
<1>3. CASE step
  BY <1>3, StepInv
<1>4. CASE next_loop
  BY <1>4, NextLoopInv
<1>5. CASE return
  BY <1>5, ReturnInv
<1>6. ASSUME NEW i \in Line, NEW v \in Values, CpuWrite(i, v) \/ DmaWrite(i, v) PROVE Inv'
  BY <1>6, CpuWriteInv, DmaWriteInv
<1>7. ASSUME NEW i \in Line, Prefetch(i) \/ EvictL1(i) \/ EvictL2(i) PROVE Inv'
  BY <1>7, DisturbInv
<1>8. CASE UNCHANGED vars
  BY <1>8 DEF vars, Inv, TypeOK, NewestValueSurvives, InCall, AfterCall, passed
<1> QED BY <1>1, <1>2, <1>3, <1>4, <1>5, <1>6, <1>7, <1>8 DEF Next

-----------------------------------------------------------------------------
LEMMA Invariance == Spec => []Inv
  BY InitInv, NextInv, PTL DEF Spec

(* Types; no loop of cache.rs runs past the range.                         *)
THEOREM TypeCorrect == Spec => []TypeOK
<1>1. Inv => TypeOK
  BY DEF Inv
<1> QED BY <1>1, Invariance, PTL

(* No maintenance function of cache.rs, and no eviction between two of its *)
(* line operations, loses the newest value of a line.                      *)
THEOREM NewestSurvives == Spec => []NewestValueSurvives
<1>1. Inv => NewestValueSurvives
  BY DEF Inv
<1> QED BY <1>1, Invariance, PTL

(* What clean_data_cache_range and the clean-and-invalidate functions have *)
(* finished is in DDR, and what the latter have invalidated the CPU reads  *)
(* anew.                                                                   *)
THEOREM FlushCorrect == Spec => []FlushReachesMemory
<1>1. Inv => FlushReachesMemory
  <2> SUFFICES ASSUME Inv, after # "none", NEW i \in first .. last
               PROVE  /\ after \in flushing \cup {"clean_range"} => line[i].ddr = latest[i]
                      /\ after \in flushing => view(line[i]) = latest[i]
    BY DEF FlushReachesMemory, flushing
  <2>1. Achieved(after, 3, line[i], latest[i]) /\ newest(line[i]) = latest[i]
    BY DEF Inv, AfterCall, NewestValueSurvives, TypeOK, Line
  <2> QED BY <2>1 DEF Achieved, fresh, outer_fresh, dirty, newest, view, flushing
<1> QED BY <1>1, Invariance, PTL

(* After invalidate_data_cache_range the first line is read anew.          *)
THEOREM FirstLineCorrect == Spec => []FirstLineRefetched
<1>1. Inv => FirstLineRefetched
  BY DEF Inv, AfterCall, FirstLineRefetched, NewestValueSurvives, TypeOK, fresh, outer_fresh, dirty,
         newest, view
<1> QED BY <1>1, Invariance, PTL
=============================================================================
