-------------------------- MODULE CacheMaintenance --------------------------
(***************************************************************************)
(* Cache maintenance by address range (cache.rs) on memory shared with a   *)
(* DMA master.  A line of memory may be held in the L1 data cache, in the  *)
(* L2 cache and in DDR, with different values.  The functions walk over    *)
(* the range once per cache level; between any two of their line           *)
(* operations the caches may evict a line or fetch one speculatively.      *)
(***************************************************************************)
EXTENDS Integers, Sequences

CONSTANTS
  Lines,     \* number of cache lines of memory
  Values,    \* what a line can hold
  MaxRange   \* the longest range, in lines, that is passed to a function

ASSUME CacheAssumption == Lines \in Nat \ {0} /\ MaxRange \in 1 .. Lines

VARIABLES
  line,      \* the copies of each line: L1, L2 and DDR
  latest,    \* the value last written to each line, by the CPU or the DMA
  op,        \* the function being executed, "none" between calls
  first,     \* first line of its range
  last,      \* last line of its range
  phase,     \* the loop it is in
  cur,       \* the line its loop has reached
  after      \* the function that returned last, "none" once memory is written again

callVars == <<op, first, last, phase, cur>>
vars == <<line, latest, op, first, last, phase, cur, after>>

Line == 0 .. Lines - 1
Copy == [state : {"absent", "clean", "dirty"}, val : Values]

absent(c) == [state |-> "absent", val |-> c.val]

-----------------------------------------------------------------------------
(* One line of memory and the operations of the hardware on it.            *)

(* What the CPU reads.                                                     *)
view(c) == IF c.l1.state # "absent" THEN c.l1.val
           ELSE IF c.l2.state # "absent" THEN c.l2.val ELSE c.ddr

dirty(c) == c.l1.state = "dirty" \/ c.l2.state = "dirty"

l1_clean(c) == IF c.l1.state = "dirty"
               THEN [c EXCEPT !.l2 = c.l1, !.l1 = [@ EXCEPT !.state = "clean"]] ELSE c
l1_invalidate(c) == [c EXCEPT !.l1 = absent(@)]
l1_clean_invalidate(c) == l1_invalidate(l1_clean(c))

l2_clean(c) == IF c.l2.state = "dirty"
               THEN [c EXCEPT !.ddr = c.l2.val, !.l2 = [@ EXCEPT !.state = "clean"]] ELSE c
l2_invalidate(c) == [c EXCEPT !.l2 = absent(@)]
l2_clean_invalidate(c) == l2_invalidate(l2_clean(c))

(* A read fills both caches from the first level that holds the line.      *)
filled(c) ==
  LET l2 == IF c.l2.state = "absent" THEN [state |-> "clean", val |-> c.ddr] ELSE c.l2
  IN  IF c.l1.state = "absent"
      THEN [c EXCEPT !.l2 = l2, !.l1 = [state |-> "clean", val |-> l2.val]] ELSE c

-----------------------------------------------------------------------------
(* The loops of each function: the line operation of each, in order.       *)

loops_without_inner_clean(f) ==
  CASE f = "invalidate_range" -> <<"l2_inv", "l1_inv_start">>
    [] f = "clean_range"      -> <<"l2_clean">>
    [] OTHER                  -> <<"l2_clean_inv", "l1_clean_inv">>

loops_discarding_outer(f) ==
  CASE f = "invalidate_range" -> <<"l2_inv", "l1_inv_start">>
    [] f = "clean_range"      -> <<"l1_clean", "l2_clean">>
    [] OTHER                  -> <<"l1_clean", "l2_inv", "l1_clean_inv">>

loops(f) ==
  CASE f = "invalidate_range"           -> <<"l2_inv", "l1_inv_start">>
    [] f = "clean_and_invalidate_range" -> <<"l1_clean", "l2_clean_inv", "l1_clean_inv">>
    [] f = "clean_range"                -> <<"l1_clean", "l2_clean">>
    [] f = "clean_and_invalidate_all"   -> <<"l1_clean", "l2_clean_inv", "l1_clean_inv">>

(* The line a loop operates on when it has reached line i: the inner loop  *)
(* of invalidate_data_cache_range passes addr, not current_addr (line 73). *)
operand(l, i) == IF l = "l1_inv_start" THEN first ELSE i

operate(l, c) ==
  CASE l = "l1_clean"     -> l1_clean(c)
    [] l = "l1_clean_inv" -> l1_clean_invalidate(c)
    [] l = "l1_inv_start" -> l1_invalidate(c)
    [] l = "l2_inv"       -> l2_invalidate(c)
    [] l = "l2_clean"     -> l2_clean(c)
    [] l = "l2_clean_inv" -> l2_clean_invalidate(c)

(* The loop condition, with the end of the range one past its last line.   *)
in_range(i) == i <= last

range_functions == {"invalidate_range", "clean_and_invalidate_range", "clean_range"}

Init ==
  /\ \E v \in Values :
       /\ latest = [i \in Line |-> v]
       /\ line = [i \in Line |-> [l1 |-> [state |-> "absent", val |-> v],
                                  l2 |-> [state |-> "absent", val |-> v], ddr |-> v]]
  /\ op = "none" /\ first = 0 /\ last = 0 /\ phase = 1 /\ cur = 0
  /\ after = "none"

(* A range that is not aligned to whole lines is refused: no call starts.  *)
(* Invalidating discards data, so it is used on a range the DMA has        *)
(* written and the CPU has not.                                            *)
call(f, a, b) ==
  /\ op = "none"
  /\ b - a < MaxRange
  /\ f = "invalidate_range" => \A i \in a .. b : ~ dirty(line[i])
  /\ op' = f /\ first' = a /\ last' = b /\ phase' = 1 /\ cur' = a
  /\ after' = "none"
  /\ UNCHANGED <<line, latest>>

call_all ==
  /\ op = "none"
  /\ op' = "clean_and_invalidate_all" /\ first' = 0 /\ last' = Lines - 1
  /\ phase' = 1 /\ cur' = 0
  /\ after' = "none"
  /\ UNCHANGED <<line, latest>>

step ==
  /\ op # "none" /\ in_range(cur)
  /\ LET l == loops(op)[phase]
     IN  line' = [line EXCEPT ![operand(l, cur)] = operate(l, @)]
  /\ cur' = cur + 1
  /\ UNCHANGED <<latest, op, first, last, phase, after>>

next_loop ==
  /\ op # "none" /\ ~ in_range(cur) /\ phase < Len(loops(op))
  /\ phase' = phase + 1 /\ cur' = first
  /\ UNCHANGED <<line, latest, op, first, last, after>>

return ==
  /\ op # "none" /\ ~ in_range(cur) /\ phase = Len(loops(op))
  /\ op' = "none"
  /\ after' = op
  /\ UNCHANGED <<line, latest, first, last, phase, cur>>

-----------------------------------------------------------------------------
(* The program between calls, the DMA, and what the caches do on their own. *)

CpuWrite(i, v) ==
  /\ op = "none"
  /\ v # latest[i]
  /\ line' = [line EXCEPT ![i] = [filled(@) EXCEPT !.l1 = [state |-> "dirty", val |-> v]]]
  /\ latest' = [latest EXCEPT ![i] = v]
  /\ after' = "none"
  /\ UNCHANGED callVars

(* The DMA is given only lines of which no cache holds modified data.      *)
DmaWrite(i, v) ==
  /\ op # "none" => i \notin first .. last
  /\ v # latest[i] /\ ~ dirty(line[i])
  /\ line' = [line EXCEPT ![i].ddr = v]
  /\ latest' = [latest EXCEPT ![i] = v]
  /\ after' = "none"
  /\ UNCHANGED callVars

Prefetch(i) ==
  /\ line[i].l1.state = "absent"
  /\ line' = [line EXCEPT ![i] = filled(@)]
  /\ UNCHANGED <<latest, callVars, after>>

EvictL1(i) ==
  /\ line[i].l1.state # "absent"
  /\ line' = [line EXCEPT ![i] = l1_clean_invalidate(@)]
  /\ UNCHANGED <<latest, callVars, after>>

EvictL2(i) ==
  /\ line[i].l2.state # "absent"
  /\ line' = [line EXCEPT ![i] = l2_clean_invalidate(@)]
  /\ UNCHANGED <<latest, callVars, after>>

Next ==
  \/ \E f \in range_functions, a \in Line, b \in Line : a <= b /\ call(f, a, b)
  \/ call_all
  \/ step
  \/ next_loop
  \/ return
  \/ \E i \in Line, v \in Values : CpuWrite(i, v) \/ DmaWrite(i, v)
  \/ \E i \in Line : Prefetch(i) \/ EvictL1(i) \/ EvictL2(i)

Spec == Init /\ [][Next]_vars

-----------------------------------------------------------------------------
TypeOK ==
  /\ line \in [Line -> [l1 : Copy, l2 : Copy, ddr : Values]]
  /\ latest \in [Line -> Values]
  /\ op \in range_functions \cup {"clean_and_invalidate_all", "none"}
  /\ first \in Line /\ last \in Line
  /\ phase \in 1 .. 3
  /\ cur \in 0 .. Lines
  /\ after \in range_functions \cup {"clean_and_invalidate_all", "none"}

(* Whatever the order of evictions and maintenance, the newest value of a  *)
(* line survives: a modified copy nearer to the CPU is the newest, and     *)
(* with no modified copy DDR holds it.                                     *)
newest(c) == IF c.l1.state = "dirty" THEN c.l1.val
             ELSE IF c.l2.state = "dirty" THEN c.l2.val ELSE c.ddr
NewestValueSurvives == \A i \in Line : newest(line[i]) = latest[i]

(* Once the range (or everything) was cleaned the DMA reads the newest data *)
(* from DDR, and where it was invalidated too so does the CPU, whatever is *)
(* fetched speculatively or evicted meanwhile.                             *)
FlushReachesMemory ==
  /\ after \in {"clean_range", "clean_and_invalidate_range", "clean_and_invalidate_all"}
       => \A i \in first .. last : line[i].ddr = latest[i]
  /\ after \in {"clean_and_invalidate_range", "clean_and_invalidate_all"}
       => \A i \in first .. last : view(line[i]) = latest[i]

(* After a range was invalidated the CPU reads from its first line what    *)
(* the DMA wrote.                                                          *)
FirstLineRefetched == after = "invalidate_range" => view(line[first]) = latest[first]

(* The same for every line of the range: "this function invalidates both   *)
(* the L1 and L2 cache" (cache.rs:46).                                     *)
InvalidateRefetches ==
  after = "invalidate_range" => \A i \in first .. last : view(line[i]) = latest[i]
=============================================================================
