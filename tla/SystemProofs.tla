--------------------------- MODULE SystemProofs ---------------------------
(***************************************************************************)
(* Proofs about the parts of the system below the drivers: the delays on   *)
(* the private timers of the cores (PrivateTimer), the periods of a PWM    *)
(* output (Pwm), the clocks and the memory as the boot loader brings them  *)
(* up (BringUp), the registers and pins of the drivers a program           *)
(* constructs (DriverSetup), the table of the MMU (MemoryMap), and the     *)
(* interrupt controller (Gic).                                             *)
(*                                                                         *)
(* They are seen as MCSystem instantiates them.                            *)
(***************************************************************************)
EXTENDS MCSystem, SequenceTheorems, WellFoundedInduction, TLAPS

USE MCSystemAssumption

-----------------------------------------------------------------------------
(* Delays on the private timer.                                            *)

Registers ==
  [enable : BOOLEAN, auto_reload : BOOLEAN, counter : Nat, reload : Nat, event_flag : BOOLEAN]

Place == {"start", "none", "owner", "loop", "reload", "counter", "enable", "wait"}

TimTypeOK ==
  /\ TIM_TAKEN \in [Cores -> BOOLEAN]
  /\ tim \in [Cores -> Registers]
  /\ at \in [Tim!Contexts -> Place]
  /\ delayed \in [Tim!Contexts -> Nat]
  /\ remaining \in [Tim!Contexts -> 0 .. U32_MAX]
  /\ delay \in [Tim!Contexts -> 0 .. U32_MAX]
  /\ elapsed \in [Tim!Contexts -> 0 .. U32_MAX]

(* Nobody else uses the timer of a core once it is taken.                  *)
Owns(x) == at[x] \notin {"start", "none"}
OneOwner ==
  /\ \A x \in Tim!Contexts : Owns(x) => TIM_TAKEN[Tim!Core(x)]
  /\ \A x, y \in Tim!Contexts : Owns(x) /\ Owns(y) /\ Tim!Core(x) = Tim!Core(y) => x = y

(* What was to be waited for by now, and at the end of the chunk.          *)
past(x) == delay[x] - remaining[x]
due(x) == past(x) + Tim!chunk(x)

(* A delay has at most two chunks, the second of one tick.  The timer is   *)
(* off when the first is programmed, and at zero when the second is.       *)
Chunked(x) ==
  /\ remaining[x] <= delay[x] /\ ~ Tim!regs(x).auto_reload
  /\ remaining[x] # delay[x] => remaining[x] <= 1
  /\ at[x] # "loop" => remaining[x] > 0
  /\ remaining[x] = delay[x] /\ at[x] # "wait" => ~ Tim!regs(x).enable
  /\ at[x] \in {"loop", "reload"} /\ remaining[x] > 0 /\ Tim!regs(x).enable =>
       Tim!regs(x).counter = 0

(* The event flag is that of the chunk, which is not over before it is     *)
(* set.                                                                    *)
Counted(x) ==
  /\ elapsed[x] >= past(x) /\ elapsed[x] <= delay[x]
  /\ at[x] = "reload" => ~ Tim!regs(x).event_flag
  /\ at[x] \in {"counter", "enable", "wait"} =>
       IF Tim!regs(x).event_flag
       THEN /\ elapsed[x] >= due(x)
            /\ remaining[x] = delay[x] => at[x] = "wait" /\ Tim!regs(x).counter = 0
       ELSE elapsed[x] + Tim!regs(x).counter >= due(x)

Lasts(x) ==
  IF Tim!Delaying(x) THEN Chunked(x) /\ Counted(x) ELSE elapsed[x] >= delay[x]

DelayInv ==
  /\ TimTypeOK /\ OneOwner
  /\ \A x \in Tim!Contexts : Lasts(x)

LEMMA ContextsHaveCores ==
  ASSUME NEW x \in Tim!Contexts PROVE Tim!Core(x) \in Cores
BY DEF Tim!Contexts, Tim!Core, Tim!PrivateTimerAssumption

(* The lower 32 bits of what remains are all of it.                        *)
LEMMA ChunkIsMinimum ==
  ASSUME TimTypeOK, NEW x \in Tim!Contexts
  PROVE  /\ Tim!chunk(x) = Tim!Min2(remaining[x], U32_MAX - 1)
         /\ Tim!chunk(x) \in Nat /\ Tim!chunk(x) <= remaining[x]
         /\ remaining[x] \in 0 .. U32_MAX /\ U32_MAX \in Nat /\ U32_MAX > 1
<1>1. remaining[x] \in 0 .. U32_MAX /\ U32_MAX \in Nat /\ U32_MAX > 1
  BY DEF TimTypeOK, Tim!PrivateTimerAssumption
<1>2. \A n \in Nat : \A m \in 0 .. n : m % (n + 1) = m
  OBVIOUS
<1>3. remaining[x] % (U32_MAX + 1) = remaining[x]
  BY <1>1, <1>2
<1> QED
  BY <1>1, <1>3 DEF Tim!chunk, Tim!Min2

(* A context is not disturbed by what leaves its timer alone.              *)
LEMMA Undisturbed ==
  ASSUME NEW x \in Tim!Contexts, Lasts(x), at'[x] = at[x], remaining'[x] = remaining[x],
         delay'[x] = delay[x], elapsed'[x] = elapsed[x],
         Tim!Delaying(x) => tim'[Tim!Core(x)] = tim[Tim!Core(x)]
  PROVE  Lasts(x)'
<1>1. Tim!Delaying(x)' <=> Tim!Delaying(x)
  BY DEF Tim!Delaying
<1>2. CASE ~ Tim!Delaying(x)
  BY <1>1, <1>2 DEF Lasts
<1>3. CASE Tim!Delaying(x)
  <2>1. past(x)' = past(x) /\ due(x)' = due(x) /\ Tim!regs(x)' = Tim!regs(x)
    BY <1>3 DEF past, due, Tim!chunk, Tim!regs
  <2>2. Chunked(x)' /\ Counted(x)'
    BY <1>3, <2>1 DEF Lasts, Chunked, Counted
  <2> QED
    BY <1>1, <1>3, <2>2 DEF Lasts
<1> QED
  BY <1>2, <1>3

LEMMA InitDelay == Tim!PrivTimInit => DelayInv
<1> SUFFICES ASSUME Tim!PrivTimInit PROVE DelayInv
  OBVIOUS
<1>1. 0 \in 0 .. U32_MAX
  BY DEF Tim!PrivateTimerAssumption
<1>2. tim \in [Cores -> Registers]
  BY DEF Tim!PrivTimInit, Registers
<1>3. TimTypeOK
  BY <1>1, <1>2 DEF Tim!PrivTimInit, TimTypeOK, Place
<1>4. \A x \in Tim!Contexts : ~ Owns(x) /\ ~ Tim!Delaying(x) /\ elapsed[x] = 0 /\ delay[x] = 0
  BY DEF Tim!PrivTimInit, Owns, Tim!Delaying
<1> QED
  BY <1>3, <1>4 DEF DelayInv, OneOwner, Lasts

(* What a step of a context does to the registers and to where it is.      *)
LEMMA ModifyStep ==
  ASSUME TimTypeOK, NEW x \in Tim!Contexts, NEW r \in Registers, Tim!modify(x, r)
  PROVE  /\ tim' \in [Cores -> Registers] /\ Tim!regs(x)' = r
         /\ \A c \in Cores : c # Tim!Core(x) => tim'[c] = tim[c]
BY ContextsHaveCores DEF TimTypeOK, Tim!modify, Tim!regs

LEMMA GotoStep ==
  ASSUME TimTypeOK, NEW x \in Tim!Contexts, NEW to \in Place, Tim!goto(x, to)
  PROVE  /\ at' \in [Tim!Contexts -> Place] /\ at'[x] = to
         /\ \A y \in Tim!Contexts : y # x => at'[y] = at[y]
BY DEF TimTypeOK, Tim!goto

(* A step of the context that owns a timer leaves the others alone.        *)
LEMMA OwnersStep ==
  ASSUME DelayInv, NEW x \in Tim!Contexts, Owns(x), TIM_TAKEN' = TIM_TAKEN,
         \A y \in Tim!Contexts : y # x =>
           /\ at'[y] = at[y] /\ remaining'[y] = remaining[y]
           /\ delay'[y] = delay[y] /\ elapsed'[y] = elapsed[y],
         \A c \in Cores : c # Tim!Core(x) => tim'[c] = tim[c]
  PROVE  OneOwner' /\ \A y \in Tim!Contexts : y # x => Lasts(y)'
<1>1. OneOwner'
  <2>1. \A y \in Tim!Contexts : Owns(y)' => Owns(y)
    BY DEF Owns
  <2> QED
    BY <2>1 DEF DelayInv, OneOwner
<1>2. ASSUME NEW y \in Tim!Contexts, y # x PROVE Lasts(y)'
  <2>1. Tim!Delaying(y) => Owns(y)
    BY DEF Tim!Delaying, Owns
  <2>2. Tim!Delaying(y) => tim'[Tim!Core(y)] = tim[Tim!Core(y)]
    BY <1>2, <2>1, ContextsHaveCores DEF DelayInv, OneOwner
  <2>3. Lasts(y)
    BY DEF DelayInv
  <2> QED
    BY <1>2, <2>2, <2>3, Undisturbed
<1> QED
  BY <1>1, <1>2

LEMMA TakeStep ==
  ASSUME DelayInv, NEW x \in Tim!Contexts, Tim!take(x)
  PROVE  DelayInv'
<1>1. /\ at[x] = "start" /\ TIM_TAKEN' = [TIM_TAKEN EXCEPT ![Tim!Core(x)] = TRUE]
      /\ Tim!goto(x, IF TIM_TAKEN[Tim!Core(x)] THEN "none" ELSE "owner")
      /\ UNCHANGED <<tim, delayed, remaining, delay, elapsed>>
  BY DEF Tim!take, Tim!swap
<1>2. TimTypeOK /\ OneOwner /\ Tim!Core(x) \in Cores
  BY ContextsHaveCores DEF DelayInv
<1>3. /\ at' \in [Tim!Contexts -> Place]
      /\ at'[x] = (IF TIM_TAKEN[Tim!Core(x)] THEN "none" ELSE "owner")
      /\ \A y \in Tim!Contexts : y # x => at'[y] = at[y]
  BY <1>1, <1>2, GotoStep DEF Place
<1>4. TimTypeOK'
  BY <1>1, <1>2, <1>3 DEF TimTypeOK
<1>5. OneOwner'
  <2>1. \A c \in Cores : TIM_TAKEN'[c] = (TIM_TAKEN[c] \/ c = Tim!Core(x))
    BY <1>1, <1>2 DEF TimTypeOK
  <2>2. \A y \in Tim!Contexts : y # x => (Owns(y)' <=> Owns(y))
    BY <1>3 DEF Owns
  <2>3. Owns(x)' => ~ TIM_TAKEN[Tim!Core(x)]
    BY <1>3 DEF Owns
  <2> QED
    BY <1>2, <2>1, <2>2, <2>3, ContextsHaveCores DEF OneOwner
<1>6. ASSUME NEW y \in Tim!Contexts PROVE Lasts(y)'
  <2>1. Lasts(y) /\ Lasts(x)
    BY DEF DelayInv
  <2>2. CASE y = x
    BY <1>1, <1>3, <2>1, <2>2 DEF Lasts, Tim!Delaying
  <2>3. CASE y # x
    BY <1>1, <1>3, <2>1, <2>3, Undisturbed
  <2> QED
    BY <2>2, <2>3
<1> QED
  BY <1>4, <1>5, <1>6 DEF DelayInv

LEMMA DelayNsStep ==
  ASSUME DelayInv, NEW x \in Tim!Contexts, Tim!delay_ns(x)
  PROVE  DelayInv'
<1> DEFINE off == [Tim!regs(x) EXCEPT !.enable = FALSE, !.auto_reload = FALSE]
<1>1. PICK ticks \in Delays : /\ remaining' = [remaining EXCEPT ![x] = ticks]
                             /\ delay' = [delay EXCEPT ![x] = ticks]
  BY DEF Tim!delay_ns
<1>2. /\ at[x] = "owner" /\ delayed' = [delayed EXCEPT ![x] = @ + 1]
      /\ elapsed' = [elapsed EXCEPT ![x] = 0] /\ TIM_TAKEN' = TIM_TAKEN
      /\ Tim!modify(x, off) /\ Tim!goto(x, "loop")
  BY DEF Tim!delay_ns
<1>3. TimTypeOK /\ OneOwner /\ Tim!Core(x) \in Cores /\ ticks \in 0 .. U32_MAX /\ U32_MAX \in Nat
  BY ContextsHaveCores DEF DelayInv, Tim!PrivateTimerAssumption
<1>4. off \in Registers /\ ~ off.enable /\ ~ off.auto_reload
  <2>1. Tim!regs(x) \in Registers
    BY <1>3 DEF TimTypeOK, Tim!regs
  <2> QED
    BY <2>1 DEF Registers
<1> HIDE DEF off
<1>5. /\ tim' \in [Cores -> Registers] /\ Tim!regs(x)' = off
      /\ \A c \in Cores : c # Tim!Core(x) => tim'[c] = tim[c]
  BY <1>2, <1>3, <1>4, ModifyStep
<1>6. /\ at' \in [Tim!Contexts -> Place] /\ at'[x] = "loop"
      /\ \A y \in Tim!Contexts : y # x => at'[y] = at[y]
  BY <1>2, <1>3, GotoStep DEF Place
<1>7. TimTypeOK'
  BY <1>1, <1>2, <1>3, <1>5, <1>6 DEF TimTypeOK
<1>8. remaining'[x] = ticks /\ delay'[x] = ticks /\ elapsed'[x] = 0
  BY <1>1, <1>2, <1>3 DEF TimTypeOK
<1>9. Lasts(x)'
  <2>1. Chunked(x)'
    BY <1>3, <1>4, <1>5, <1>6, <1>8 DEF Chunked
  <2>2. Counted(x)'
    BY <1>3, <1>6, <1>8 DEF Counted, past
  <2> QED
    BY <1>6, <2>1, <2>2 DEF Lasts, Tim!Delaying
<1>10. OneOwner' /\ \A y \in Tim!Contexts : y # x => Lasts(y)'
  <2>1. Owns(x)
    BY <1>2 DEF Owns
  <2>2. \A y \in Tim!Contexts : y # x =>
          /\ remaining'[y] = remaining[y] /\ delay'[y] = delay[y] /\ elapsed'[y] = elapsed[y]
    BY <1>1, <1>2, <1>3 DEF TimTypeOK
  <2> QED
    BY <1>2, <1>5, <1>6, <2>1, <2>2, OwnersStep
<1> QED
  BY <1>7, <1>9, <1>10 DEF DelayInv

(* A step of the loop that programs the timer, or counts what is left.     *)
LEMMA LoopStep ==
  ASSUME DelayInv, NEW x \in Tim!Contexts, NEW to \in Place, Tim!goto(x, to), Owns(x),
         UNCHANGED <<TIM_TAKEN, delayed, delay, elapsed>>,
         NEW r \in Registers, Tim!modify(x, r) \/ (r = Tim!regs(x) /\ tim' = tim),
         NEW left \in 0 .. U32_MAX, remaining' = [remaining EXCEPT ![x] = left],
         (at'[x] = to /\ Tim!regs(x)' = r /\ remaining'[x] = left) => Lasts(x)'
  PROVE  DelayInv'
<1>1. TimTypeOK /\ Tim!Core(x) \in Cores
  BY ContextsHaveCores DEF DelayInv
<1>2. /\ tim' \in [Cores -> Registers] /\ Tim!regs(x)' = r
      /\ \A c \in Cores : c # Tim!Core(x) => tim'[c] = tim[c]
  BY <1>1, ModifyStep DEF TimTypeOK, Tim!regs
<1>3. /\ at' \in [Tim!Contexts -> Place] /\ at'[x] = to
      /\ \A y \in Tim!Contexts : y # x => at'[y] = at[y]
  BY <1>1, GotoStep
<1>4. /\ remaining' \in [Tim!Contexts -> 0 .. U32_MAX] /\ remaining'[x] = left
      /\ \A y \in Tim!Contexts : y # x => remaining'[y] = remaining[y]
  BY <1>1 DEF TimTypeOK
<1>5. TimTypeOK'
  BY <1>1, <1>2, <1>3, <1>4 DEF TimTypeOK
<1>6. OneOwner' /\ \A y \in Tim!Contexts : y # x => Lasts(y)'
  BY <1>2, <1>3, <1>4, OwnersStep
<1> QED
  BY <1>2, <1>3, <1>4, <1>5, <1>6 DEF DelayInv

LEMMA DelayLoopStep ==
  ASSUME DelayInv, NEW x \in Tim!Contexts, Tim!delay_loop(x),
         UNCHANGED <<TIM_TAKEN, delayed, delay, elapsed>>
  PROVE  DelayInv'
<1> DEFINE r == Tim!regs(x)
           c == Tim!chunk(x)
<1>1. at[x] \in {"loop", "reload", "counter", "enable", "wait"}
  BY DEF Tim!delay_loop
<1>2. Owns(x) /\ Chunked(x) /\ Counted(x)
  <2>1. Tim!Delaying(x) /\ Lasts(x)
    BY <1>1 DEF DelayInv, Tim!Delaying
  <2> QED
    BY <1>1, <2>1 DEF Lasts, Owns
<1>3. /\ TimTypeOK /\ r \in Registers /\ remaining[x] \in 0 .. U32_MAX /\ delay[x] \in 0 .. U32_MAX
      /\ elapsed[x] \in 0 .. U32_MAX /\ U32_MAX \in Nat /\ U32_MAX > 1
      /\ c = Tim!Min2(remaining[x], U32_MAX - 1) /\ c \in Nat /\ c <= remaining[x]
  <2>1. TimTypeOK
    BY DEF DelayInv
  <2> QED
    BY <2>1, ContextsHaveCores, ChunkIsMinimum DEF TimTypeOK, Tim!regs
<1>4. r.enable \in BOOLEAN /\ r.event_flag \in BOOLEAN /\ r.counter \in Nat
  BY <1>3 DEF Registers
<1>5. ASSUME remaining' = remaining
      PROVE  /\ remaining' = [remaining EXCEPT ![x] = remaining[x]]
             /\ past(x)' = past(x) /\ due(x)' = due(x) /\ c' = c
  BY <1>3, <1>5 DEF TimTypeOK, past, due, Tim!chunk
<1>6. CASE at[x] = "loop" /\ remaining[x] = 0
  <2>1. Tim!goto(x, "owner") /\ tim' = tim /\ remaining' = remaining
    BY <1>6 DEF Tim!delay_loop
  <2>2. at'[x] = "owner" => Lasts(x)'
    BY <1>2, <1>3, <1>6 DEF Lasts, Tim!Delaying, Counted, past
  <2> QED
    BY <1>2, <1>3, <1>5, <2>1, <2>2, LoopStep DEF Place
<1>7. CASE at[x] = "loop" /\ remaining[x] > 0
  <2> DEFINE new == [r EXCEPT !.event_flag = FALSE]
  <2>1. Tim!goto(x, "reload") /\ Tim!modify(x, new) /\ remaining' = remaining
    BY <1>7 DEF Tim!delay_loop, Tim!event_flag_cleared
  <2>2. /\ new \in Registers /\ ~ new.event_flag /\ new.enable = r.enable
        /\ new.auto_reload = r.auto_reload /\ new.counter = r.counter
    BY <1>3 DEF Registers
  <2> HIDE DEF new
  <2>3. at'[x] = "reload" /\ Tim!regs(x)' = new => Lasts(x)'
    BY <1>2, <1>5, <1>7, <2>1, <2>2 DEF Lasts, Tim!Delaying, Chunked, Counted
  <2> QED
    BY <1>2, <1>3, <1>5, <2>1, <2>2, <2>3, LoopStep DEF Place
<1>8. CASE at[x] = "reload"
  <2> DEFINE new == [r EXCEPT !.reload = c, !.counter = c]
  <2>1. Tim!goto(x, "counter") /\ Tim!modify(x, new) /\ remaining' = remaining
    BY <1>8 DEF Tim!delay_loop
  <2>2. /\ new \in Registers /\ new.event_flag = r.event_flag /\ new.enable = r.enable
        /\ new.auto_reload = r.auto_reload /\ new.counter = c
    BY <1>3 DEF Registers
  <2> HIDE DEF new, c
  <2>3. at'[x] = "counter" /\ Tim!regs(x)' = new => Lasts(x)'
    <3>1. elapsed[x] + c >= due(x)
      BY <1>2, <1>3 DEF Counted, due, past, c
    <3> QED
      BY <1>2, <1>5, <1>8, <2>1, <2>2, <3>1 DEF Lasts, Tim!Delaying, Chunked, Counted
  <2> QED
    BY <1>2, <1>3, <1>5, <2>1, <2>2, <2>3, LoopStep DEF Place
<1>9. CASE at[x] = "counter"
  <2> DEFINE new == [r EXCEPT !.counter = c]
  <2>1. Tim!goto(x, "enable") /\ Tim!modify(x, new) /\ remaining' = remaining
    BY <1>9 DEF Tim!delay_loop
  <2>2. /\ new \in Registers /\ new.event_flag = r.event_flag /\ new.enable = r.enable
        /\ new.auto_reload = r.auto_reload /\ new.counter = c
    BY <1>3 DEF Registers
  <2> HIDE DEF new, c
  <2>3. at'[x] = "enable" /\ Tim!regs(x)' = new => Lasts(x)'
    <3>1. elapsed[x] + c >= due(x)
      BY <1>2, <1>3 DEF Counted, due, past, c
    <3> QED
      BY <1>2, <1>5, <1>9, <2>1, <2>2, <3>1 DEF Lasts, Tim!Delaying, Chunked, Counted
  <2> QED
    BY <1>2, <1>3, <1>5, <2>1, <2>2, <2>3, LoopStep DEF Place
<1>10. CASE at[x] = "enable"
  <2> DEFINE new == [r EXCEPT !.enable = TRUE]
  <2>1. Tim!goto(x, "wait") /\ Tim!modify(x, new) /\ remaining' = remaining
    BY <1>10 DEF Tim!delay_loop
  <2>2. /\ new \in Registers /\ new.event_flag = r.event_flag
        /\ new.auto_reload = r.auto_reload /\ new.counter = r.counter
    BY <1>3 DEF Registers
  <2> HIDE DEF new
  <2>3. at'[x] = "wait" /\ Tim!regs(x)' = new => Lasts(x)'
    BY <1>2, <1>5, <1>10, <2>1, <2>2 DEF Lasts, Tim!Delaying, Chunked, Counted
  <2> QED
    BY <1>2, <1>3, <1>5, <2>1, <2>2, <2>3, LoopStep DEF Place
<1>11. CASE at[x] = "wait"
  <2>1. /\ Tim!goto(x, "loop") /\ tim' = tim /\ r.event_flag
        /\ remaining' = [remaining EXCEPT ![x] = remaining[x] - c]
    BY <1>11 DEF Tim!delay_loop
  <2>2. remaining[x] - c \in 0 .. U32_MAX
    BY <1>3
  <2>3. at'[x] = "loop" /\ Tim!regs(x)' = r /\ remaining'[x] = remaining[x] - c => Lasts(x)'
    <3> SUFFICES ASSUME at'[x] = "loop", Tim!regs(x)' = r, remaining'[x] = remaining[x] - c
                 PROVE  Chunked(x)' /\ Counted(x)'
      BY DEF Lasts, Tim!Delaying
    <3>1. elapsed[x] >= delay[x] - remaining[x] + c /\ elapsed[x] <= delay[x]
      BY <1>2, <1>11, <2>1 DEF Counted, due, past
    <3>2. CASE remaining[x] = delay[x]
      <4>1. r.counter = 0 /\ ~ r.auto_reload
        BY <1>2, <1>11, <2>1, <3>2 DEF Chunked, Counted
      <4>2. remaining[x] - c <= 1 /\ remaining[x] - c # delay[x] /\ remaining[x] - c <= delay[x]
        BY <1>2, <1>3, <1>11, <3>2 DEF Tim!Min2, Chunked
      <4> QED
        BY <1>3, <3>1, <4>1, <4>2 DEF Chunked, Counted, past
    <3>3. CASE remaining[x] # delay[x]
      <4>1. remaining[x] = 1 /\ c = 1 /\ delay[x] > 0 /\ ~ r.auto_reload
        BY <1>2, <1>3, <1>11, <3>3 DEF Tim!Min2, Chunked
      <4> QED
        BY <1>3, <3>1, <4>1 DEF Chunked, Counted, past
    <3> QED
      BY <3>2, <3>3
  <2> QED
    BY <1>2, <1>3, <2>1, <2>2, <2>3, LoopStep DEF Place
<1> QED
  BY <1>1, <1>3, <1>6, <1>7, <1>8, <1>9, <1>10, <1>11

(* The timer of a core counts, and with it the delay of its owner.         *)
LEMMA CountedStep ==
  ASSUME NEW r \in Registers
  PROVE  /\ Tim!counted(r) \in Registers
         /\ Tim!counted(r).enable = r.enable /\ Tim!counted(r).auto_reload = r.auto_reload
         /\ ~ r.enable \/ r.counter = 0 => Tim!counted(r) = r
         /\ r.enable /\ r.counter > 0 /\ ~ r.auto_reload =>
              /\ Tim!counted(r).counter = r.counter - 1
              /\ Tim!counted(r).event_flag = (r.event_flag \/ r.counter = 1)
<1> DEFINE n == IF r.counter = 1 /\ r.auto_reload THEN r.reload ELSE r.counter - 1
           e == r.event_flag \/ r.counter = 1
           new == [r EXCEPT !.counter = n, !.event_flag = e]
<1>1. CASE ~ r.enable \/ r.counter = 0
  BY <1>1 DEF Tim!counted
<1>2. CASE r.enable /\ r.counter > 0
  <2>1. Tim!counted(r) = new
    BY <1>2 DEF Tim!counted
  <2>2. n \in Nat /\ e \in BOOLEAN /\ r.counter \in Nat
    BY <1>2 DEF Registers
  <2>3. new \in Registers /\ new.enable = r.enable /\ new.auto_reload = r.auto_reload
        /\ new.counter = n /\ new.event_flag = e
    <3> HIDE DEF n, e
    <3> QED
      BY <2>2 DEF Registers
  <2> HIDE DEF new
  <2> QED
    BY <1>2, <2>1, <2>2, <2>3
<1> QED
  BY <1>1, <1>2 DEF Registers

LEMMA TickStep ==
  ASSUME DelayInv, Tim!tick
  PROVE  DelayInv'
<1>1. PICK k \in Cores :
        /\ tim' = [tim EXCEPT ![k] = Tim!counted(@)]
        /\ elapsed' = [x \in Tim!Contexts |->
                         IF Tim!Core(x) = k /\ Tim!Delaying(x)
                         THEN Tim!Min2(elapsed[x] + 1, delay[x]) ELSE elapsed[x]]
        /\ UNCHANGED <<TIM_TAKEN, at, delayed, remaining, delay>>
  BY DEF Tim!tick
<1>2. TimTypeOK /\ tim[k] \in Registers /\ U32_MAX \in Nat
  BY DEF DelayInv, TimTypeOK, Tim!PrivateTimerAssumption
<1>3. /\ tim' \in [Cores -> Registers] /\ tim'[k] = Tim!counted(tim[k])
      /\ \A c \in Cores : c # k => tim'[c] = tim[c]
  BY <1>1, <1>2, CountedStep DEF TimTypeOK
<1>4. elapsed' \in [Tim!Contexts -> 0 .. U32_MAX]
  BY <1>1, <1>2 DEF TimTypeOK, Tim!Min2
<1>5. TimTypeOK' /\ OneOwner'
  BY <1>1, <1>2, <1>3, <1>4 DEF DelayInv, TimTypeOK, OneOwner, Owns
<1>6. ASSUME NEW x \in Tim!Contexts PROVE Lasts(x)'
  <2>1. Lasts(x)
    BY DEF DelayInv
  <2>2. CASE ~ (Tim!Core(x) = k /\ Tim!Delaying(x))
    <3>1. elapsed'[x] = elapsed[x]
      BY <1>1, <2>2
    <3>2. Tim!Delaying(x) => tim'[Tim!Core(x)] = tim[Tim!Core(x)]
      BY <1>3, <2>2, ContextsHaveCores
    <3> QED
      BY <1>1, <2>1, <3>1, <3>2, Undisturbed
  <2>3. CASE Tim!Core(x) = k /\ Tim!Delaying(x)
    <3> DEFINE r == tim[k]
               s == Tim!counted(r)
    <3>1. Chunked(x) /\ Counted(x) /\ Tim!regs(x) = r /\ Tim!regs(x)' = s /\ Tim!Delaying(x)'
      BY <1>1, <1>3, <2>1, <2>3 DEF Lasts, Tim!regs, Tim!Delaying
    <3>2. /\ elapsed[x] \in 0 .. U32_MAX /\ delay[x] \in 0 .. U32_MAX
          /\ remaining[x] \in 0 .. U32_MAX
          /\ Tim!chunk(x) \in Nat /\ Tim!chunk(x) <= remaining[x]
      BY <1>2, ChunkIsMinimum DEF TimTypeOK
    <3>3. elapsed'[x] = IF elapsed[x] < delay[x] THEN elapsed[x] + 1 ELSE delay[x]
      BY <1>1, <2>3, <3>2 DEF Tim!Min2
    <3>4. past(x)' = past(x) /\ due(x)' = due(x) /\ due(x) <= delay[x] /\ past(x) <= due(x)
      BY <1>1, <3>2 DEF past, due, Tim!chunk
    <3>5. /\ r.counter \in Nat /\ ~ r.auto_reload /\ s.enable = r.enable /\ ~ s.auto_reload
          /\ ~ r.enable \/ r.counter = 0 => s = r
          /\ r.enable /\ r.counter > 0 =>
               s.counter = r.counter - 1 /\ s.event_flag = (r.event_flag \/ r.counter = 1)
      BY <1>2, <3>1, CountedStep DEF Chunked, Registers
    <3>6. s.counter = 0 \/ ~ s.enable \/ r.counter > 0
      BY <3>5
    <3> HIDE DEF s, r
    <3>7. Chunked(x)'
      BY <1>1, <3>1, <3>5 DEF Chunked
    <3>8. elapsed'[x] >= elapsed[x] /\ elapsed'[x] <= delay[x]
          /\ (elapsed'[x] = elapsed[x] + 1 \/ elapsed'[x] = delay[x])
      BY <3>1, <3>2, <3>3 DEF Counted
    <3>9. Counted(x)'
      <4>1. elapsed'[x] >= past(x)' /\ elapsed'[x] <= delay'[x]
        BY <1>1, <3>1, <3>2, <3>4, <3>8 DEF Counted, past
      <4>2. at'[x] = "reload" => ~ s.event_flag
        BY <1>1, <3>1, <3>5 DEF Chunked, Counted
      <4>3. ASSUME at[x] \in {"counter", "enable", "wait"}
            PROVE  IF s.event_flag
                   THEN /\ elapsed'[x] >= due(x)
                        /\ remaining[x] = delay[x] => at[x] = "wait" /\ s.counter = 0
                   ELSE elapsed'[x] + s.counter >= due(x)
        <5>1. due(x) \in Int
          BY <3>2 DEF due, past
        <5>2. CASE ~ r.enable \/ r.counter = 0
          BY <3>1, <3>2, <3>5, <3>8, <4>3, <5>1, <5>2 DEF Counted
        <5>3. CASE r.enable /\ r.counter > 0
          <6>1. s.counter = r.counter - 1 /\ (s.event_flag <=> r.event_flag \/ r.counter = 1)
            BY <3>5, <5>3
          <6>2. /\ r.event_flag => elapsed[x] >= due(x) /\ remaining[x] # delay[x]
                /\ ~ r.event_flag => elapsed[x] + r.counter >= due(x)
            BY <3>1, <3>5, <4>3, <5>3 DEF Counted
          <6>3. remaining[x] = delay[x] => at[x] = "wait"
            BY <3>1, <5>3 DEF Chunked
          <6>4. s.event_flag => elapsed'[x] >= due(x)
            BY <3>2, <3>4, <3>5, <3>8, <5>1, <6>1, <6>2
          <6>5. ~ s.event_flag => elapsed'[x] + s.counter >= due(x)
            BY <3>2, <3>4, <3>5, <3>8, <5>1, <6>1, <6>2
          <6> QED
            BY <3>5, <6>1, <6>2, <6>3, <6>4, <6>5
        <5> QED
          BY <3>5, <5>2, <5>3
      <4> QED
        BY <1>1, <3>1, <3>4, <4>1, <4>2, <4>3 DEF Counted
    <3> QED
      BY <3>1, <3>7, <3>9 DEF Lasts
  <2> QED
    BY <2>2, <2>3
<1> QED
  BY <1>5, <1>6 DEF DelayInv

LEMMA DelayStep ==
  DelayInv /\ [Tim!PrivTimNext]_(Tim!privTimVars) => DelayInv'
<1> SUFFICES ASSUME DelayInv, [Tim!PrivTimNext]_(Tim!privTimVars) PROVE DelayInv'
  OBVIOUS
<1>1. CASE Tim!Software
  <2>1. PICK x \in Tim!Contexts :
          \/ Tim!take(x)
          \/ Tim!delay_ns(x)
          \/ Tim!delay_loop(x) /\ UNCHANGED <<TIM_TAKEN, delayed, delay, elapsed>>
    BY <1>1 DEF Tim!Software
  <2> QED
    BY <2>1, TakeStep, DelayNsStep, DelayLoopStep
<1>2. CASE Tim!tick
  BY <1>2, TickStep
<1>3. CASE UNCHANGED Tim!privTimVars
  <2>1. UNCHANGED <<TIM_TAKEN, tim, at, delayed, remaining, delay, elapsed>>
    BY <1>3 DEF Tim!privTimVars
  <2>2. TimTypeOK' /\ OneOwner'
    BY <2>1 DEF DelayInv, TimTypeOK, OneOwner, Owns
  <2>3. \A x \in Tim!Contexts : Lasts(x)'
    BY <2>1, Undisturbed DEF DelayInv
  <2> QED
    BY <2>2, <2>3 DEF DelayInv
<1> QED
  BY <1>1, <1>2, <1>3 DEF Tim!PrivTimNext

(* The delays of all contexts of all cores last, since the event flag is   *)
(* that of the chunk and nobody else uses the timer.                       *)
THEOREM DelayInvariant == Tim!PrivTimSpec => []DelayInv
<1>1. Tim!PrivTimInit => DelayInv
  BY InitDelay
<1>2. DelayInv /\ [Tim!PrivTimNext]_(Tim!privTimVars) => DelayInv'
  BY DelayStep
<1> QED
  BY <1>1, <1>2, PTL DEF Tim!PrivTimSpec

(* A delay that returns has lasted the ticks asked for, whatever state the *)
(* timer was left in, on any number of cores with or without a handler     *)
(* that also asks for the timer.                                           *)
THEOREM DelaysAreNotShort == Tim!PrivTimSpec => []DelaysLast
<1>1. DelayInv => DelaysLast
  BY DEF DelayInv, Lasts, Tim!Delaying, DelaysLast, Tim!DelaysLast
<1> QED
  BY DelayInvariant, <1>1, PTL

-----------------------------------------------------------------------------
(* PWM.                                                                    *)

PwmStep == {"idle", "set_up", "interval", "match", "enable", "set_duty", "duty"}

PwmTypeOK ==
  /\ cnt_ctrl \in {"disabled", "enabled"}
  /\ interval \in Nat /\ match_0 \in Nat /\ counter \in Nat /\ level \in Nat
  /\ pwm_calls \in Nat /\ pwm_call \in PwmStep \X Nat \X Nat

(* What the call under way has set, and is going to set.                   *)
CallSets ==
  /\ Out!step("idle") => pwm_call = Out!idle
  /\ ~ Out!step("idle") => pwm_calls > 0
  /\ ~ Out!step("set_up") /\ ~ Out!step("interval") /\ pwm_calls > 0 => interval \in Intervals
  /\ Out!step("set_up") \/ Out!step("interval") => pwm_call[2] \in Intervals
  /\ Out!step("set_up") \/ Out!step("interval") \/ Out!step("match") => pwm_call[3] = 0
  /\ ~ Out!step("idle") /\ ~ Out!step("set_up") /\ ~ Out!step("interval") =>
       pwm_call[2] = interval /\ pwm_call[3] <= interval
  /\ Out!step("enable") => match_0 = pwm_call[3]

(* While the counter runs its registers are those of the last call that    *)
(* returned, and the output was high from the start of the period to the   *)
(* match.                                                                  *)
RunsAsSet ==
  cnt_ctrl = "enabled" =>
    /\ Out!step("idle") \/ Out!step("set_up") \/ Out!step("set_duty")
    /\ wanted = <<interval, match_0>> /\ match_0 <= interval /\ pwm_calls > 0
    /\ counter < interval
    /\ level = IF counter < match_0 THEN counter ELSE match_0

PwmInv == PwmTypeOK /\ CallSets /\ RunsAsSet /\ Out!PeriodsAsAsked

(* A duty cycle of some percent is no longer than the period.              *)
LEMMA DutyFits ==
  ASSUME NEW p \in 0 .. 100, NEW n \in Nat
  PROVE  (p * n) \div 100 \in Nat /\ (p * n) \div 100 <= n
<1>1. p * n <= 100 * n /\ p * n \in Nat
  <2>1. \A a \in Nat, b \in Nat : a * b \in Nat
    OBVIOUS
  <2>2. (100 - p) * n \in Nat /\ (100 - p) * n = 100 * n - p * n
    BY <2>1
  <2> QED
    BY <2>1, <2>2
<1>2. \A m \in Nat : m <= 100 * n => m \div 100 \in Nat /\ m \div 100 <= n
  OBVIOUS
<1> QED
  BY <1>1, <1>2

LEMMA PwmGoto ==
  ASSUME PwmTypeOK, NEW to \in PwmStep, Out!goto(to)
  PROVE  /\ pwm_call' \in PwmStep \X Nat \X Nat
         /\ pwm_call'[1] = to /\ pwm_call'[2] = pwm_call[2] /\ pwm_call'[3] = pwm_call[3]
BY DEF PwmTypeOK, Out!goto

LEMMA SetUpStep ==
  ASSUME PwmInv, Out!set_up_and_configure_pwm, UNCHANGED <<pwm_calls, periods>>
  PROVE  PwmInv'
<1>1. CASE Out!step("set_up")
  <2>1. Out!goto("interval") /\ cnt_ctrl' = "disabled"
        /\ UNCHANGED <<interval, match_0, counter, level, wanted>>
    BY <1>1 DEF Out!set_up_and_configure_pwm, Out!step, Out!registers
  <2> QED
    BY <1>1, <2>1, PwmGoto DEF PwmInv, PwmTypeOK, PwmStep, CallSets, RunsAsSet,
                               Out!PeriodsAsAsked, Out!step
<1>2. CASE Out!step("interval")
  <2>1. Out!goto("match") /\ interval' = pwm_call[2]
        /\ UNCHANGED <<cnt_ctrl, match_0, counter, level, wanted>>
    BY <1>2 DEF Out!set_up_and_configure_pwm, Out!step
  <2>2. cnt_ctrl = "disabled"
    BY <1>2 DEF PwmInv, PwmTypeOK, RunsAsSet, Out!step
  <2>3. pwm_call[2] \in Intervals /\ pwm_call[2] \in Nat
    BY <1>2 DEF PwmInv, CallSets, PwmTypeOK
  <2> QED
    BY <1>2, <2>1, <2>2, <2>3, PwmGoto DEF PwmInv, PwmTypeOK, PwmStep, CallSets, RunsAsSet,
      Out!PeriodsAsAsked, Out!step
<1>3. CASE Out!step("match")
  <2>1. Out!goto("enable") /\ match_0' = 0
        /\ UNCHANGED <<cnt_ctrl, interval, counter, level, wanted>>
    BY <1>3 DEF Out!set_up_and_configure_pwm, Out!step, Out!set_up_match
  <2>2. cnt_ctrl = "disabled"
    BY <1>3 DEF PwmInv, PwmTypeOK, RunsAsSet, Out!step
  <2> QED
    BY <1>3, <2>1, <2>2, PwmGoto DEF PwmInv, PwmTypeOK, PwmStep, CallSets, RunsAsSet,
      Out!PeriodsAsAsked, Out!step
<1> QED
  BY <1>1, <1>2, <1>3 DEF Out!set_up_and_configure_pwm

LEMMA SetDutyStep ==
  ASSUME PwmInv, Out!set_duty_cycle, UNCHANGED <<pwm_calls, periods>>
  PROVE  PwmInv'
<1>1. CASE Out!step("set_duty")
  <2>1. Out!goto("duty") /\ cnt_ctrl' = "disabled"
        /\ UNCHANGED <<interval, match_0, counter, level, wanted>>
    BY <1>1 DEF Out!set_duty_cycle, Out!step, Out!registers
  <2> QED
    BY <1>1, <2>1, PwmGoto DEF PwmInv, PwmTypeOK, PwmStep, CallSets, RunsAsSet,
                               Out!PeriodsAsAsked, Out!step
<1>2. CASE Out!step("duty")
  <2>1. Out!goto("enable") /\ match_0' = pwm_call[3]
        /\ UNCHANGED <<cnt_ctrl, interval, counter, level, wanted>>
    BY <1>2 DEF Out!set_duty_cycle, Out!step
  <2>2. cnt_ctrl = "disabled"
    BY <1>2 DEF PwmInv, PwmTypeOK, RunsAsSet, Out!step
  <2>3. pwm_call[3] \in Nat
    BY DEF PwmInv, PwmTypeOK
  <2> QED
    BY <1>2, <2>1, <2>2, <2>3, PwmGoto DEF PwmInv, PwmTypeOK, PwmStep, CallSets, RunsAsSet,
      Out!PeriodsAsAsked, Out!step
<1> QED
  BY <1>1, <1>2 DEF Out!set_duty_cycle

LEMMA EnableStep ==
  ASSUME PwmInv, Out!enable, UNCHANGED pwm_calls
  PROVE  PwmInv'
<1>1. /\ Out!step("enable") /\ pwm_call' = <<"idle", 0, 0>>
      /\ cnt_ctrl' = "enabled" /\ counter' = 0 /\ level' = 0 /\ periods' = {}
      /\ wanted' = <<pwm_call[2], pwm_call[3]>> /\ UNCHANGED <<interval, match_0>>
  BY DEF Out!enable, Out!idle, Out!registers
<1>2. /\ pwm_call[2] = interval /\ pwm_call[3] = match_0 /\ match_0 <= interval
      /\ pwm_calls > 0 /\ interval \in Intervals /\ interval \in Nat \ {0} /\ match_0 \in Nat
  BY <1>1 DEF PwmInv, PwmTypeOK, CallSets, Out!step, Out!PwmAssumption
<1>3. PwmTypeOK' /\ CallSets'
  BY <1>1, <1>2 DEF PwmInv, PwmTypeOK, PwmStep, CallSets, Out!step, Out!idle
<1>4. RunsAsSet'
  BY <1>1, <1>2 DEF RunsAsSet, Out!step
<1> QED
  BY <1>1, <1>3, <1>4 DEF PwmInv, Out!PeriodsAsAsked

(* The calls: a new period has a duty cycle of nothing, and the duty cycle *)
(* is computed from the period that is set.                                *)
LEMMA CallStep ==
  ASSUME PwmInv, Out!set_frequency \/ Out!set_duty_cycle_percent,
         UNCHANGED <<cnt_ctrl, interval, match_0, counter, level, wanted, periods>>
  PROVE  PwmInv'
<1>1. CASE Out!set_frequency
  <2>1. PICK ticks \in Intervals :
          /\ pwm_call = <<"idle", 0, 0>> /\ pwm_call' = <<"set_up", ticks, 0>>
          /\ pwm_calls' = pwm_calls + 1
    BY <1>1 DEF Out!set_frequency, Out!Begin, Out!idle
  <2>2. ticks \in Nat
    BY DEF Out!PwmAssumption
  <2> QED
    BY <2>1, <2>2 DEF PwmInv, PwmTypeOK, PwmStep, CallSets, RunsAsSet, Out!PeriodsAsAsked,
                      Out!step, Out!idle
<1>2. CASE Out!set_duty_cycle_percent
  <2>1. PICK percent \in Percents :
          /\ pwm_call = <<"idle", 0, 0>>
          /\ pwm_call' = <<"set_duty", interval, (percent * interval) \div 100>>
          /\ pwm_calls' = pwm_calls + 1 /\ pwm_calls > 0
    BY <1>2 DEF Out!set_duty_cycle_percent, Out!Begin, Out!idle
  <2> DEFINE duty == (percent * interval) \div 100
  <2>2. duty \in Nat /\ duty <= interval /\ interval \in Nat
    BY DutyFits DEF PwmInv, PwmTypeOK, Out!PwmAssumption
  <2>3. pwm_call' = <<"set_duty", interval, duty>>
    BY <2>1
  <2> HIDE DEF duty
  <2> QED
    BY <2>1, <2>2, <2>3 DEF PwmInv, PwmTypeOK, PwmStep, CallSets, RunsAsSet,
                            Out!PeriodsAsAsked, Out!step, Out!idle
<1> QED
  BY <1>1, <1>2

(* The counter: a period that ends was high for the ticks before the match.*)
LEMMA PwmTickStep ==
  ASSUME PwmInv, Out!tick
  PROVE  PwmInv'
<1>1. /\ cnt_ctrl = "enabled"
      /\ UNCHANGED <<cnt_ctrl, interval, match_0, pwm_call, wanted, pwm_calls>>
  BY DEF Out!tick, Out!registers
<1>2. /\ interval \in Nat /\ match_0 \in Nat /\ counter \in Nat /\ level \in Nat
      /\ wanted = <<interval, match_0>> /\ match_0 <= interval /\ counter < interval
      /\ level = IF counter < match_0 THEN counter ELSE match_0
  BY <1>1 DEF PwmInv, PwmTypeOK, RunsAsSet
<1> DEFINE up == IF counter < match_0 THEN 1 ELSE 0
<1>3. CASE counter + 1 < interval
  <2>1. counter' = counter + 1 /\ level' = level + up /\ periods' = periods
    BY <1>3 DEF Out!tick
  <2>2. /\ counter' \in Nat /\ level' \in Nat /\ counter' < interval
        /\ level' = IF counter' < match_0 THEN counter' ELSE match_0
    BY <1>2, <1>3, <2>1
  <2> QED
    BY <1>1, <2>1, <2>2 DEF PwmInv, PwmTypeOK, CallSets, RunsAsSet, Out!PeriodsAsAsked, Out!step
<1>4. CASE ~ counter + 1 < interval
  <2>1. counter' = 0 /\ level' = 0 /\ periods' = periods \cup {<<counter + 1, level + up>>}
    BY <1>4 DEF Out!tick
  <2>2. counter + 1 = interval /\ level + up = match_0 /\ 0 < interval
    BY <1>2, <1>4
  <2>3. periods' \subseteq {wanted}
    BY <1>2, <2>1, <2>2 DEF PwmInv, Out!PeriodsAsAsked
  <2> QED
    BY <1>1, <1>2, <2>1, <2>2, <2>3 DEF PwmInv, PwmTypeOK, CallSets, RunsAsSet,
                                        Out!PeriodsAsAsked, Out!step
<1> QED
  BY <1>3, <1>4

(* Period and duty cycle in the registers are those of one call whenever   *)
(* the counter runs, since a call stops it before it writes the first.     *)
THEOREM PwmInvariant == Out!PwmSpec => []PwmInv
<1>1. Out!PwmInit => PwmInv
  BY DEF Out!PwmInit, Out!idle, Out!step, PwmInv, PwmTypeOK, PwmStep, CallSets, RunsAsSet,
    Out!PeriodsAsAsked
<1>2. PwmInv /\ [Out!PwmNext]_(Out!pwmVars) => PwmInv'
  <2> SUFFICES ASSUME PwmInv, [Out!PwmNext]_(Out!pwmVars) PROVE PwmInv'
    OBVIOUS
  <2>1. CASE Out!Driver
    BY <2>1, SetUpStep, SetDutyStep, EnableStep, CallStep DEF Out!Driver, Out!registers
  <2>2. CASE Out!tick
    BY <2>2, PwmTickStep
  <2>3. CASE UNCHANGED Out!pwmVars
    BY <2>3 DEF PwmInv, PwmTypeOK, CallSets, RunsAsSet, Out!PeriodsAsAsked,
      Out!step, Out!pwmVars
  <2> QED
    BY <2>1, <2>2, <2>3 DEF Out!PwmNext
<1> QED
  BY <1>1, <1>2, PTL DEF Out!PwmSpec

(* No call lets out a period with the length of one setting and the duty   *)
(* cycle of another, for any periods the counter can hold and any duty     *)
(* cycle, wherever in the period a call stops the counter.                 *)
THEOREM PeriodsAreWhole == Out!PwmSpec => []PeriodsAsAsked
<1>1. PwmInv => PeriodsAsAsked
  BY DEF PwmInv, PeriodsAsAsked
<1> QED
  BY PwmInvariant, <1>1, PTL

-----------------------------------------------------------------------------
(* Bring-up of the clocks and the memory.                                  *)

PllStepName == {"idle", "bypass", "reset", "release", "wait", "unbypass", "done"}
Multiplier == 13 .. 66
Pll ==
  [fdiv : Multiplier, cfg : {Board!PllConfig(m) : m \in Multiplier}, mul : Multiplier,
   locked : BOOLEAN, bypass_qual : BOOLEAN, bypass_force : BOOLEAN, reset : BOOLEAN]
Ddrc == [reset : BOOLEAN, written : {{}, Board!written}, normal : BOOLEAN]

BoardTypeOK ==
  /\ pinned \in BOOLEAN /\ pll_step \in PllStepName
  /\ pll \in [Board!PllType -> Pll] /\ ddrc \in Ddrc

(* Where main configures a PLL, what comes before that, and how far it is. *)
own(p) == CASE p = "Arm" -> "arm_pll" [] p = "Io" -> "io_pll" [] OTHER -> "ddr_pll"
Before(p) ==
  CASE p = "Arm" -> {} [] p = "Io" -> {"arm_pll"}
    [] OTHER -> {"arm_pll", "io_pll", "l2_disable", "arm_clock", "read_clocks"}
After(p) == bring_step # own(p) /\ bring_step \notin Before(p)
Reached(p, s) == After(p) \/ (bring_step = own(p) /\ pll_step \in s)

(* A PLL without a lock is the one being configured, and bypassed until it *)
(* has its lock again.  Multiplier and output follow from what was set.    *)
Configured(p) ==
  /\ ~ pll[p].locked => bring_step = own(p) /\ pll_step \in {"release", "wait"}
  /\ bring_step = own(p) /\ pll_step \in {"reset", "release", "wait", "unbypass"} =>
       pll[p].bypass_force
  /\ Reached(p, PllStepName \ {"idle"}) => pll[p].fdiv = Board!mul(p)
  /\ Reached(p, PllStepName \ {"idle", "bypass"}) => ~ (pll[p].bypass_qual /\ pinned)
  /\ Reached(p, {"release", "wait", "unbypass", "done"}) => pll[p].mul = Board!mul(p)
  /\ Reached(p, {"done"}) => ~ pll[p].bypass_force

(* What main has done when it comes to a step.                             *)
MainOrder ==
  /\ pll_step # "idle" => bring_step \in {"arm_pll", "io_pll", "ddr_pll"}
  /\ bring_step \notin Before("Ddr") =>
       \A p \in {"Arm", "Io"} : clocks[p] = PS_CLK * Board!mul(p)
  /\ bring_step = "dci_wait" => ddrc.written = Board!written
  /\ bring_step \in {"l2_init", "memtest", "boot"} => ddrc.normal
  /\ bring_step \in {"memtest", "boot"} => l2

Released ==
  released # <<>> =>
    /\ released[1].dci /\ released[1].clock = Board!mul("Ddr")
    /\ released[1].written = Board!written

BringUpInv ==
  /\ BoardTypeOK /\ MainOrder /\ Released
  /\ \A p \in Board!PllType : Configured(p)

LEMMA PllsInOrder ==
  ASSUME NEW p \in Board!PllType
  PROVE  /\ own(p) \in {"arm_pll", "io_pll", "ddr_pll"} /\ own(p) \notin Before(p)
         /\ \A q \in Board!PllType : own(p) = own(q) => p = q
         /\ \A s : Board!At(s, p) /\ s \in {"arm_pll", "io_pll", "ddr_pll"} =>
              bring_step = own(p)
<1>1. p \in {"Arm", "Io", "Ddr"}
  BY DEF Board!PllType
<1>2. CASE p = "Arm"
  BY <1>2 DEF own, Before, Board!PllType, Board!At
<1>3. CASE p = "Io"
  BY <1>3 DEF own, Before, Board!PllType, Board!At
<1>4. CASE p = "Ddr"
  BY <1>4 DEF own, Before, Board!PllType, Board!At
<1> QED
  BY <1>1, <1>2, <1>3, <1>4

LEMMA InitBringUp == Board!BringUpInit => BringUpInv
<1> SUFFICES ASSUME Board!BringUpInit PROVE BringUpInv
  OBVIOUS
<1>1. /\ pinned \in BOOLEAN /\ pll_step = "idle" /\ bring_step = "arm_pll" /\ released = <<>>
      /\ ddrc = [reset |-> TRUE, written |-> {}, normal |-> FALSE]
      /\ pll = [p \in Board!PllType |->
           [fdiv |-> 26, cfg |-> Board!PllConfig(26), mul |-> 26, locked |-> TRUE,
            bypass_qual |-> TRUE, bypass_force |-> FALSE, reset |-> FALSE]]
  BY DEF Board!BringUpInit, Board!BOOT_MUL
<1>2. ddrc \in Ddrc
  BY <1>1 DEF Ddrc
<1>3. pll \in [Board!PllType -> Pll]
  <2>1. 26 \in Multiplier /\ Board!PllConfig(26) \in {Board!PllConfig(m) : m \in Multiplier}
    BY DEF Multiplier
  <2> QED
    BY <1>1, <2>1 DEF Pll
<1>4. BoardTypeOK /\ Released
  BY <1>1, <1>2, <1>3 DEF BoardTypeOK, PllStepName, Released
<1>5. MainOrder
  BY <1>1 DEF MainOrder, Before
<1>6. ASSUME NEW p \in Board!PllType PROVE Configured(p)
  <2>1. ~ After(p)
    BY <1>1 DEF After, own, Before, Board!PllType
  <2>2. pll[p].locked /\ ~ pll[p].bypass_force
    BY <1>1
  <2> QED
    BY <1>1, <2>1, <2>2 DEF Configured, Reached
<1> QED
  BY <1>4, <1>5, <1>6 DEF BringUpInv

(* A step of the configuration of a PLL leaves the others alone.           *)
Moved(p, from, to, new) ==
  /\ bring_step = own(p) /\ bring_step' = bring_step /\ pll_step = from /\ pll_step' = to
  /\ pll'[p] = new /\ pinned' = pinned /\ target' = target

LEMMA OnePll ==
  ASSUME BringUpInv, NEW p \in Board!PllType, NEW new \in Pll,
         NEW from \in PllStepName, NEW to \in PllStepName \ {"idle"},
         Board!PllStep(from, to, p, new),
         Moved(p, from, to, new) => Configured(p)'
  PROVE  BringUpInv'
<1>1. /\ pll_step = from /\ pll_step' = to /\ pll' = [pll EXCEPT ![p] = new]
      /\ UNCHANGED <<pinned, target, clocks, dci, ddrc, released, l2, bring_step>>
      /\ \E s \in {"arm_pll", "io_pll", "ddr_pll"} : Board!At(s, p)
  BY DEF Board!PllStep, Board!clockVars, Board!ddrVars, Board!memVars
<1>2. bring_step = own(p) /\ own(p) \in {"arm_pll", "io_pll", "ddr_pll"}
  BY <1>1, PllsInOrder
<1>3. /\ pll' \in [Board!PllType -> Pll] /\ pll'[p] = new
      /\ \A q \in Board!PllType : q # p => pll'[q] = pll[q]
  BY <1>1 DEF BringUpInv, BoardTypeOK
<1>4. BoardTypeOK' /\ Released'
  BY <1>1, <1>3 DEF BringUpInv, BoardTypeOK, Released, Board!mul
<1>5. MainOrder'
  BY <1>1, <1>2 DEF BringUpInv, MainOrder, Board!mul
<1>6. ASSUME NEW q \in Board!PllType PROVE Configured(q)'
  <2>1. CASE q = p
    BY <1>1, <1>2, <1>3, <2>1 DEF Moved
  <2>2. CASE q # p
    <3>1. bring_step # own(q) /\ pll'[q] = pll[q] /\ (After(q)' <=> After(q))
      BY <1>1, <1>2, <1>3, <2>2, PllsInOrder DEF After
    <3> QED
      BY <1>1, <3>1 DEF BringUpInv, Configured, Reached, Board!mul
  <2> QED
    BY <2>1, <2>2
<1> QED
  BY <1>4, <1>5, <1>6 DEF BringUpInv

(* configure_pll_unchecked, step by step.                                  *)
LEMMA PllConfigureStep ==
  ASSUME BringUpInv, NEW p \in Board!PllType,
         \/ Board!program(p) \/ Board!bypass(p) \/ Board!reset(p)
         \/ Board!release(p) \/ Board!wait_locked(p) \/ Board!unbypass(p)
  PROVE  BringUpInv'
<1>1. Configured(p) /\ pll[p] \in Pll /\ pinned \in BOOLEAN
  BY DEF BringUpInv, BoardTypeOK
<1>2. own(p) \notin Before(p)
  BY PllsInOrder
<1>3. CASE Board!program(p)
  <2> DEFINE new == [pll[p] EXCEPT !.fdiv = Board!mul(p), !.cfg = Board!PllConfig(Board!mul(p))]
  <2>1. Board!PllStep("idle", "bypass", p, new) /\ Board!mul(p) \in Multiplier
    BY <1>3 DEF Board!program, Board!PLL_MUL_MIN, Board!PLL_MUL_MAX, Multiplier
  <2>2. /\ new \in Pll /\ new.fdiv = Board!mul(p) /\ new.locked = pll[p].locked
        /\ new.bypass_force = pll[p].bypass_force
    BY <1>1, <2>1 DEF Pll
  <2> HIDE DEF new
  <2>3. Moved(p, "idle", "bypass", new) => Configured(p)'
    BY <1>1, <1>2, <2>2 DEF Moved, Configured, Reached, After, Board!mul
  <2> QED
    BY <2>1, <2>2, <2>3, OnePll DEF PllStepName
<1>4. CASE Board!bypass(p)
  <2> DEFINE qual == pll[p].bypass_qual /\ ~ pinned
             new == [pll[p] EXCEPT !.bypass_qual = qual, !.bypass_force = TRUE]
  <2>1. Board!PllStep("bypass", "reset", p, new)
    BY <1>4 DEF Board!bypass
  <2>2. /\ new \in Pll /\ new.fdiv = pll[p].fdiv /\ new.locked = pll[p].locked
        /\ new.bypass_force /\ ~ (new.bypass_qual /\ pinned)
    <3>1. qual \in BOOLEAN /\ ~ (qual /\ pinned)
      OBVIOUS
    <3> HIDE DEF qual
    <3> QED
      BY <1>1, <3>1 DEF Pll
  <2> HIDE DEF new
  <2>3. Moved(p, "bypass", "reset", new) => Configured(p)'
    BY <1>1, <1>2, <2>2 DEF Moved, Configured, Reached, After, Board!mul, PllStepName
  <2> QED
    BY <2>1, <2>2, <2>3, OnePll DEF PllStepName
<1>5. CASE Board!reset(p)
  <2> DEFINE new == [pll[p] EXCEPT !.reset = TRUE, !.locked = FALSE, !.mul = pll[p].fdiv]
  <2>1. Board!PllStep("reset", "release", p, new)
    BY <1>5 DEF Board!reset
  <2>2. /\ new \in Pll /\ new.fdiv = pll[p].fdiv /\ new.mul = pll[p].fdiv
        /\ new.bypass_force = pll[p].bypass_force /\ new.bypass_qual = pll[p].bypass_qual
    BY <1>1 DEF Pll
  <2> HIDE DEF new
  <2>3. Moved(p, "reset", "release", new) => Configured(p)'
    BY <1>1, <1>2, <2>2 DEF Moved, Configured, Reached, After, Board!mul, PllStepName
  <2> QED
    BY <2>1, <2>2, <2>3, OnePll DEF PllStepName
<1>6. CASE Board!release(p)
  <2> DEFINE new == [pll[p] EXCEPT !.reset = FALSE]
  <2>1. Board!PllStep("release", "wait", p, new)
    BY <1>6 DEF Board!release
  <2>2. /\ new \in Pll /\ new.fdiv = pll[p].fdiv /\ new.mul = pll[p].mul
        /\ new.bypass_force = pll[p].bypass_force /\ new.bypass_qual = pll[p].bypass_qual
    BY <1>1 DEF Pll
  <2> HIDE DEF new
  <2>3. Moved(p, "release", "wait", new) => Configured(p)'
    BY <1>1, <1>2, <2>2 DEF Moved, Configured, Reached, After, Board!mul, PllStepName
  <2> QED
    BY <2>1, <2>2, <2>3, OnePll DEF PllStepName
<1>7. CASE Board!wait_locked(p)
  <2>1. Board!PllStep("wait", "unbypass", p, pll[p]) /\ pll[p].locked
    BY <1>7 DEF Board!wait_locked
  <2>2. Moved(p, "wait", "unbypass", pll[p]) => Configured(p)'
    BY <1>1, <1>2, <2>1 DEF Moved, Configured, Reached, After, Board!mul, PllStepName
  <2> QED
    BY <1>1, <2>1, <2>2, OnePll DEF PllStepName
<1>8. CASE Board!unbypass(p)
  <2> DEFINE new == [pll[p] EXCEPT !.bypass_force = FALSE]
  <2>1. Board!PllStep("unbypass", "done", p, new)
    BY <1>8 DEF Board!unbypass
  <2>2. /\ new \in Pll /\ new.fdiv = pll[p].fdiv /\ new.mul = pll[p].mul
        /\ ~ new.bypass_force /\ new.bypass_qual = pll[p].bypass_qual
        /\ new.locked = pll[p].locked
    BY <1>1 DEF Pll
  <2> HIDE DEF new
  <2>3. Moved(p, "unbypass", "done", new) => Configured(p)'
    BY <1>1, <1>2, <2>2 DEF Moved, Configured, Reached, After, Board!mul, PllStepName
  <2> QED
    BY <2>1, <2>2, <2>3, OnePll DEF PllStepName
<1> QED
  BY <1>3, <1>4, <1>5, <1>6, <1>7, <1>8

LEMMA LockStep ==
  ASSUME BringUpInv, NEW p \in Board!PllType, Board!lock(p)
  PROVE  BringUpInv'
<1> DEFINE new == [pll[p] EXCEPT !.locked = TRUE]
<1>1. /\ pll' = [pll EXCEPT ![p] = new]
      /\ UNCHANGED <<pinned, target, pll_step, clocks, ddrc, released, l2, bring_step>>
  BY DEF Board!lock, Board!clockVars, Board!ddrVars, Board!memVars
<1>2. pll \in [Board!PllType -> Pll] /\ pll[p] \in Pll
  BY DEF BringUpInv, BoardTypeOK
<1>3. /\ new \in Pll /\ new.fdiv = pll[p].fdiv /\ new.mul = pll[p].mul /\ new.locked
      /\ new.bypass_force = pll[p].bypass_force /\ new.bypass_qual = pll[p].bypass_qual
  BY <1>2 DEF Pll
<1> HIDE DEF new
<1>4. /\ pll' \in [Board!PllType -> Pll] /\ pll'[p] = new
      /\ \A q \in Board!PllType : q # p => pll'[q] = pll[q]
  BY <1>1, <1>2, <1>3
<1>5. BoardTypeOK' /\ Released' /\ MainOrder'
  BY <1>1, <1>4 DEF BringUpInv, BoardTypeOK, Released, MainOrder, Board!mul
<1>6. ASSUME NEW q \in Board!PllType PROVE Configured(q)'
  <2>1. Configured(q)
    BY DEF BringUpInv
  <2>2. /\ pll'[q].locked = pll[q].locked \/ pll'[q].locked
        /\ pll'[q].fdiv = pll[q].fdiv /\ pll'[q].mul = pll[q].mul
        /\ pll'[q].bypass_force = pll[q].bypass_force
        /\ pll'[q].bypass_qual = pll[q].bypass_qual
    BY <1>3, <1>4
  <2> QED
    BY <1>1, <2>1, <2>2 DEF Configured, Reached, After, Board!mul
<1> QED
  BY <1>5, <1>6 DEF BringUpInv

(* main goes on from one step to the next while no PLL is configured.      *)
LEMMA PllsKept ==
  ASSUME BringUpInv, pll' = pll, UNCHANGED <<pinned, target>>,
         pll_step \in {"idle", "done"}, pll_step' = "idle",
         \A p \in Board!PllType :
           /\ bring_step = own(p) => pll_step = "done"
           /\ bring_step \in Before(p) => bring_step' \in Before(p) \cup {own(p)}
  PROVE  \A p \in Board!PllType : Configured(p)'
<1> SUFFICES ASSUME NEW p \in Board!PllType PROVE Configured(p)'
  OBVIOUS
<1>1. Configured(p)
  BY DEF BringUpInv
<1>2. After(p)' /\ ~ After(p) => bring_step = own(p) /\ pll_step = "done"
  BY DEF After
<1>3. pll[p].locked
  BY <1>1 DEF Configured
<1> QED
  BY <1>1, <1>2, <1>3 DEF Configured, Reached, Board!mul, PllStepName

LEMMA ConfiguredStep ==
  ASSUME BringUpInv, NEW p \in Board!PllType, NEW next, Board!configured(p, own(p), next),
         \/ p = "Arm" /\ next = "io_pll"
         \/ p = "Io" /\ next = "l2_disable"
         \/ p = "Ddr" /\ next = "ddr_clock"
  PROVE  BringUpInv'
<1>1. /\ pll_step = "done" /\ pll_step' = "idle" /\ bring_step = own(p) /\ bring_step' = next
      /\ UNCHANGED <<pinned, target, pll, clocks, ddrc, released, l2>>
  BY DEF Board!configured, Board!Advance, Board!ddrVars, Board!memVars
<1>2. ASSUME NEW q \in Board!PllType
      PROVE  /\ bring_step = own(q) => pll_step = "done"
             /\ bring_step \in Before(q) => bring_step' \in Before(q) \cup {own(q)}
  <2>1. own(p) \in Before(q) => next \in Before(q) \cup {own(q)}
    BY DEF own, Before, Board!PllType
  <2> QED
    BY <1>1, <2>1
<1>3. \A q \in Board!PllType : Configured(q)'
  BY <1>1, <1>2, PllsKept
<1>4. BoardTypeOK' /\ Released'
  BY <1>1 DEF BringUpInv, BoardTypeOK, PllStepName, Released, Board!mul
<1>5. MainOrder'
  <2>1. next \notin Before("Ddr") => p = "Ddr" /\ bring_step \notin Before("Ddr")
    BY <1>1 DEF own, Before
  <2>2. next \notin {"dci_wait", "l2_init", "memtest", "boot"}
    OBVIOUS
  <2> QED
    BY <1>1, <2>1, <2>2 DEF BringUpInv, MainOrder, Board!mul
<1> QED
  BY <1>3, <1>4, <1>5 DEF BringUpInv

(* The steps of main between the configuration of two PLLs, and after.     *)
MainStep ==
  {"l2_disable", "arm_clock", "read_clocks", "ddr_clock", "ddr_reset", "dci", "ddr_config",
   "dci_wait", "ddr_wait", "l2_init", "memtest"}

LEMMA MainGoesOn ==
  ASSUME BringUpInv, bring_step \in MainStep, UNCHANGED <<pll, pll_step, pinned, target>>,
         \A s \in {"l2_disable", "arm_clock", "read_clocks"} : bring_step = s =>
           bring_step' \in {"l2_disable", "arm_clock", "read_clocks", "ddr_pll"}
  PROVE  \A p \in Board!PllType : Configured(p)'
<1>1. pll_step = "idle"
  BY DEF BringUpInv, BoardTypeOK, PllStepName, MainOrder, MainStep
<1>2. ASSUME NEW p \in Board!PllType
      PROVE  /\ bring_step # own(p)
             /\ bring_step \in Before(p) => bring_step' \in Before(p) \cup {own(p)}
  BY DEF own, Before, MainStep, Board!PllType
<1> QED
  BY <1>1, <1>2, PllsKept

LEMMA MainProceeds ==
  ASSUME BringUpInv,
         \/ Board!l2_cache_disable \/ Board!new_with_cpu_clock_init \/ Board!new_from_regs
         \/ Board!new_with_2x_3x_init \/ Board!soft_reset \/ Board!calibrate_iob_impedance
         \/ Board!configure_ddr_config \/ Board!out_of_reset \/ Board!normal_operation
         \/ Board!init_with_defaults \/ Board!write_pass \/ Board!read_pass \/ Board!tested
  PROVE  BringUpInv'
<1> USE DEF Board!Advance, Board!pllVars, Board!clockVars, Board!ddrVars, Board!memVars
<1>1. ASSUME bring_step \in MainStep, UNCHANGED <<pll, pll_step, pinned, target>>,
             \A s \in {"l2_disable", "arm_clock", "read_clocks"} : bring_step = s =>
               bring_step' \in {"l2_disable", "arm_clock", "read_clocks", "ddr_pll"},
             ddrc' \in Ddrc, MainOrder', Released'
      PROVE  BringUpInv'
  BY <1>1, MainGoesOn DEF BringUpInv, BoardTypeOK
<1>2. BoardTypeOK /\ MainOrder /\ Released /\ ddrc \in Ddrc
      /\ \A p \in Board!PllType : Configured(p)
  BY DEF BringUpInv, BoardTypeOK
<1>3. CASE Board!l2_cache_disable
  BY <1>1, <1>2, <1>3 DEF Board!l2_cache_disable, MainStep, MainOrder, Released, Before,
                          Board!mul
<1>4. CASE Board!new_with_cpu_clock_init
  BY <1>1, <1>2, <1>4 DEF Board!new_with_cpu_clock_init, MainStep, MainOrder, Released, Before,
    Board!mul
<1>5. CASE Board!new_from_regs
  <2>1. \A p \in {"Arm", "Io"} : p \in Board!PllType /\ pll[p].fdiv = Board!mul(p)
    <3>1. \A p \in {"Arm", "Io"} : p \in Board!PllType /\ After(p)
      BY <1>5 DEF Board!new_from_regs, After, own, Before, Board!PllType
    <3> QED
      BY <1>2, <3>1 DEF Configured, Reached
  <2>2. \A p \in {"Arm", "Io"} : clocks'[p] = PS_CLK * Board!mul(p)'
    BY <1>5, <2>1 DEF Board!new_from_regs, Board!mul
  <2> QED
    BY <1>1, <1>2, <1>5, <2>2 DEF Board!new_from_regs, MainStep, MainOrder, Released, Board!mul
<1>6. CASE Board!new_with_2x_3x_init
  BY <1>1, <1>2, <1>6 DEF Board!new_with_2x_3x_init, MainStep, MainOrder, Released, Before,
    Board!mul
<1>7. CASE Board!soft_reset
  <2>1. ddrc' \in Ddrc
    BY <1>2, <1>7 DEF Board!soft_reset, Ddrc
  <2> QED
    BY <1>1, <1>2, <1>7, <2>1 DEF Board!soft_reset, MainStep, MainOrder, Released, Before,
      Board!mul
<1>8. CASE Board!calibrate_iob_impedance
  BY <1>1, <1>2, <1>8 DEF Board!calibrate_iob_impedance, MainStep, MainOrder, Released, Before,
    Board!mul
<1>9. CASE Board!configure_ddr_config
  <2>1. ddrc' \in Ddrc /\ ddrc'.written = Board!written
    BY <1>2, <1>9 DEF Board!configure_ddr_config, Ddrc
  <2> QED
    BY <1>1, <1>2, <1>9, <2>1 DEF Board!configure_ddr_config, MainStep, MainOrder, Released,
      Before, Board!mul
<1>10. CASE Board!out_of_reset
  <2>1. ddrc' \in Ddrc
    BY <1>2, <1>10 DEF Board!out_of_reset, Ddrc
  <2>2. Board!output("Ddr") = Board!mul("Ddr")
    <3>1. "Ddr" \in Board!PllType /\ After("Ddr")
      BY <1>10 DEF Board!out_of_reset, After, own, Before, Board!PllType
    <3> QED
      BY <1>2, <3>1 DEF Configured, Reached, Board!output, Board!bypassed
  <2>3. Released'
    BY <1>2, <1>10, <2>2 DEF Board!out_of_reset, MainOrder, Released, Board!mul
  <2> QED
    BY <1>1, <1>2, <1>10, <2>1, <2>3 DEF Board!out_of_reset, MainStep, MainOrder, Before,
      Board!mul
<1>11. CASE Board!normal_operation
  BY <1>1, <1>2, <1>11 DEF Board!normal_operation, MainStep, MainOrder, Released, Before,
    Board!mul
<1>12. CASE Board!init_with_defaults
  BY <1>1, <1>2, <1>12 DEF Board!init_with_defaults, MainStep, MainOrder, Released, Before,
    Board!mul
<1>13. CASE Board!write_pass \/ Board!read_pass \/ Board!tested
  BY <1>1, <1>2, <1>13 DEF Board!write_pass, Board!read_pass, Board!tested, MainStep, MainOrder,
    Released, Before, Board!mul
<1> QED
  BY <1>3, <1>4, <1>5, <1>6, <1>7, <1>8, <1>9, <1>10, <1>11, <1>12, <1>13

LEMMA BringUpStep ==
  BringUpInv /\ [Board!BringUpNext]_(Board!bringUpVars) => BringUpInv'
<1> SUFFICES ASSUME BringUpInv, [Board!BringUpNext]_(Board!bringUpVars) PROVE BringUpInv'
  OBVIOUS
<1>1. CASE Board!configure_pll_unchecked
  BY <1>1, PllConfigureStep DEF Board!configure_pll_unchecked
<1>2. CASE Board!configure_arm_pll \/ Board!configure_io_pll \/ Board!configure_ddr_pll
  <2>1. CASE Board!configure_arm_pll
    <3>1. Board!configured("Arm", own("Arm"), "io_pll") /\ "Arm" \in Board!PllType
      BY <2>1 DEF Board!configure_arm_pll, own, Board!PllType
    <3> QED
      BY <3>1, ConfiguredStep
  <2>2. CASE Board!configure_io_pll
    <3>1. Board!configured("Io", own("Io"), "l2_disable") /\ "Io" \in Board!PllType
      BY <2>2 DEF Board!configure_io_pll, own, Board!PllType
    <3> QED
      BY <3>1, ConfiguredStep
  <2>3. CASE Board!configure_ddr_pll
    <3>1. Board!configured("Ddr", own("Ddr"), "ddr_clock") /\ "Ddr" \in Board!PllType
      BY <2>3 DEF Board!configure_ddr_pll, own, Board!PllType
    <3> QED
      BY <3>1, ConfiguredStep
  <2> QED
    BY <1>2, <2>1, <2>2, <2>3
<1>3. CASE \E p \in Board!PllType : Board!lock(p)
  BY <1>3, LockStep
<1>4. CASE Board!calibrated \/ Board!evict \/ UNCHANGED Board!bringUpVars
  <2>1. UNCHANGED <<pinned, target, pll, pll_step, clocks, ddrc, released, l2, bring_step>>
    BY <1>4 DEF Board!calibrated, Board!evict, Board!bringUpVars, Board!pllVars,
      Board!clockVars, Board!ddrVars, Board!memVars
  <2> QED
    BY <2>1 DEF BringUpInv, BoardTypeOK, MainOrder, Released, Configured, Reached, After,
      Board!mul
<1>5. CASE Board!initialized
  <2>1. /\ UNCHANGED <<pinned, target, pll, pll_step, clocks, released, l2, bring_step>>
        /\ ddrc' = [ddrc EXCEPT !.normal = TRUE]
    BY <1>5 DEF Board!initialized, Board!pllVars, Board!clockVars, Board!memVars
  <2>2. ddrc' \in Ddrc /\ ddrc'.normal /\ ddrc'.written = ddrc.written
    BY <2>1 DEF BringUpInv, BoardTypeOK, Ddrc
  <2> QED
    BY <2>1, <2>2 DEF BringUpInv, BoardTypeOK, MainOrder, Released, Configured, Reached, After,
      Board!mul
<1> QED
  BY <1>1, <1>2, <1>3, <1>4, <1>5, MainProceeds DEF Board!BringUpNext, Board!Main,
    Board!Hardware

(* How far each PLL and main are, whatever comes first of a lock, the end  *)
(* of the calibration and the initialization of the memory.                *)
THEOREM BringUpInvariant == Board!BringUpSpec => []BringUpInv
<1>1. Board!BringUpInit => BringUpInv
  BY InitBringUp
<1>2. BringUpInv /\ [Board!BringUpNext]_(Board!bringUpVars) => BringUpInv'
  BY BringUpStep
<1> QED
  BY <1>1, <1>2, PTL DEF Board!BringUpSpec

(* No PLL drives its clocks without a lock, and the memory controller      *)
(* leaves its reset configured, calibrated and with the clock asked for,   *)
(* for any frequencies, with the PLLs bypassed by the boot pins or not.    *)
THEOREM ClocksAreStable == Board!BringUpSpec => []ClocksStable
<1>1. BringUpInv => ClocksStable
  <2> SUFFICES ASSUME BringUpInv, NEW p \in Board!PllType
               PROVE  Board!bypassed(p) \/ pll[p].locked
    BY DEF BringUpInv, Released, ClocksStable, Board!ClocksStable
  <2> QED
    BY DEF BringUpInv, Configured, Board!bypassed
<1> QED
  BY BringUpInvariant, <1>1, PTL

(* When the loader goes on to the image, every PLL puts out the frequency  *)
(* asked for, the clocks main works with are those, the L2 cache is on and *)
(* the memory is in operation.                                             *)
THEOREM BootFindsUsable == Board!BringUpSpec => [](bring_step = "boot" => Board!Usable)
<1>1. BringUpInv => (bring_step = "boot" => Board!Usable)
  <2> SUFFICES ASSUME BringUpInv, bring_step = "boot" PROVE Board!Usable
    OBVIOUS
  <2>1. \A p \in Board!PllType : Board!output(p) = Board!mul(p)
    <3> SUFFICES ASSUME NEW p \in Board!PllType PROVE Board!output(p) = Board!mul(p)
      OBVIOUS
    <3>1. After(p)
      BY DEF After, own, Before, Board!PllType
    <3> QED
      BY <3>1 DEF BringUpInv, Configured, Reached, Board!output, Board!bypassed
  <2>2. \A p \in {"Arm", "Io"} : clocks[p] = PS_CLK * Board!output(p)
    <3>1. bring_step \notin Before("Ddr")
      BY DEF Before
    <3> QED
      BY <2>1, <3>1 DEF BringUpInv, MainOrder, Board!PllType
  <2> QED
    BY <2>1, <2>2 DEF BringUpInv, MainOrder, Board!Usable
<1> QED
  BY BringUpInvariant, <1>1, PTL

-----------------------------------------------------------------------------
(* Drivers stay configured.                                                *)

Keeps ==
  /\ \A p \in configured : p # <<"Spi", 0>> => p \in configured'
  /\ \A p \in aper : p \in aper'

(* A constructor resets and configures its own peripheral only.            *)
LEMMA InitializeKeeps ==
  ASSUME NEW id, NEW fields, \A f \in fields : f[1] = id, initialize(id, fields)
  PROVE  Keeps /\ (id # <<"Spi", 0>> => id \in configured' /\ id \in aper')
<1>1. aper' = aper \cup {aper_bit(id)}
      /\ configured' = (configured \ Lost(fields)) \cup ({id} \cap aper')
  BY DEF initialize, enable_amba_peripheral_clock
<1>2. \A p \in Lost(fields) : p = id
  BY DEF Lost
<1>3. id # <<"Spi", 0>> => aper_bit(id) = id
  BY DEF aper_bit
<1> QED
  BY <1>1, <1>2, <1>3 DEF Keeps

LEMMA ResetsOwn ==
  ASSUME NEW id
  PROVE  /\ \A f \in reset(id) : f[1] = id
         /\ \A f \in reset_eth(id) : f[1] = id
         /\ \A f \in reset_spi(id) : f[1] = id
BY DEF reset, reset_eth, reset_spi, Field

(* A driver comes in, and the registers of the others are kept.            *)
LEMMA DriverComesIn ==
  ASSUME ReadyIsConfigured, Keeps, NEW id, NEW pins, NEW ready \in BOOLEAN,
         drivers' = Driver(id, pins, ready),
         ready /\ id # <<"Spi", 0>> /\ id[1] # "Gpio" =>
           id \in configured' /\ (id \in aper' \/ id[1] = "Ttc")
  PROVE  ReadyIsConfigured'
<1> DEFINE new == [id |-> id, pins |-> pins, ready |-> ready]
<1>1. ASSUME NEW d \in drivers', d.ready, d.id # <<"Spi", 0>>, d.id[1] # "Gpio"
      PROVE  d.id \in configured' /\ (d.id \in aper' \/ d.id[1] = "Ttc")
  <2>1. d \in drivers \/ d = new
    BY DEF Driver
  <2>2. CASE d \in drivers
    BY <1>1, <2>2 DEF ReadyIsConfigured, Keeps
  <2>3. CASE d = new
    <3>1. d.id = id /\ d.ready = ready
      BY <2>3
    <3> QED
      BY <1>1, <3>1
  <2> QED
    BY <2>1, <2>2, <2>3
<1> QED
  BY <1>1 DEF ReadyIsConfigured

(* A constructor that initializes its peripheral, or refuses its pins.     *)
LEMMA Constructed ==
  ASSUME ReadyIsConfigured, NEW id, NEW pins, NEW fields, \A f \in fields : f[1] = id,
         (initialize(id, fields) /\ Ok(id, pins)) \/ Err
  PROVE  ReadyIsConfigured'
<1>1. CASE initialize(id, fields) /\ Ok(id, pins)
  BY <1>1, InitializeKeeps, DriverComesIn DEF Ok
<1>2. CASE Err
  BY <1>2 DEF Err, ReadyIsConfigured
<1> QED
  BY <1>1, <1>2

LEMMA DriverSetupStep ==
  ASSUME ReadyIsConfigured, [SetupNext]_setupVars
  PROVE  ReadyIsConfigured'
<1>1. CASE GpioPins_new
  BY <1>1 DEF GpioPins_new, enable_amba_peripheral_clock, ReadyIsConfigured
<1>2. CASE Gpio_new
  <2>1. PICK p \in free \cap GpioPins :
          \/ Ok(<<"Gpio", 0>>, [io |-> p]) /\ UNCHANGED <<aper, configured>>
          \/ Err
    BY <1>2 DEF Gpio_new
  <2>2. CASE Ok(<<"Gpio", 0>>, [io |-> p]) /\ UNCHANGED <<aper, configured>>
    BY <2>2, DriverComesIn DEF Ok, Keeps
  <2> QED
    BY <2>1, <2>2 DEF Err, ReadyIsConfigured
<1>3. CASE Spi_new
  <2>1. PICK n \in 0 .. 1, picks \in SpiPicks :
          LET id == <<"Spi", n>> IN
          \/ \E pins : initialize(id, reset_spi(id)) /\ Ok(id, pins)
          \/ Err
    BY <1>3 DEF Spi_new
  <2> QED
    BY <2>1, Constructed, ResetsOwn
<1>4. CASE Uart_new_with_mio
  <2>1. PICK n \in 0 .. 1 :
          LET id == <<"Uart", n>> IN
          \/ \E pins : initialize(id, reset(id)) /\ Ok(id, pins)
          \/ Err
    BY <1>4 DEF Uart_new_with_mio
  <2> QED
    BY <2>1, Constructed, ResetsOwn
<1>5. CASE Uart_new_with_emio
  BY <1>5, Constructed, ResetsOwn DEF Uart_new_with_emio
<1>6. CASE I2c_new_with_mio
  <2>1. PICK id \in Twins("I2c") :
          \/ \E pins : initialize(id, {}) /\ Ok(id, pins)
          \/ Err
    BY <1>6 DEF I2c_new_with_mio
  <2> QED
    BY <2>1, Constructed
<1>7. CASE I2c_new_with_emio
  BY <1>7, Constructed DEF I2c_new_with_emio
<1>8. CASE SdCardUninit_new
  <2>1. PICK n \in 0 .. 1 :
          \/ \E pins : drivers' = Driver(<<"Sdio", n>>, pins, FALSE)
                         /\ UNCHANGED <<aper, configured>>
          \/ Err
    BY <1>8 DEF SdCardUninit_new
  <2>2. CASE \E pins : drivers' = Driver(<<"Sdio", n>>, pins, FALSE)
                         /\ UNCHANGED <<aper, configured>>
    BY <2>2, DriverComesIn DEF Keeps
  <2> QED
    BY <2>1, <2>2 DEF Err, ReadyIsConfigured
<1>9. CASE SdCardUninit_initialize
  <2>1. PICK d \in drivers : /\ drivers' = (drivers \ {d}) \cup {[d EXCEPT !.ready = TRUE]}
                             /\ initialize(d.id, reset(d.id))
    BY <1>9 DEF SdCardUninit_initialize
  <2>2. Keeps /\ (d.id # <<"Spi", 0>> => d.id \in configured' /\ d.id \in aper')
    BY <2>1, ResetsOwn, InitializeKeeps
  <2>3. [d EXCEPT !.ready = TRUE].id = d.id
    OBVIOUS
  <2> QED
    BY <2>1, <2>2, <2>3 DEF ReadyIsConfigured, Keeps
<1>10. CASE Qspi_new
  <2>1. \E pins : initialize(<<"Lqspi", 0>>, reset(<<"Lqspi", 0>>)) /\ Ok(<<"Lqspi", 0>>, pins)
    BY <1>10 DEF Qspi_new
  <2> QED
    BY <2>1, Constructed, ResetsOwn
<1>11. CASE Ethernet_new_with_mio
  <2>1. PICK n \in 0 .. 1 :
          LET id == <<"Gem", n>> IN
          \E pins : initialize(id, reset_eth(id)) /\ Ok(id, pins)
    BY <1>11 DEF Ethernet_new_with_mio, common_init
  <2> QED
    BY <2>1, Constructed, ResetsOwn
<1>12. CASE Ethernet_new
  BY <1>12, Constructed, ResetsOwn DEF Ethernet_new, common_init
<1>13. CASE Pwm_new_with_cpu_clk_and_mio_waveout
  <2>1. PICK channel \in TtcChannels :
          \E pins : Ok(channel, pins) /\ configured' = configured \cup {channel} /\ aper' = aper
    BY <1>13 DEF Pwm_new_with_cpu_clk_and_mio_waveout
  <2>2. channel[1] = "Ttc"
    BY DEF TtcChannels
  <2> QED
    BY <2>1, <2>2, DriverComesIn DEF Ok, Keeps
<1>14. CASE UNCHANGED setupVars
  BY <1>14 DEF setupVars, ReadyIsConfigured
<1> QED
  BY <1>1, <1>2, <1>3, <1>4, <1>5, <1>6, <1>7, <1>8, <1>9, <1>10, <1>11, <1>12, <1>13, <1>14
  DEF SetupNext

(* A driver that is ready keeps its registers configured and clocked,      *)
(* whatever is constructed after it, by programs with any drivers and in   *)
(* any order; those of SPI 0 are the exception.                            *)
THEOREM ReadyStaysConfigured == SetupSpec => []ReadyIsConfigured
<1>1. SetupInit => ReadyIsConfigured
  BY DEF SetupInit, ReadyIsConfigured
<1> QED
  BY <1>1, DriverSetupStep, PTL DEF SetupSpec

(***************************************************************************)
(* Pins serve the drivers that were given them.                            *)
(***************************************************************************)
Muxes == {new_with_l0, new_with_l1} \cup {new_with_l3(l3) : l3 \in 0 .. 7}
PinConf == [mux : Muxes, pullup : BOOLEAN, tri : BOOLEAN]

(* A program that has not taken the pins yet has no driver that uses one.  *)
PinsInv ==
  /\ free \subseteq Pin /\ mio \in [Pin -> PinConf]
  /\ <<"Gpio", 0>> \in unused => free = {} /\ \A d \in drivers : DOMAIN d.pins = {}
  /\ \A d \in drivers : /\ d = [id |-> d.id, pins |-> d.pins, ready |-> d.ready]
                        /\ Range(d.pins) \subseteq Pin
  /\ PinsServeDrivers

(* What the silicon routes to the pins that constructors accept.           *)
LEMMA Routed ==
  ASSUME NEW l \in Silicon, NEW base \in l.firsts \cap Int, NEW i \in DOMAIN l.signals \cap Int
  PROVE  Carries(base + i - 1, l.mux, l.block, l.signals[i])
<1>1. base + i - 1 - (i - 1) = base
  OBVIOUS
<1> QED  BY <1>1 DEF Carries

LEMMA SpiRouted ==
  ASSUME NEW g \in SpiGroups, NEW s \in {"sck", "miso", "mosi", "ss0", "ss1", "ss2"}
  PROVE  g.spi \in 0 .. 1 /\ g[s] \in Pin /\ Carries(g[s], SPI_MUX_CONF, <<"Spi", g.spi>>, s)
<1>1. CASE g \in {Spi0Pins(16, 0), Spi0Pins(28, 1), Spi0Pins(40, 2)}
  <2> DEFINE l == Laid(Every(12, 16, 40), new_with_l3(5), "Spi", 0,
                       <<"sck", "miso", "ss0", "ss1", "ss2", "mosi">>)
  <2>1. l \in Silicon /\ \A b \in {16, 28, 40} : b \in l.firsts \cap Int
    BY DEF Silicon, Laid, Every
  <2>2. /\ l.mux = SPI_MUX_CONF /\ l.block = <<"Spi", 0>>
        /\ l.signals = <<"sck", "miso", "ss0", "ss1", "ss2", "mosi">>
    BY DEF Laid, SPI_MUX_CONF
  <2> HIDE DEF l
  <2>3. PICK b \in {16, 28, 40}, group \in 0 .. 2 : g = Spi0Pins(b, group)
    BY <1>1
  <2>4. /\ g.spi = 0 /\ g["sck"] = b /\ g["miso"] = b + 1 /\ g["ss0"] = b + 2
        /\ g["ss1"] = b + 3 /\ g["ss2"] = b + 4 /\ g["mosi"] = b + 5
    BY <2>3 DEF Spi0Pins
  <2>5. \A i \in 1 .. 6 : Carries(b + i - 1, SPI_MUX_CONF, <<"Spi", 0>>, l.signals[i])
    BY <2>1, <2>2, Routed
  <2>6. /\ b + 1 - 1 = b /\ b + 2 - 1 = b + 1 /\ b + 3 - 1 = b + 2 /\ b + 4 - 1 = b + 3
        /\ b + 5 - 1 = b + 4 /\ b + 6 - 1 = b + 5
    OBVIOUS
  <2> QED  BY <2>2, <2>4, <2>5, <2>6 DEF Pin
<1>2. CASE g \in {Spi1Pins(10, 0), Spi1Pins(22, 1), Spi1Pins(34, 2), Spi1Pins(46, 3)}
  <2> DEFINE l == Laid(Every(12, 10, 46), new_with_l3(5), "Spi", 1,
                       <<"mosi", "miso", "sck", "ss0", "ss1", "ss2">>)
  <2>1. l \in Silicon /\ \A b \in {10, 22, 34, 46} : b \in l.firsts \cap Int
    BY DEF Silicon, Laid, Every
  <2>2. /\ l.mux = SPI_MUX_CONF /\ l.block = <<"Spi", 1>>
        /\ l.signals = <<"mosi", "miso", "sck", "ss0", "ss1", "ss2">>
    BY DEF Laid, SPI_MUX_CONF
  <2> HIDE DEF l
  <2>3. PICK b \in {10, 22, 34, 46}, group \in 0 .. 3 : g = Spi1Pins(b, group)
    BY <1>2
  <2>4. /\ g.spi = 1 /\ g["mosi"] = b /\ g["miso"] = b + 1 /\ g["sck"] = b + 2
        /\ g["ss0"] = b + 3 /\ g["ss1"] = b + 4 /\ g["ss2"] = b + 5
    BY <2>3 DEF Spi1Pins
  <2>5. \A i \in 1 .. 6 : Carries(b + i - 1, SPI_MUX_CONF, <<"Spi", 1>>, l.signals[i])
    BY <2>1, <2>2, Routed
  <2>6. /\ b + 1 - 1 = b /\ b + 2 - 1 = b + 1 /\ b + 3 - 1 = b + 2 /\ b + 4 - 1 = b + 3
        /\ b + 5 - 1 = b + 4 /\ b + 6 - 1 = b + 5
    OBVIOUS
  <2> QED  BY <2>2, <2>4, <2>5, <2>6 DEF Pin
<1> QED  BY <1>1, <1>2 DEF SpiGroups

LEMMA SpiPicked ==
  ASSUME NEW picks \in SpiPicks, NEW s \in DOMAIN picks
  PROVE  picks[s] \in SpiGroups /\ s \in {"sck", "miso", "mosi", "ss0", "ss1", "ss2"}
<1> DEFINE of(g, ss) == [i \in {"sck", "mosi", "miso"} \cup ss |-> g]
           OneGroup == {of(g, ss) : g \in SpiGroups, ss \in SUBSET {"ss0", "ss1", "ss2"}}
           OtherMiso == {[i \in {"sck", "mosi", "miso"} |-> IF i = "miso" THEN h ELSE g] :
                           g, h \in SpiGroups}
<1>1. SpiPicks = OneGroup \cup OtherMiso
  BY DEF SpiPicks
<1>2. CASE picks \in OneGroup
  <2> HIDE DEF of
  <2>1. PICK g \in SpiGroups, ss \in SUBSET {"ss0", "ss1", "ss2"} : picks = of(g, ss)
    BY <1>2
  <2>2. s \in {"sck", "mosi", "miso"} \cup ss /\ picks[s] = g
    BY <2>1 DEF of
  <2> QED  BY <2>2
<1>3. CASE picks \in OtherMiso
  <2>1. PICK g \in SpiGroups, h \in SpiGroups :
          picks = [i \in {"sck", "mosi", "miso"} |-> IF i = "miso" THEN h ELSE g]
    BY <1>3
  <2>2. s \in {"sck", "mosi", "miso"} /\ picks[s] = IF s = "miso" THEN h ELSE g
    BY <2>1
  <2> QED  BY <2>2
<1> HIDE DEF OneGroup, OtherMiso
<1> QED  BY <1>1, <1>2, <1>3

LEMMA UartRouted ==
  ASSUME NEW n \in 0 .. 1, NEW pins \in UartPins(n)
  PROVE  /\ DOMAIN pins = {"tx", "rx"}
         /\ \A s \in {"tx", "rx"} :
               pins[s] \in Pin /\ Carries(pins[s], UART_MUX_CONF, <<"Uart", n>>, s)
<1>1. CASE n = 0
  <2> DEFINE l == Laid(Every(4, 10, 50), new_with_l3(7), "Uart", 0, <<"rx", "tx">>)
  <2>1. PICK t \in {11, 15, 19, 23, 27, 31, 35, 39, 43, 47, 51} : pins = [tx |-> t, rx |-> t - 1]
    BY <1>1 DEF UartPins
  <2>2. l \in Silicon /\ t - 1 \in l.firsts \cap Int
    BY DEF Silicon, Laid, Every
  <2>3. /\ l.mux = UART_MUX_CONF /\ l.block = <<"Uart", 0>> /\ l.signals = <<"rx", "tx">>
    BY DEF Laid, UART_MUX_CONF
  <2> HIDE DEF l
  <2>4. \A i \in 1 .. 2 : Carries(t - 1 + i - 1, UART_MUX_CONF, <<"Uart", 0>>, l.signals[i])
    BY <2>2, <2>3, Routed
  <2>5. t - 1 + 1 - 1 = t - 1 /\ t - 1 + 2 - 1 = t
    OBVIOUS
  <2> QED  BY <1>1, <2>1, <2>3, <2>4, <2>5 DEF Pin
<1>2. CASE n = 1
  <2> DEFINE l == Laid(Every(4, 8, 52), new_with_l3(7), "Uart", 1, <<"tx", "rx">>)
  <2>1. PICK t \in {8, 12, 16, 20, 24, 28, 32, 36, 40, 44, 48, 52} : pins = [tx |-> t, rx |-> t + 1]
    BY <1>2 DEF UartPins
  <2>2. l \in Silicon /\ t \in l.firsts \cap Int
    BY DEF Silicon, Laid, Every
  <2>3. /\ l.mux = UART_MUX_CONF /\ l.block = <<"Uart", 1>> /\ l.signals = <<"tx", "rx">>
    BY DEF Laid, UART_MUX_CONF
  <2> HIDE DEF l
  <2>4. \A i \in 1 .. 2 : Carries(t + i - 1, UART_MUX_CONF, <<"Uart", 1>>, l.signals[i])
    BY <2>2, <2>3, Routed
  <2>5. t + 1 - 1 = t /\ t + 2 - 1 = t + 1
    OBVIOUS
  <2> QED  BY <1>2, <2>1, <2>3, <2>4, <2>5 DEF Pin
<1> QED  BY <1>1, <1>2

LEMMA I2cRouted ==
  ASSUME NEW a \in i2c_pin_impls, NEW s \in {"sck", "sda"}
  PROVE  a.id \in 0 .. 1 /\ a[s] \in Pin /\ Carries(a[s], I2C_MUX_CONF, <<"I2c", a.id>>, s)
<1>1. PICK n \in 0 .. 1, b \in Int :
        /\ a = [id |-> n, sck |-> b, sda |-> b + 1]
        /\ n = 0 => b \in {10, 14, 18, 22, 26, 30, 34, 38, 42, 46, 50}
        /\ n = 1 => b \in {12, 16, 20, 24, 28, 32, 36, 40, 44, 48, 52}
  BY DEF i2c_pin_impls
<1>2. b \in Pin /\ b + 1 \in Pin
  BY <1>1 DEF Pin
<1>3. \E l \in Silicon : /\ l.mux = I2C_MUX_CONF /\ l.block = <<"I2c", n>>
                         /\ l.signals = <<"sck", "sda">> /\ b \in l.firsts
  <2> DEFINE l0 == Laid(Every(4, 10, 50), new_with_l3(2), "I2c", 0, <<"sck", "sda">>)
             l1 == Laid(Every(4, 12, 52), new_with_l3(2), "I2c", 1, <<"sck", "sda">>)
  <2>1. l0 \in Silicon /\ l1 \in Silicon
    BY DEF Silicon
  <2>2. CASE n = 0
    BY <1>1, <2>1, <2>2 DEF Laid, Every, I2C_MUX_CONF
  <2>3. CASE n = 1
    BY <1>1, <2>1, <2>3 DEF Laid, Every, I2C_MUX_CONF
  <2> QED  BY <2>2, <2>3
<1>4. \A i \in 1 .. 2 : Carries(b + i - 1, I2C_MUX_CONF, <<"I2c", n>>, <<"sck", "sda">>[i])
  BY <1>3, Routed
<1>5. b + 1 - 1 = b /\ b + 2 - 1 = b + 1
  OBVIOUS
<1> QED  BY <1>1, <1>2, <1>4, <1>5

(* All signals of an SD card but its clock find a pin near that of the     *)
(* clock, and MIO 15 is not routed to SDIO 1.                              *)
LEMMA SdioWired ==
  ASSUME NEW Traits \in {Sdio0Pins, Sdio1Pins}, NEW pins \in SdioWirings(Traits)
  PROVE  DOMAIN pins = DOMAIN Traits /\ \A s \in DOMAIN Traits : pins[s] \in Traits[s]
<1> DEFINE near(s, r) == {p \in Traits[s] : p - r \in -2 .. 5}
<1>1. PICK c \in Traits["clk"] \X Traits["d2"] \X Traits["d3"] :
        pins = [s \in DOMAIN Traits |-> CASE s = "clk" -> c[1] [] s = "d2" -> c[2] [] s = "d3" -> c[3]
                                     [] OTHER -> CHOOSE p \in near(s, c[1]) : TRUE]
  BY DEF SdioWirings
<1>2. DOMAIN Traits = {"clk", "cmd", "d0", "d1", "d2", "d3"}
  BY DEF Sdio0Pins, Sdio1Pins
<1>3. ASSUME NEW s \in {"cmd", "d0", "d1"}  PROVE pins[s] \in Traits[s]
  <2>1. \E p \in Traits[s] : p - c[1] \in -2 .. 5
    <3>1. CASE Traits = Sdio0Pins
      <4>1. c[1] \in {16, 28, 40}
        BY <3>1 DEF Sdio0Pins
      <4>2. /\ Traits["cmd"] = {17, 29, 41} /\ Traits["d0"] = {18, 30, 42}
            /\ Traits["d1"] = {19, 31, 43}
        BY <3>1 DEF Sdio0Pins
      <4> QED  BY <4>1, <4>2
    <3>2. CASE Traits = Sdio1Pins
      <4>1. c[1] \in {12, 24, 36, 48}
        BY <3>2 DEF Sdio1Pins
      <4>2. /\ Traits["cmd"] = {11, 23, 35, 47} /\ Traits["d0"] = {10, 22, 34, 46}
            /\ Traits["d1"] = {13, 25, 37, 49}
        BY <3>2 DEF Sdio1Pins
      <4> QED  BY <4>1, <4>2
    <3> QED  BY <3>1, <3>2
  <2>2. pins[s] = CHOOSE p \in near(s, c[1]) : TRUE
    BY <1>1, <1>2
  <2> QED  BY <2>1, <2>2
<1>4. pins["clk"] = c[1] /\ pins["d2"] = c[2] /\ pins["d3"] = c[3]
  BY <1>1, <1>2
<1>5. DOMAIN pins = DOMAIN Traits
  BY <1>1
<1> QED  BY <1>2, <1>3, <1>4, <1>5

LEMMA SdioRouted ==
  ASSUME NEW n \in 0 .. 1, NEW Traits, Traits = IF n = 0 THEN Sdio0Pins ELSE Sdio1Pins,
         NEW s \in DOMAIN Traits, NEW p \in Traits[s], <<n, p>> # <<1, 15>>
  PROVE  p \in Pin /\ Carries(p, SD_MUX_CONF, <<"Sdio", n>>, s)
<1>1. CASE n = 0
  <2> DEFINE l == Laid(Every(12, 16, 40), new_with_l3(4), "Sdio", 0,
                       <<"clk", "cmd", "d0", "d1", "d2", "d3">>)
  <2>1. l \in Silicon /\ \A b \in {16, 28, 40} : b \in l.firsts \cap Int
    BY DEF Silicon, Laid, Every
  <2>2. /\ l.mux = SD_MUX_CONF /\ l.block = <<"Sdio", 0>>
        /\ l.signals = <<"clk", "cmd", "d0", "d1", "d2", "d3">>
    BY DEF Laid, SD_MUX_CONF
  <2> HIDE DEF l
  <2>3. \A b \in {16, 28, 40}, i \in 1 .. 6 :
          Carries(b + i - 1, SD_MUX_CONF, <<"Sdio", 0>>, l.signals[i])
    BY <2>1, <2>2, Routed
  <2>4. \E b \in {16, 28, 40}, i \in 1 .. 6 : p = b + i - 1 /\ s = l.signals[i]
    BY <1>1, <2>2 DEF Sdio0Pins
  <2> QED  BY <1>1, <2>3, <2>4 DEF Pin
<1>2. CASE n = 1
  <2> DEFINE l == Laid(Every(12, 10, 46), new_with_l3(4), "Sdio", 1,
                       <<"d0", "cmd", "clk", "d1", "d2", "d3">>)
  <2>1. l \in Silicon /\ \A b \in {10, 22, 34, 46} : b \in l.firsts \cap Int
    BY DEF Silicon, Laid, Every
  <2>2. /\ l.mux = SD_MUX_CONF /\ l.block = <<"Sdio", 1>>
        /\ l.signals = <<"d0", "cmd", "clk", "d1", "d2", "d3">>
    BY DEF Laid, SD_MUX_CONF
  <2> HIDE DEF l
  <2>3. \A b \in {10, 22, 34, 46}, i \in 1 .. 6 :
          Carries(b + i - 1, SD_MUX_CONF, <<"Sdio", 1>>, l.signals[i])
    BY <2>1, <2>2, Routed
  <2>4. \E b \in {10, 22, 34, 46}, i \in 1 .. 6 : p = b + i - 1 /\ s = l.signals[i]
    BY <1>2, <2>2 DEF Sdio1Pins
  <2> QED  BY <1>2, <2>3, <2>4 DEF Pin
<1> QED  BY <1>1, <1>2

LEMMA QspiRouted ==
  ASSUME NEW pins \in {Qspi0Pins, both(Qspi0Pins, FeedbackClockPin)}, NEW s \in DOMAIN pins
  PROVE  /\ pins[s] \in Pin /\ (s = "cs" <=> pins[s] = 1)
         /\ Carries(pins[s], QSPI_MUX_CONFIG, <<"Lqspi", 0>>, s)
<1> DEFINE l == Laid({1}, new_with_l0, "Lqspi", 0, <<"cs", "io0", "io1", "io2", "io3", "clk">>)
           f == Laid({8}, new_with_l0, "Lqspi", 0, <<"feedback">>)
<1>1. l \in Silicon /\ f \in Silicon
  BY DEF Silicon
<1>2. /\ l.mux = QSPI_MUX_CONFIG /\ l.block = <<"Lqspi", 0>> /\ l.firsts = {1}
      /\ l.signals = <<"cs", "io0", "io1", "io2", "io3", "clk">>
      /\ f.mux = QSPI_MUX_CONFIG /\ f.block = <<"Lqspi", 0>> /\ f.firsts = {8}
      /\ f.signals = <<"feedback">>
  BY DEF Laid, QSPI_MUX_CONFIG
<1> HIDE DEF l, f
<1>3. /\ \A i \in 1 .. 6 : Carries(1 + i - 1, QSPI_MUX_CONFIG, <<"Lqspi", 0>>, l.signals[i])
      /\ Carries(8 + 1 - 1, QSPI_MUX_CONFIG, <<"Lqspi", 0>>, f.signals[1])
  BY <1>1, <1>2, Routed
<1>4. \/ \E i \in 1 .. 6 : pins[s] = 1 + i - 1 /\ s = l.signals[i]
      \/ pins[s] = 8 + 1 - 1 /\ s = f.signals[1]
  BY <1>2 DEF Qspi0Pins, FeedbackClockPin, both
<1> QED  BY <1>2, <1>3, <1>4 DEF Pin

(* The MDIO of Ethernet 1 has a setting of its own.                        *)
LEMMA EthRouted ==
  ASSUME NEW n \in 0 .. 1, NEW rg, rg = IF n = 0 THEN Eth0Pins ELSE Eth1Pins,
         NEW pins \in {rg, both(rg, MdPins)}, NEW s \in DOMAIN pins
  PROVE  /\ pins[s] \in Pin
         /\ s \in received <=> pins[s] \in 16 + 12 * n + 6 .. 16 + 12 * n + 11
         /\ s \in DOMAIN MdPins <=> pins[s] \in 52 .. 53
         /\ \/ n = 1 /\ s \in DOMAIN MdPins
            \/ Carries(pins[s], eth_conf(s).mux, <<"Gem", n>>, s)
<1> DEFINE lead == 16 + 12 * n
           l == Laid({lead}, new_with_l0, "Gem", n, rgmii)
           f == Laid({52}, new_with_l3(4), "Gem", 0, <<"md_clk", "md_io">>)
<1>1. l \in Silicon /\ f \in Silicon
  <2>1. CASE n = 0
    BY <2>1 DEF Silicon
  <2>2. CASE n = 1
    BY <2>2 DEF Silicon
  <2> QED  BY <2>1, <2>2
<1>2. /\ l.mux = MUX_CONF_PHY /\ l.block = <<"Gem", n>> /\ l.firsts = {lead} /\ l.signals = rgmii
      /\ f.mux = MUX_CONF_MDIO /\ f.block = <<"Gem", 0>> /\ f.firsts = {52}
      /\ f.signals = <<"md_clk", "md_io">>
  BY DEF Laid, MUX_CONF_PHY, MUX_CONF_MDIO
<1>3. /\ DOMAIN rgmii = 1 .. 12 /\ DOMAIN f.signals = 1 .. 2 /\ lead \in Int
  BY <1>2 DEF rgmii
<1> HIDE DEF l, f
<1>4. /\ \A i \in 1 .. 12 : Carries(lead + i - 1, MUX_CONF_PHY, <<"Gem", n>>, rgmii[i])
      /\ \A i \in 1 .. 2 : Carries(52 + i - 1, MUX_CONF_MDIO, <<"Gem", 0>>, f.signals[i])
  <2>1. lead \in l.firsts \cap Int /\ DOMAIN l.signals = 1 .. 12 /\ 52 \in f.firsts \cap Int
    BY <1>2, <1>3
  <2>2. \A i \in 1 .. 12 : Carries(lead + i - 1, l.mux, l.block, l.signals[i])
    BY <1>1, <2>1, Routed
  <2>3. \A i \in 1 .. 2 : Carries(52 + i - 1, f.mux, f.block, f.signals[i])
    BY <1>1, <1>3, <2>1, Routed
  <2> QED  BY <1>2, <2>2, <2>3
<1>5. \/ \E i \in 1 .. 12 : pins[s] = lead + i - 1 /\ s = rgmii[i]
      \/ s \in DOMAIN MdPins /\ \E i \in 1 .. 2 : pins[s] = 52 + i - 1 /\ s = f.signals[i]
  <2>1. \A t \in DOMAIN rg : \E i \in 1 .. 12 : rg[t] = lead + i - 1 /\ t = rgmii[i]
    <3>1. CASE n = 0
      BY <3>1 DEF rgmii, Eth0Pins
    <3>2. CASE n = 1
      BY <3>2 DEF rgmii, Eth1Pins
    <3> QED  BY <3>1, <3>2
  <2>2. \A t \in DOMAIN MdPins : \E i \in 1 .. 2 : MdPins[t] = 52 + i - 1 /\ t = f.signals[i]
    BY <1>2 DEF MdPins
  <2> QED  BY <2>1, <2>2 DEF both
<1>6. CASE \E i \in 1 .. 12 : pins[s] = lead + i - 1 /\ s = rgmii[i]
  <2>1. PICK i \in 1 .. 12 : pins[s] = lead + i - 1 /\ s = rgmii[i]
    BY <1>6
  <2>2. rgmii[i] \in received <=> i \in 7 .. 12
    BY DEF rgmii, received
  <2>3. rgmii[i] \notin DOMAIN MdPins
    BY DEF rgmii, MdPins
  <2>4. eth_conf(s).mux = MUX_CONF_PHY
    BY <2>1, <2>3 DEF eth_conf, io_periph_pin
  <2> QED  BY <1>4, <2>1, <2>2, <2>3, <2>4 DEF Pin
<1>7. CASE s \in DOMAIN MdPins /\ \E i \in 1 .. 2 : pins[s] = 52 + i - 1 /\ s = f.signals[i]
  <2>1. eth_conf(s).mux = MUX_CONF_MDIO
    BY <1>7 DEF eth_conf, io_periph_pin
  <2>2. s \notin received
    BY <1>7 DEF MdPins, received
  <2> QED  BY <1>4, <1>7, <2>1, <2>2 DEF Pin
<1> QED  BY <1>5, <1>6, <1>7

LEMMA WaveOutRouted ==
  ASSUME NEW n \in 0 .. 1, NEW p \in WaveOutPins, n = 0 <=> p \in {18, 30, 42}
  PROVE  p \in Pin /\ Carries(p, TTC_MUX_CONF, <<"Ttc", n>>, "wave_out")
<1>1. \E l \in Silicon : /\ l.mux = TTC_MUX_CONF /\ l.block = <<"Ttc", n>>
                         /\ l.signals = <<"wave_out">> /\ p \in l.firsts \cap Int
  <2> DEFINE l0 == Laid(Every(12, 18, 42), new_with_l3(6), "Ttc", 0, <<"wave_out">>)
             l1 == Laid(Every(12, 16, 40), new_with_l3(6), "Ttc", 1, <<"wave_out">>)
  <2>1. l0 \in Silicon /\ l1 \in Silicon
    BY DEF Silicon
  <2>2. CASE n = 0
    BY <2>1, <2>2 DEF Laid, Every, TTC_MUX_CONF
  <2>3. CASE n = 1
    BY <2>1, <2>3 DEF Laid, Every, TTC_MUX_CONF, WaveOutPins
  <2> QED  BY <2>2, <2>3
<1>2. Carries(p + 1 - 1, TTC_MUX_CONF, <<"Ttc", n>>, <<"wave_out">>[1]) /\ p \in Int
  BY <1>1, Routed
<1>3. p + 1 - 1 = p
  BY <1>2
<1> QED  BY <1>2, <1>3 DEF Pin, WaveOutPins

LEMMA GpioRouted ==
  ASSUME NEW p \in Pin
  PROVE  Carries(p, new_for_gpio, <<"Gpio", 0>>, "io")
<1> DEFINE l == Laid(Pin, new_for_gpio, "Gpio", 0, <<"io">>)
<1>1. /\ l \in Silicon /\ l.mux = new_for_gpio /\ l.block = <<"Gpio", 0>> /\ l.signals = <<"io">>
      /\ p \in l.firsts \cap Int
  BY DEF Silicon, Laid, Pin
<1> HIDE DEF l
<1>2. Carries(p + 1 - 1, new_for_gpio, <<"Gpio", 0>>, <<"io">>[1])
  BY <1>1, Routed
<1> QED  BY <1>2 DEF Pin

(* A driver comes in with pins that were free; no other pin changes.       *)
LEMMA PinsTaken ==
  ASSUME PinsInv, NEW kind, NEW blocks, NEW pins, NEW confs, NEW d,
         Consume(kind, blocks, pins), configure(pins, confs),
         drivers' = drivers \cup {d}, d = [id |-> d.id, pins |-> pins, ready |-> d.ready],
         \A s \in DOMAIN pins :
            /\ confs[s] \in PinConf
            /\ confs[s].tri => s \in received \cup {"io"}
            /\ \/ Unchecked(d, s)
               \/ Carries(pins[s], confs[s].mux, <<d.id[1], d.id[2]>>, s),
         \A s, t \in DOMAIN pins : pins[s] = pins[t] => confs[s] = confs[t]
  PROVE  PinsInv'
<1>1. /\ Range(pins) \subseteq free /\ free' = free \ Range(pins) /\ unused' \subseteq unused
      /\ free \subseteq Pin /\ d.pins = pins
  BY DEF Consume, PinsInv
<1>2. \A s \in DOMAIN pins : pins[s] \in Pin /\ mio'[pins[s]] = confs[s]
  BY <1>1 DEF configure, Range
<1>3. \A p \in Pin \ Range(pins) : mio'[p] = mio[p]
  BY DEF configure
<1>4. mio' \in [Pin -> PinConf]
  <2>1. mio' = [p \in Pin |-> mio'[p]]
    BY DEF configure
  <2>2. ASSUME NEW p \in Pin  PROVE mio'[p] \in PinConf
    BY <1>2, <1>3 DEF PinsInv, Range
  <2> HIDE DEF PinConf
  <2> QED  BY <2>1, <2>2
<1>5. <<"Gpio", 0>> \in unused' => free' = {} /\ \A e \in drivers' : DOMAIN e.pins = {}
  BY <1>1 DEF PinsInv, Range
<1>6. \A e \in drivers' : /\ e = [id |-> e.id, pins |-> e.pins, ready |-> e.ready]
                          /\ Range(e.pins) \subseteq Pin
  BY <1>1 DEF PinsInv
<1>7. PinsServeDrivers'
  <2>1. SUFFICES ASSUME NEW e \in drivers', NEW s \in DOMAIN e.pins
          PROVE  /\ e.pins[s] \notin free'
                 /\ \/ Unchecked(e, s)
                    \/ Carries(e.pins[s], mio'[e.pins[s]].mux, <<e.id[1], e.id[2]>>, s)
                 /\ mio'[e.pins[s]].tri => s \in received \cup {"io"}
    BY DEF PinsServeDrivers, Unchecked, Carries
  <2>2. CASE e \in drivers
    <3>1. e.pins[s] \notin free /\ e.pins[s] \in Pin
      BY <2>2 DEF PinsInv, PinsServeDrivers, Range
    <3>2. mio'[e.pins[s]] = mio[e.pins[s]]
      BY <1>1, <1>3, <3>1
    <3> QED  BY <1>1, <2>2, <3>1, <3>2 DEF PinsInv, PinsServeDrivers
  <2>3. CASE e = d
    BY <1>1, <1>2, <2>3 DEF Range
  <2> QED  BY <2>2, <2>3
<1> QED  BY <1>1, <1>4, <1>5, <1>6, <1>7 DEF PinsInv

LEMMA NoPinsTaken ==
  ASSUME PinsInv, NEW kind, NEW blocks, NEW d, Consume(kind, blocks, no_pins), UNCHANGED mio,
         drivers' = drivers \cup {d}, d = [id |-> d.id, pins |-> no_pins, ready |-> d.ready]
  PROVE  PinsInv'
<1>1. /\ free' = free /\ unused' \subseteq unused /\ d.pins = no_pins /\ DOMAIN no_pins = {}
      /\ Range(no_pins) = {}
  BY DEF Consume, no_pins, Range
<1>2. PinsServeDrivers'
  BY <1>1 DEF PinsInv, PinsServeDrivers, Unchecked, Carries
<1> QED  BY <1>1, <1>2 DEF PinsInv

LEMMA PinsRefused ==
  ASSUME PinsInv, NEW kind, NEW blocks, NEW pins, Consume(kind, blocks, pins), Err
  PROVE  PinsInv'
<1>1. /\ free' \subseteq free /\ unused' \subseteq unused /\ UNCHANGED <<mio, drivers>>
  BY DEF Consume, Err
<1>2. PinsServeDrivers'
  BY <1>1 DEF PinsInv, PinsServeDrivers, Unchecked, Carries
<1> QED  BY <1>1, <1>2 DEF PinsInv

LEMMA ConfsTyped ==
  /\ \A mux \in Muxes, pullup \in BOOLEAN : io_periph_pin(mux, pullup) \in PinConf
  /\ PinsInv => \A mux \in Muxes, p \in Pin : io_periph_pin_as_is(p, mux) \in PinConf
  /\ {SPI_MUX_CONF, UART_MUX_CONF, I2C_MUX_CONF, SD_MUX_CONF, QSPI_MUX_CONFIG, MUX_CONF_PHY,
      MUX_CONF_MDIO, TTC_MUX_CONF, new_for_gpio} \subseteq Muxes
  /\ \A s : eth_conf(s) \in PinConf
<1>1. \A mux \in Muxes, pullup \in BOOLEAN : io_periph_pin(mux, pullup) \in PinConf
  BY DEF PinConf, io_periph_pin
<1>2. ASSUME PinsInv, NEW mux \in Muxes, NEW p \in Pin  PROVE io_periph_pin_as_is(p, mux) \in PinConf
  <2>1. mio[p] \in PinConf
    BY <1>2 DEF PinsInv
  <2>2. mio[p].pullup \in BOOLEAN
    BY <2>1 DEF PinConf
  <2> QED  BY <2>2 DEF PinConf, io_periph_pin_as_is
<1>3. {SPI_MUX_CONF, UART_MUX_CONF, I2C_MUX_CONF, SD_MUX_CONF, QSPI_MUX_CONFIG, MUX_CONF_PHY,
       MUX_CONF_MDIO, TTC_MUX_CONF, new_for_gpio} \subseteq Muxes
  BY DEF Muxes, SPI_MUX_CONF, UART_MUX_CONF, I2C_MUX_CONF, SD_MUX_CONF, QSPI_MUX_CONFIG,
         MUX_CONF_PHY, MUX_CONF_MDIO, TTC_MUX_CONF, new_for_gpio
<1>4. ASSUME NEW s  PROVE eth_conf(s) \in PinConf
  <2>1. MUX_CONF_PHY \in Muxes /\ MUX_CONF_MDIO \in Muxes
    BY <1>3
  <2>2. CASE s \in DOMAIN MdPins
    BY <1>1, <2>1, <2>2 DEF eth_conf
  <2>3. CASE s \notin DOMAIN MdPins
    <3>1. \A tri \in BOOLEAN :
            [io_periph_pin(MUX_CONF_PHY, TRUE) EXCEPT !.tri = tri] \in PinConf
      BY <2>1 DEF io_periph_pin, PinConf
    <3>2. (s \in received) \in BOOLEAN
      OBVIOUS
    <3> QED  BY <2>3, <3>1, <3>2 DEF eth_conf
  <2> QED  BY <2>2, <2>3
<1> QED  BY <1>1, <1>2, <1>3, <1>4

(* All pins of the driver get the same setting, and are driven.            *)
LEMMA PlainlyRouted ==
  ASSUME PinsInv, NEW kind, NEW blocks, NEW pins, NEW confs, NEW id, NEW ready,
         NEW mux \in Muxes, NEW pullup \in BOOLEAN,
         Consume(kind, blocks, pins), configure(pins, confs),
         drivers' = drivers \cup {[id |-> id, pins |-> pins, ready |-> ready]},
         \A s \in DOMAIN pins : confs[s] = io_periph_pin(mux, pullup),
         \A s \in DOMAIN pins :
            \/ Unchecked([id |-> id, pins |-> pins, ready |-> ready], s)
            \/ Carries(pins[s], mux, <<id[1], id[2]>>, s)
  PROVE  PinsInv'
<1> DEFINE d == [id |-> id, pins |-> pins, ready |-> ready]
<1>1. /\ d = [id |-> d.id, pins |-> pins, ready |-> d.ready] /\ d.id = id
      /\ drivers' = drivers \cup {d}
  OBVIOUS
<1>2. \A s \in DOMAIN pins : Unchecked(d, s) \/ Carries(pins[s], mux, <<id[1], id[2]>>, s)
  OBVIOUS
<1>3. /\ io_periph_pin(mux, pullup) \in PinConf /\ io_periph_pin(mux, pullup).mux = mux
      /\ io_periph_pin(mux, pullup).tri = FALSE
  BY ConfsTyped DEF io_periph_pin
<1> HIDE DEF d
<1>4. \A s \in DOMAIN pins :
         /\ confs[s] \in PinConf
         /\ confs[s].tri => s \in received \cup {"io"}
         /\ Unchecked(d, s) \/ Carries(pins[s], confs[s].mux, <<d.id[1], d.id[2]>>, s)
  BY <1>1, <1>2, <1>3
<1> QED  BY <1>1, <1>4, PinsTaken

LEMMA PinsInit == SetupInit => PinsInv
<1> SUFFICES ASSUME SetupInit  PROVE PinsInv
  OBVIOUS
<1>1. mio \in [Pin -> PinConf]
  <2>1. new_with_l3(0) \in Muxes /\ new_with_l3(4) \in Muxes /\ new_with_l3(7) \in Muxes
        /\ new_with_l0 \in Muxes /\ new_with_l1 \in Muxes
    BY DEF Muxes
  <2> HIDE DEF Muxes
  <2>2. ASSUME NEW p \in Pin  PROVE ps7_mio(p) \in PinConf
    <3>1. ps7_mio(p).mux \in Muxes
      BY <2>1 DEF ps7_mio, new_for_gpio
    <3> QED  BY <3>1 DEF ps7_mio, PinConf
  <2> QED  BY <2>2 DEF SetupInit
<1> QED  BY <1>1 DEF SetupInit, PinsInv, PinsServeDrivers

LEMMA PinsStep ==
  ASSUME PinsInv, [SetupNext]_setupVars
  PROVE  PinsInv'
<1> USE ConfsTyped
<1>1. CASE GpioPins_new
  <2>1. /\ \A d \in drivers : DOMAIN d.pins = {}
        /\ UNCHANGED <<mio, drivers>> /\ <<"Gpio", 0>> \notin unused' /\ free' = Pin
    BY <1>1 DEF GpioPins_new, Pins_new, PinsInv
  <2>2. PinsServeDrivers'
    BY <2>1 DEF PinsServeDrivers
  <2> QED  BY <2>1, <2>2 DEF PinsInv
<1>2. CASE SdCardUninit_initialize
  <2>1. PICK d \in drivers :
          /\ drivers' = (drivers \ {d}) \cup {[d EXCEPT !.ready = TRUE]}
          /\ UNCHANGED <<free, unused, mio>>
    BY <1>2 DEF SdCardUninit_initialize
  <2> DEFINE e == [d EXCEPT !.ready = TRUE]
  <2>2. e = [id |-> d.id, pins |-> d.pins, ready |-> TRUE]
    <3>1. d = [id |-> d.id, pins |-> d.pins, ready |-> d.ready]
      BY DEF PinsInv
    <3>2. d \in [id : {d.id}, pins : {d.pins}, ready : {d.ready}]
      BY <3>1
    <3>3. e \in [id : {d.id}, pins : {d.pins}, ready : {TRUE}]
      BY <3>2
    <3> HIDE DEF e
    <3> QED  BY <3>3
  <2> HIDE DEF e
  <2>3. e.id = d.id /\ e.pins = d.pins /\ e = [id |-> e.id, pins |-> e.pins, ready |-> e.ready]
    BY <2>2
  <2>4. \A s : Unchecked(d, s) => Unchecked(e, s)
    BY <2>3 DEF Unchecked
  <2>5. drivers' = (drivers \ {d}) \cup {e}
    BY <2>1 DEF e
  <2>6. PinsServeDrivers'
    <3>1. SUFFICES ASSUME NEW f \in drivers', NEW s \in DOMAIN f.pins
            PROVE  /\ f.pins[s] \notin free
                   /\ \/ Unchecked(f, s)
                      \/ Carries(f.pins[s], mio[f.pins[s]].mux, <<f.id[1], f.id[2]>>, s)
                   /\ mio[f.pins[s]].tri => s \in received \cup {"io"}
      BY <2>1 DEF PinsServeDrivers, Unchecked, Carries
    <3> QED  BY <2>3, <2>4, <2>5 DEF PinsInv, PinsServeDrivers
  <2> QED  BY <2>1, <2>3, <2>5, <2>6 DEF PinsInv
<1>3. CASE Gpio_new
  <2>1. PICK p \in free, output \in BOOLEAN :
          /\ Consume("Gpio", {}, [io |-> p])
          /\ \/ /\ configure([io |-> p], [s \in {"io"} |-> gpio_conf(p, output)])
                /\ Ok(<<"Gpio", 0>>, [io |-> p])
             \/ Err
    BY <1>3 DEF Gpio_new
  <2>2. p \in Pin /\ gpio_conf(p, output) \in PinConf /\ gpio_conf(p, output).mux = new_for_gpio
    <3>1. p \in Pin
      BY DEF PinsInv
    <3>2. mio[p] \in PinConf
      BY <3>1 DEF PinsInv
    <3>3. new_for_gpio \in Muxes
      BY DEF Muxes, new_for_gpio
    <3> HIDE DEF Muxes
    <3> QED  BY <3>1, <3>2, <3>3 DEF gpio_conf, PinConf
  <2>3. Carries(p, new_for_gpio, <<"Gpio", 0>>, "io")
    BY <2>2, GpioRouted
  <2>4. CASE /\ configure([io |-> p], [s \in {"io"} |-> gpio_conf(p, output)])
             /\ Ok(<<"Gpio", 0>>, [io |-> p])
    <3> DEFINE d == [id |-> <<"Gpio", 0>>, pins |-> [io |-> p], ready |-> TRUE]
               confs == [s \in {"io"} |-> gpio_conf(p, output)]
    <3>1. drivers' = drivers \cup {d}
      BY <2>4 DEF Ok, Driver
    <3>2. confs["io"] = gpio_conf(p, output) /\ DOMAIN [io |-> p] = {"io"} /\ [io |-> p]["io"] = p
      OBVIOUS
    <3>3. d.id[1] = "Gpio" /\ d.id[2] = 0 /\ d = [id |-> d.id, pins |-> [io |-> p], ready |-> d.ready]
      OBVIOUS
    <3>4. configure([io |-> p], confs)
      BY <2>4
    <3> HIDE DEF d, confs
    <3> QED  BY <2>1, <2>2, <2>3, <3>1, <3>2, <3>3, <3>4, PinsTaken
  <2> QED  BY <2>1, <2>4, PinsRefused
<1>4. CASE Spi_new
  <2>1. PICK n \in 0 .. 1, picks \in SpiPicks :
          /\ Consume("Spi", {<<"Spi", n>>}, [s \in DOMAIN picks |-> picks[s][s]])
          /\ \/ /\ spi_accepts(n, picks)
                /\ configure([s \in DOMAIN picks |-> picks[s][s]],
                             [s \in DOMAIN picks |-> io_periph_pin(SPI_MUX_CONF, FALSE)])
                /\ Ok(<<"Spi", n>>, [s \in DOMAIN picks |-> picks[s][s]])
             \/ Err
    BY <1>4 DEF Spi_new
  <2> DEFINE pins == [s \in DOMAIN picks |-> picks[s][s]]
  <2>2. CASE Err
    BY <2>1, <2>2, PinsRefused
  <2>3. CASE /\ spi_accepts(n, picks)
             /\ configure(pins, [s \in DOMAIN picks |-> io_periph_pin(SPI_MUX_CONF, FALSE)])
             /\ Ok(<<"Spi", n>>, pins)
    <3>1. \A s \in DOMAIN picks :
            picks[s] \in SpiGroups /\ s \in {"sck", "miso", "mosi", "ss0", "ss1", "ss2"}
      BY SpiPicked
    <3>2. \A s \in DOMAIN picks : Carries(pins[s], SPI_MUX_CONF, <<"Spi", n>>, s)
      BY <2>3, <3>1, SpiRouted DEF spi_accepts
    <3> DEFINE confs == [s \in DOMAIN picks |-> io_periph_pin(SPI_MUX_CONF, FALSE)]
    <3>3. /\ DOMAIN pins = DOMAIN picks /\ configure(pins, confs)
          /\ \A s \in DOMAIN picks : confs[s] = io_periph_pin(SPI_MUX_CONF, FALSE)
      BY <2>3
    <3> DEFINE id == <<"Spi", n>>
    <3>4. id[1] = "Spi" /\ id[2] = n /\ Consume("Spi", {id}, pins)
      BY <2>1
    <3>5. drivers' = drivers \cup {[id |-> id, pins |-> pins, ready |-> TRUE]}
      BY <2>3 DEF Ok, Driver
    <3> HIDE DEF pins, confs, id
    <3>6. /\ SPI_MUX_CONF \in Muxes
          /\ \A s \in DOMAIN pins : Carries(pins[s], SPI_MUX_CONF, <<id[1], id[2]>>, s)
      BY <3>2, <3>3, <3>4
    <3> QED  BY <3>3, <3>4, <3>5, <3>6, PlainlyRouted
  <2> QED  BY <2>1, <2>2, <2>3
<1>5. CASE Uart_new_with_mio
  <2>1. PICK n \in 0 .. 1, u \in 0 .. 1 : \E pins \in UartPins(u) :
          /\ Consume("Uart", {<<"Uart", n>>}, pins)
          /\ \/ /\ n = u
                /\ configure(pins,
                             [s \in DOMAIN pins |-> io_periph_pin_as_is(pins[s], UART_MUX_CONF)])
                /\ Ok(<<"Uart", n>>, pins)
             \/ Err
    BY <1>5 DEF Uart_new_with_mio
  <2>2. PICK pins \in UartPins(u) :
          /\ Consume("Uart", {<<"Uart", n>>}, pins)
          /\ \/ /\ n = u
                /\ configure(pins,
                             [s \in DOMAIN pins |-> io_periph_pin_as_is(pins[s], UART_MUX_CONF)])
                /\ Ok(<<"Uart", n>>, pins)
             \/ Err
    BY <2>1
  <2>3. CASE Err
    BY <2>2, <2>3, PinsRefused
  <2>4. CASE /\ n = u
             /\ configure(pins, [s \in DOMAIN pins |-> io_periph_pin_as_is(pins[s], UART_MUX_CONF)])
             /\ Ok(<<"Uart", n>>, pins)
    <3> DEFINE confs == [s \in DOMAIN pins |-> io_periph_pin_as_is(pins[s], UART_MUX_CONF)]
               d == [id |-> <<"Uart", n>>, pins |-> pins, ready |-> TRUE]
    <3>1. \A s \in DOMAIN pins :
            pins[s] \in Pin /\ Carries(pins[s], UART_MUX_CONF, <<"Uart", n>>, s)
      BY <2>4, UartRouted
    <3>2. /\ drivers' = drivers \cup {d} /\ d = [id |-> d.id, pins |-> pins, ready |-> d.ready]
          /\ d.id[1] = "Uart" /\ d.id[2] = n /\ configure(pins, confs)
      BY <2>4 DEF Ok, Driver
    <3>3. /\ \A s \in DOMAIN pins : confs[s] = io_periph_pin_as_is(pins[s], UART_MUX_CONF)
          /\ \A s \in DOMAIN pins : confs[s].mux = UART_MUX_CONF /\ confs[s].tri = FALSE
      BY DEF io_periph_pin_as_is
    <3>4. \A s, t \in DOMAIN pins : pins[s] = pins[t] => confs[s] = confs[t]
      BY <3>3
    <3>5. \A s \in DOMAIN pins : confs[s] \in PinConf
      BY <3>1, <3>3
    <3> HIDE DEF confs, d
    <3> QED  BY <2>2, <3>1, <3>2, <3>3, <3>4, <3>5, PinsTaken
  <2> QED  BY <2>2, <2>3, <2>4
<1>6. CASE I2c_new_with_mio
  <2>1. PICK id \in Twins("I2c"), a \in i2c_pin_impls : \E b \in i2c_pin_impls :
          /\ Consume("I2c", {id}, [sck |-> a.sck, sda |-> b.sda])
          /\ \/ /\ a.id = b.id
                /\ configure([sck |-> a.sck, sda |-> b.sda],
                             [s \in {"sck", "sda"} |-> io_periph_pin(I2C_MUX_CONF, TRUE)])
                /\ Ok(id, [sck |-> a.sck, sda |-> b.sda])
             \/ Err
    BY <1>6 DEF I2c_new_with_mio
  <2>2. PICK b \in i2c_pin_impls :
          /\ Consume("I2c", {id}, [sck |-> a.sck, sda |-> b.sda])
          /\ \/ /\ a.id = b.id
                /\ configure([sck |-> a.sck, sda |-> b.sda],
                             [s \in {"sck", "sda"} |-> io_periph_pin(I2C_MUX_CONF, TRUE)])
                /\ Ok(id, [sck |-> a.sck, sda |-> b.sda])
             \/ Err
    BY <2>1
  <2>3. CASE Err
    BY <2>2, <2>3, PinsRefused
  <2>4. CASE /\ a.id = b.id
             /\ configure([sck |-> a.sck, sda |-> b.sda],
                          [s \in {"sck", "sda"} |-> io_periph_pin(I2C_MUX_CONF, TRUE)])
             /\ Ok(id, [sck |-> a.sck, sda |-> b.sda])
    <3> DEFINE confs == [s \in {"sck", "sda"} |-> io_periph_pin(I2C_MUX_CONF, TRUE)]
               pins == [sck |-> a.sck, sda |-> b.sda]
               d == [id |-> id, pins |-> pins, ready |-> TRUE]
    <3>1. /\ id[1] = "I2c" /\ id[2] \in 0 .. 1 /\ d.id = id /\ d.pins = pins
      BY DEF Twins
    <3>2. DOMAIN pins = {"sck", "sda"} /\ pins["sck"] = a["sck"] /\ pins["sda"] = b["sda"]
      OBVIOUS
    <3>3. \A s \in DOMAIN pins : confs[s] = io_periph_pin(I2C_MUX_CONF, TRUE)
      BY <3>2
    <3> HIDE DEF confs, pins, d
    <3>4. ASSUME NEW s \in DOMAIN pins
          PROVE  Unchecked(d, s) \/ Carries(pins[s], I2C_MUX_CONF, <<id[1], id[2]>>, s)
      <4>1. PICK i \in i2c_pin_impls : i.id = a.id /\ pins[s] = i[s] /\ s \in {"sck", "sda"}
        BY <2>4, <3>2
      <4>2. CASE a.id = id[2]
        BY <3>1, <4>1, <4>2, I2cRouted
      <4>3. CASE a.id # id[2]
        BY <3>1, <4>1, <4>3 DEF Unchecked
      <4> QED  BY <4>2, <4>3
    <3>5. configure(pins, confs) /\ Consume("I2c", {id}, pins)
      BY <2>2, <2>4 DEF confs, pins
    <3>6. drivers' = drivers \cup {[id |-> id, pins |-> pins, ready |-> TRUE]}
      BY <2>4 DEF Ok, Driver, pins
    <3> QED  BY <3>3, <3>4, <3>5, <3>6, PlainlyRouted DEF d
  <2> QED  BY <2>2, <2>3, <2>4
<1>7. CASE SdCardUninit_new
  <2>1. PICK n \in 0 .. 1, u \in 0 .. 1 :
          \E pins \in SdioWirings(IF u = 0 THEN Sdio0Pins ELSE Sdio1Pins) :
          /\ Consume("Sdio", {<<"Sdio", n>>}, pins)
          /\ \/ /\ n = u
                /\ configure(pins, [s \in DOMAIN pins |-> io_periph_pin(SD_MUX_CONF, FALSE)])
                /\ drivers' = Driver(<<"Sdio", n>>, pins, FALSE)
             \/ Err
    BY <1>7 DEF SdCardUninit_new
  <2> DEFINE Traits == IF u = 0 THEN Sdio0Pins ELSE Sdio1Pins
  <2>2. PICK pins \in SdioWirings(Traits) :
          /\ Consume("Sdio", {<<"Sdio", n>>}, pins)
          /\ \/ /\ n = u
                /\ configure(pins, [s \in DOMAIN pins |-> io_periph_pin(SD_MUX_CONF, FALSE)])
                /\ drivers' = Driver(<<"Sdio", n>>, pins, FALSE)
             \/ Err
    BY <2>1
  <2>3. CASE Err
    BY <2>2, <2>3, PinsRefused
  <2>4. CASE /\ n = u
             /\ configure(pins, [s \in DOMAIN pins |-> io_periph_pin(SD_MUX_CONF, FALSE)])
             /\ drivers' = Driver(<<"Sdio", n>>, pins, FALSE)
    <3> DEFINE confs == [s \in DOMAIN pins |-> io_periph_pin(SD_MUX_CONF, FALSE)]
               d == [id |-> <<"Sdio", n>>, pins |-> pins, ready |-> FALSE]
    <3>1. Traits \in {Sdio0Pins, Sdio1Pins} /\ Traits = IF n = 0 THEN Sdio0Pins ELSE Sdio1Pins
      BY <2>4
    <3>2. d.id = <<"Sdio", n>> /\ d.pins = pins
      OBVIOUS
    <3>3. /\ \A s \in DOMAIN pins : confs[s] = io_periph_pin(SD_MUX_CONF, FALSE)
          /\ configure(pins, confs)
          /\ drivers' = drivers \cup {[id |-> <<"Sdio", n>>, pins |-> pins, ready |-> FALSE]}
      BY <2>4 DEF Driver
    <3> HIDE DEF Traits, confs, d
    <3>4. ASSUME NEW s \in DOMAIN pins
          PROVE  Unchecked(d, s) \/ Carries(pins[s], SD_MUX_CONF, <<"Sdio", n>>, s)
      <4>1. s \in DOMAIN Traits /\ pins[s] \in Traits[s]
        BY <3>1, SdioWired
      <4>2. CASE <<n, pins[s]>> = <<1, 15>>
        BY <3>2, <4>2 DEF Unchecked
      <4>3. CASE <<n, pins[s]>> # <<1, 15>>
        BY <3>1, <4>1, <4>3, SdioRouted
      <4> QED  BY <4>2, <4>3
    <3> DEFINE id == <<"Sdio", n>>
    <3>5. id[1] = "Sdio" /\ id[2] = n /\ Consume("Sdio", {id}, pins) /\ SD_MUX_CONF \in Muxes
      BY <2>2
    <3>6. drivers' = drivers \cup {[id |-> id, pins |-> pins, ready |-> FALSE]}
      BY <3>3
    <3>7. d = [id |-> id, pins |-> pins, ready |-> FALSE]
      BY DEF d
    <3> HIDE DEF id
    <3>8. \A s \in DOMAIN pins :
             \/ Unchecked([id |-> id, pins |-> pins, ready |-> FALSE], s)
             \/ Carries(pins[s], SD_MUX_CONF, <<id[1], id[2]>>, s)
      BY <3>4, <3>5, <3>7
    <3> QED  BY <3>3, <3>5, <3>6, <3>8, PlainlyRouted
  <2> QED  BY <2>2, <2>3, <2>4
<1>8. CASE Qspi_new
  <2>1. PICK pins \in {Qspi0Pins, both(Qspi0Pins, FeedbackClockPin)} :
          /\ Consume("Lqspi", {<<"Lqspi", 0>>}, pins)
          /\ configure(pins, [s \in DOMAIN pins |-> qspi_conf(s)])
          /\ Ok(<<"Lqspi", 0>>, pins)
    BY <1>8 DEF Qspi_new
  <2> DEFINE confs == [s \in DOMAIN pins |-> qspi_conf(s)]
             d == [id |-> <<"Lqspi", 0>>, pins |-> pins, ready |-> TRUE]
  <2>2. /\ drivers' = drivers \cup {d} /\ d = [id |-> d.id, pins |-> pins, ready |-> d.ready]
        /\ d.id[1] = "Lqspi" /\ d.id[2] = 0 /\ configure(pins, confs)
    BY <2>1 DEF Ok, Driver
  <2>3. \A s \in DOMAIN pins : confs[s] = io_periph_pin(QSPI_MUX_CONFIG, s = "cs")
    BY DEF qspi_conf
  <2>4. ASSUME NEW s \in DOMAIN pins
        PROVE  confs[s] \in PinConf /\ confs[s].mux = QSPI_MUX_CONFIG /\ confs[s].tri = FALSE
    <3>1. (s = "cs") \in BOOLEAN
      OBVIOUS
    <3>2. io_periph_pin(QSPI_MUX_CONFIG, s = "cs") \in PinConf
      BY <3>1
    <3>3. confs[s] = [mux |-> QSPI_MUX_CONFIG, pullup |-> s = "cs", tri |-> FALSE]
      BY <2>3 DEF io_periph_pin
    <3>4. confs[s].mux = QSPI_MUX_CONFIG /\ confs[s].tri = FALSE
      BY <3>3
    <3>5. confs[s] \in PinConf
      BY <2>3, <3>2
    <3> QED  BY <3>4, <3>5
  <2>5. \A s, t \in DOMAIN pins : pins[s] = pins[t] => confs[s] = confs[t]
    <3>1. ASSUME NEW s \in DOMAIN pins, NEW t \in DOMAIN pins, pins[s] = pins[t]
          PROVE  s = "cs" <=> t = "cs"
      BY <3>1, QspiRouted
    <3> QED  BY <2>3, <3>1 DEF io_periph_pin
  <2> HIDE DEF confs, d
  <2>6. \A s \in DOMAIN pins : Carries(pins[s], confs[s].mux, <<d.id[1], d.id[2]>>, s)
    BY <2>2, <2>4, QspiRouted
  <2> QED  BY <2>1, <2>2, <2>4, <2>5, <2>6, PinsTaken
<1>9. CASE Ethernet_new_with_mio
  <2>1. PICK n \in 0 .. 1, md \in BOOLEAN :
          LET rg == IF n = 0 THEN Eth0Pins ELSE Eth1Pins
              pins == IF md THEN both(rg, MdPins) ELSE rg IN
          /\ Consume("Gem", {<<"Gem", n>>}, pins)
          /\ configure(pins, [s \in DOMAIN pins |-> eth_conf(s)])
          /\ Ok(<<"Gem", n>>, pins)
    BY <1>9 DEF Ethernet_new_with_mio
  <2> DEFINE rg == IF n = 0 THEN Eth0Pins ELSE Eth1Pins
             pins == IF md THEN both(rg, MdPins) ELSE rg
             confs == [s \in DOMAIN pins |-> eth_conf(s)]
             d == [id |-> <<"Gem", n>>, pins |-> pins, ready |-> TRUE]
  <2>2. /\ drivers' = drivers \cup {d} /\ d = [id |-> d.id, pins |-> pins, ready |-> d.ready]
        /\ d.id = <<"Gem", n>> /\ configure(pins, confs) /\ Consume("Gem", {<<"Gem", n>>}, pins)
        /\ pins \in {rg, both(rg, MdPins)}
    BY <2>1 DEF Ok, Driver
  <2>3. \A s \in DOMAIN pins : confs[s] = eth_conf(s)
    OBVIOUS
  <2> HIDE DEF pins, confs, d
  <2>4. \A s \in DOMAIN pins :
          /\ s \in received <=> pins[s] \in 16 + 12 * n + 6 .. 16 + 12 * n + 11
          /\ s \in DOMAIN MdPins <=> pins[s] \in 52 .. 53
          /\ \/ n = 1 /\ s \in DOMAIN MdPins
             \/ Carries(pins[s], eth_conf(s).mux, <<"Gem", n>>, s)
    BY <2>2, EthRouted
  <2>5. \A s, t \in DOMAIN pins : pins[s] = pins[t] => confs[s] = confs[t]
    <3>1. ASSUME NEW s \in DOMAIN pins, NEW t \in DOMAIN pins, pins[s] = pins[t]
          PROVE  /\ s \in received <=> t \in received
                 /\ s \in DOMAIN MdPins <=> t \in DOMAIN MdPins
      BY <2>4, <3>1
    <3>2. ASSUME NEW s, NEW t, s \in received <=> t \in received,
                 s \in DOMAIN MdPins <=> t \in DOMAIN MdPins
          PROVE  eth_conf(s) = eth_conf(t)
      <4>1. CASE s \in DOMAIN MdPins
        BY <3>2, <4>1 DEF eth_conf
      <4>2. CASE s \notin DOMAIN MdPins
        <5>1. (s \in received) = (t \in received)
          BY <3>2
        <5>2. /\ eth_conf(s) = [io_periph_pin(MUX_CONF_PHY, TRUE) EXCEPT !.tri = s \in received]
              /\ eth_conf(t) = [io_periph_pin(MUX_CONF_PHY, TRUE) EXCEPT !.tri = t \in received]
          BY <3>2, <4>2 DEF eth_conf
        <5> QED  BY <5>1, <5>2
      <4> QED  BY <4>1, <4>2
    <3> QED  BY <2>3, <3>1, <3>2
  <2>6. \A s \in DOMAIN pins : confs[s].tri => s \in received \cup {"io"}
    <3>1. \A s : eth_conf(s).tri => s \in received
      BY DEF eth_conf, io_periph_pin
    <3> QED  BY <2>3, <3>1
  <2>7. \A s \in DOMAIN pins :
          Unchecked(d, s) \/ Carries(pins[s], confs[s].mux, <<d.id[1], d.id[2]>>, s)
    BY <2>2, <2>3, <2>4 DEF Unchecked
  <2>8. \A s \in DOMAIN pins : confs[s] \in PinConf
    BY <2>3
  <2> QED  BY <2>2, <2>5, <2>6, <2>7, <2>8, PinsTaken
<1>10. CASE Pwm_new_with_cpu_clk_and_mio_waveout
  <2>1. PICK channel \in TtcChannels, p \in WaveOutPins :
          /\ Consume("Ttc", {channel}, [wave_out |-> p])
          /\ configure([wave_out |-> p],
                       [s \in {"wave_out"} |-> io_periph_pin_as_is(p, TTC_MUX_CONF)])
          /\ Ok(channel, [wave_out |-> p])
    BY <1>10 DEF Pwm_new_with_cpu_clk_and_mio_waveout
  <2> DEFINE pins == [wave_out |-> p]
             confs == [s \in {"wave_out"} |-> io_periph_pin_as_is(p, TTC_MUX_CONF)]
             d == [id |-> channel, pins |-> pins, ready |-> TRUE]
  <2>2. /\ drivers' = drivers \cup {d} /\ d = [id |-> d.id, pins |-> pins, ready |-> d.ready]
        /\ d.id = channel /\ d.pins = pins /\ configure(pins, confs)
        /\ Consume("Ttc", {channel}, pins)
    BY <2>1 DEF Ok, Driver
  <2>3. DOMAIN pins = {"wave_out"} /\ pins["wave_out"] = p
    OBVIOUS
  <2>4. channel[1] = "Ttc" /\ channel[2] \in 0 .. 1
    BY DEF TtcChannels
  <2>5. p \in Pin
    BY DEF Pin, WaveOutPins
  <2>6. /\ confs["wave_out"] \in PinConf /\ confs["wave_out"].mux = TTC_MUX_CONF
        /\ confs["wave_out"].tri = FALSE
    BY <2>5 DEF io_periph_pin_as_is
  <2> HIDE DEF pins, confs, d
  <2>7. \/ Unchecked(d, "wave_out")
        \/ Carries(p, TTC_MUX_CONF, <<channel[1], channel[2]>>, "wave_out")
    <3>1. CASE channel[2] = 0 <=> p \in {18, 30, 42}
      BY <2>4, <3>1, WaveOutRouted
    <3>2. CASE ~ (channel[2] = 0 <=> p \in {18, 30, 42})
      BY <2>2, <2>3, <2>4, <3>2 DEF Unchecked
    <3> QED  BY <3>1, <3>2
  <2> QED  BY <2>2, <2>3, <2>6, <2>7, PinsTaken
<1>11. CASE Uart_new_with_emio
  <2>1. PICK id \in Twins("Uart") : Consume("Uart", {id}, no_pins) /\ Ok(id, no_pins) /\ UNCHANGED mio
    BY <1>11 DEF Uart_new_with_emio
  <2> QED  BY <2>1, NoPinsTaken DEF Ok, Driver
<1>12. CASE I2c_new_with_emio
  <2>1. PICK id \in Twins("I2c") : Consume("I2c", {id}, no_pins) /\ Ok(id, no_pins) /\ UNCHANGED mio
    BY <1>12 DEF I2c_new_with_emio
  <2> QED  BY <2>1, NoPinsTaken DEF Ok, Driver
<1>13. CASE Ethernet_new
  <2>1. PICK id \in Twins("Gem") : Consume("Gem", {id}, no_pins) /\ Ok(id, no_pins) /\ UNCHANGED mio
    BY <1>13 DEF Ethernet_new
  <2> QED  BY <2>1, NoPinsTaken DEF Ok, Driver
<1>14. CASE UNCHANGED setupVars
  BY <1>14 DEF setupVars, PinsInv, PinsServeDrivers, Unchecked, Carries
<1> QED
  BY <1>1, <1>2, <1>3, <1>4, <1>5, <1>6, <1>7, <1>8, <1>9, <1>10, <1>11, <1>12, <1>13,
     <1>14 DEF SetupNext

(* A pin that a constructor was given stays with its driver, connected to  *)
(* the signal it was given for, for programs with any drivers, in any      *)
(* order, where the constructor compares the pins with the peripheral.     *)
THEOREM PinsServe == SetupSpec => []PinsServeDrivers
<1>1. PinsInv => PinsServeDrivers
  BY DEF PinsInv
<1> QED
  BY <1>1, PinsInit, PinsStep, PTL DEF SetupSpec

-----------------------------------------------------------------------------
(* Sections of the memory map.                                             *)

(* What the table says of each megabyte, without a sequence.               *)
AttrsOf(n) ==
  IF n < 1024 THEN "DDR"
  ELSE IF n < 3072 THEN "FPGA_SLAVES"
  ELSE IF n < 3584 THEN "UNASSIGNED_RESERVED"
  ELSE IF n < 3587 THEN "SHAREABLE_DEVICE"
  ELSE IF n < 3600 THEN "UNASSIGNED_RESERVED"
  ELSE IF n < 3648 THEN "SHAREABLE_DEVICE"
  ELSE IF n < 3680 THEN "SRAM"
  ELSE IF n < 3968 THEN "UNASSIGNED_RESERVED"
  ELSE IF n < 3984 THEN "SHAREABLE_DEVICE"
  ELSE IF n < 4032 THEN "UNASSIGNED_RESERVED"
  ELSE IF n < 4064 THEN "QSPI_XIP"
  ELSE IF n < 4095 THEN "UNASSIGNED_RESERVED"
  ELSE "OCM_MAPPED_HIGH"

Row == [addr : Nat, attrs : Mmu!Attrs]
RowOf(n) == [addr |-> Mmu!Mb(n), attrs |-> AttrsOf(n)]

(* The first n sections are mapped.                                        *)
Mapped(rows, n) == rows \in Seq(Row) /\ Len(rows) = n /\ \A i \in 1 .. n : rows[i] = RowOf(i - 1)

(* The section at which each region begins.                                *)
First == <<0, 1, 1024, 2048, 3072, 3584, 3587, 3600, 3616, 3648, 3680, 3968, 3984, 4032, 4064,
           4095, 4096>>

LEMMA RowOfType == \A n \in Nat : RowOf(n) \in Row
<1> SUFFICES ASSUME NEW n \in Nat  PROVE RowOf(n) \in Row
  OBVIOUS
<1>1. AttrsOf(n) \in Mmu!Attrs
  BY DEF AttrsOf, Mmu!Attrs
<1>2. Mmu!Mb(n) \in Nat
  BY DEF Mmu!Mb, Mmu!ONE_MB
<1> HIDE DEF Mmu!Attrs, Mmu!Mb, AttrsOf
<1> QED  BY <1>1, <1>2 DEF RowOf, Row

(* A region of the right attributes extends what is mapped.                *)
LEMMA MapsMore ==
  ASSUME NEW n \in Nat, NEW k \in Nat, NEW a, NEW rows, Mapped(rows, n),
         \A x \in n .. n + k - 1 : AttrsOf(x) = a
  PROVE  Mapped(rows \o Mmu!Rows(n, k, a), n + k)
<1> DEFINE more == Mmu!Rows(n, k, a)
<1>1. rows \in Seq(Row) /\ Len(rows) = n /\ \A i \in 1 .. n : rows[i] = RowOf(i - 1)
  BY DEF Mapped
<1>2. more = [i \in 1 .. k |-> [addr |-> Mmu!Mb(n + i - 1), attrs |-> a]]
  BY DEF Mmu!Rows
<1>3. ASSUME NEW i \in 1 .. k  PROVE more[i] = RowOf(n + i - 1)
  <2>1. n + i - 1 \in n .. n + k - 1
    OBVIOUS
  <2> HIDE DEF more
  <2> QED  BY <1>2, <2>1 DEF RowOf
<1>4. \A i \in 1 .. k : more[i] \in Row
  <2>1. \A i \in 1 .. k : n + i - 1 \in Nat
    OBVIOUS
  <2> HIDE DEF more
  <2> QED  BY <1>3, <2>1, RowOfType
<1>5. more \in Seq(Row) /\ Len(more) = k
  <2>1. more \in [1 .. k -> Row]
    <3> HIDE DEF Row
    <3> QED  BY <1>2, <1>4
  <2> HIDE DEF more
  <2>2. more \in Seq(Row)
    BY <2>1, SeqDef
  <2>3. Len(more) = k
    BY <2>1, <2>2
  <2> QED  BY <2>2, <2>3
<1> HIDE DEF more, Row
<1>6. rows \o more \in Seq(Row) /\ Len(rows \o more) = n + k
  <2>1. rows \in Seq(Row) /\ Len(rows) = n
    BY <1>1
  <2>2. rows \o more \in Seq(Row) /\ Len(rows \o more) = Len(rows) + Len(more)
    BY <1>5, <2>1, ConcatProperties
  <2> QED  BY <1>5, <2>1, <2>2
<1>7. ASSUME NEW i \in 1 .. n + k  PROVE (rows \o more)[i] = RowOf(i - 1)
  <2>1. CASE i <= n
    <3>1. (rows \o more)[i] = rows[i]
      BY <1>1, <1>5, <2>1
    <3> QED  BY <1>1, <2>1, <3>1
  <2>2. CASE i > n
    <3>1. (rows \o more)[i] = more[i - n]
      BY <1>1, <1>5, <2>2
    <3>2. i - n \in 1 .. k /\ n + (i - n) - 1 = i - 1
      BY <2>2
    <3> HIDE DEF RowOf
    <3>3. more[i - n] = RowOf(n + (i - n) - 1)
      BY <1>3, <3>2
    <3>4. more[i - n] = RowOf(i - 1)
      BY Zenon, <3>2, <3>3
    <3> QED  BY Zenon, <3>1, <3>4
  <2>3. i <= n \/ i > n
    OBVIOUS
  <2> QED  BY Zenon, <2>1, <2>2, <2>3
<1> QED  BY <1>6, <1>7 DEF Mapped, more

(* Only one table maps n sections.                                         *)
LEMMA OneTable ==
  ASSUME NEW n \in Nat, NEW s, NEW t, Mapped(s, n), Mapped(t, n)
  PROVE  s = t
<1>1. s \in Seq(Row) /\ t \in Seq(Row) /\ Len(s) = n /\ Len(t) = n /\ \A i \in 1 .. n : s[i] = t[i]
  BY DEF Mapped
<1> HIDE DEF Row
<1> QED  BY <1>1

(* The regions of the generator, one after the other.                      *)
LEMMA RegionsFit ==
  ASSUME NEW k \in 1 .. 16
  PROVE  /\ First[k] \in Nat /\ Mmu!Regions[k][1] \in Nat
         /\ First[k] + Mmu!Regions[k][1] = First[k + 1]
         /\ \A n \in First[k] .. First[k] + Mmu!Regions[k][1] - 1 : AttrsOf(n) = Mmu!Regions[k][2]
<1> USE DEF First, Mmu!Regions, Mmu!segment, AttrsOf, Mmu!Mb, Mmu!ONE_MB, Mmu!MAX_DDR_SIZE,
      Mmu!OFFSET_FPGA_SLAVE_0, Mmu!OFFSET_FPGA_SLAVE_1_START, Mmu!OFFSET_FPGA_SLAVE_1_END,
      Mmu!OFFSET_IO_PERIPHERALS_START, Mmu!OFFSET_IO_PERIPHERALS_END, Mmu!OFFSET_NAND_MEMORY,
      Mmu!OFFSET_NOR_MEMORY, Mmu!OFFSET_SRAM_MEMORY, Mmu!OFFSET_SMC_MEMORIES_END,
      Mmu!OFFSET_AMBA_APB_START, Mmu!OFFSET_AMBA_APB_END, Mmu!OFFSET_QSPI_XIP_START,
      Mmu!OFFSET_QSPI_XIP_END, Mmu!OFFSET_OCM_MAPPED_HIGH_START, Mmu!OFFSET_OCM_MAPPED_HIGH_END
<1>1. CASE k = 1
  BY <1>1
<1>2. CASE k = 2
  BY <1>2
<1>3. CASE k = 3
  BY <1>3
<1>4. CASE k = 4
  BY <1>4
<1>5. CASE k = 5
  BY <1>5
<1>6. CASE k = 6
  BY <1>6
<1>7. CASE k = 7
  BY <1>7
<1>8. CASE k = 8
  BY <1>8
<1>9. CASE k = 9
  BY <1>9
<1>10. CASE k = 10
  BY <1>10
<1>11. CASE k = 11
  BY <1>11
<1>12. CASE k = 12
  BY <1>12
<1>13. CASE k = 13
  BY <1>13
<1>14. CASE k = 14
  BY <1>14
<1>15. CASE k = 15
  BY <1>15
<1>16. CASE k = 16
  BY <1>16
<1>17. k \in {1, 2, 3, 4, 5, 6, 7, 8, 9, 10, 11, 12, 13, 14, 15, 16}
  OBVIOUS
<1> HIDE DEF First, Mmu!Regions, AttrsOf
<1> QED
  BY <1>1, <1>2, <1>3, <1>4, <1>5, <1>6, <1>7, <1>8, <1>9, <1>10, <1>11, <1>12, <1>13, <1>14,
     <1>15, <1>16, <1>17

(* The table that is checked in maps them all.                             *)
LEMMA MapsNext ==
  \A n, k, m \in Nat : \A a, rows :
    Mapped(rows, n) /\ m = n + k /\ (\A x \in Nat : n <= x /\ x < m => AttrsOf(x) = a)
      => Mapped(rows \o Mmu!Rows(n, k, a), m)
<1> SUFFICES ASSUME NEW n \in Nat, NEW k \in Nat, NEW m \in Nat, NEW a, NEW rows,
                    Mapped(rows, n), m = n + k,
                    \A x \in Nat : n <= x /\ x < m => AttrsOf(x) = a
             PROVE  Mapped(rows \o Mmu!Rows(n, k, a), m)
  OBVIOUS
<1>1. \A x \in n .. n + k - 1 : AttrsOf(x) = a
  OBVIOUS
<1> QED  BY <1>1, MapsMore

LEMMA TableMaps == Mapped(Mmu!MMU_L1_PAGE_TABLE, 4096)
<1>0. Mapped(<<>>, 0)
  BY DEF Mapped
<1>1. Mapped(Mmu!first_rows, 1)
  <2>1. Mapped(<<>> \o Mmu!Rows(0, 1, "DDR"), 0 + 1)
    <3>1. \A x \in 0 .. 0 + 1 - 1 : AttrsOf(x) = "DDR"
      BY DEF AttrsOf
    <3> QED  BY <1>0, <3>1, MapsMore
  <2>2. Mmu!Rows(0, 1, "DDR") \in Seq([addr : Int, attrs : {"DDR"}])
    BY DEF Mmu!Rows, Mmu!Mb, Mmu!ONE_MB
  <2>3. <<>> \o Mmu!Rows(0, 1, "DDR") = Mmu!Rows(0, 1, "DDR")
    BY <2>2
  <2> QED  BY <2>1, <2>3 DEF Mmu!first_rows
<1> DEFINE t2 == Mmu!first_rows \o Mmu!ddr_rows
          t3 == t2 \o Mmu!fpga_slave_0_rows
          t4 == t3 \o Mmu!fpga_slave_1_rows
          t5 == t4 \o Mmu!unassigned_0_rows
          t6 == t5 \o Mmu!io_peripheral_rows
          t7 == t6 \o Mmu!unassigned_1_rows
          t8 == t7 \o Mmu!nand_rows
          t9 == t8 \o Mmu!nor_rows
          t10 == t9 \o Mmu!sram_rows
          t11 == t10 \o Mmu!unassigned_2_rows
          t12 == t11 \o Mmu!amba_apb_rows
          t13 == t12 \o Mmu!unassigned_3_rows
          t14 == t13 \o Mmu!qspi_xip_rows
          t15 == t14 \o Mmu!unassigned_4_rows
          t16 == t15 \o Mmu!ocm_rows
<1>2. Mapped(t2, 1024)
  <2>1. \A x \in Nat : 1 <= x /\ x < 1024 => AttrsOf(x) = "DDR"
    BY DEF AttrsOf
  <2> HIDE DEF Mmu!first_rows
  <2>2. Mapped(Mmu!first_rows \o Mmu!Rows(1, 1023, "DDR"), 1024)
    BY <1>1, <2>1, MapsNext
  <2> QED  BY <2>2 DEF Mmu!ddr_rows
<1>3. Mapped(t3, 2048)
  <2>1. \A x \in Nat : 1024 <= x /\ x < 2048 => AttrsOf(x) = "FPGA_SLAVES"
    BY DEF AttrsOf
  <2> HIDE DEF t2
  <2>2. Mapped(t2 \o Mmu!Rows(1024, 1024, "FPGA_SLAVES"), 2048)
    BY <1>2, <2>1, MapsNext
  <2> QED  BY <2>2 DEF Mmu!fpga_slave_0_rows
<1>4. Mapped(t4, 3072)
  <2>1. \A x \in Nat : 2048 <= x /\ x < 3072 => AttrsOf(x) = "FPGA_SLAVES"
    BY DEF AttrsOf
  <2> HIDE DEF t3
  <2>2. Mapped(t3 \o Mmu!Rows(2048, 1024, "FPGA_SLAVES"), 3072)
    BY <1>3, <2>1, MapsNext
  <2> QED  BY <2>2 DEF Mmu!fpga_slave_1_rows
<1>5. Mapped(t5, 3584)
  <2>1. \A x \in Nat : 3072 <= x /\ x < 3584 => AttrsOf(x) = "UNASSIGNED_RESERVED"
    BY DEF AttrsOf
  <2> HIDE DEF t4
  <2>2. Mapped(t4 \o Mmu!Rows(3072, 512, "UNASSIGNED_RESERVED"), 3584)
    BY <1>4, <2>1, MapsNext
  <2> QED  BY <2>2 DEF Mmu!unassigned_0_rows
<1>6. Mapped(t6, 3587)
  <2>1. \A x \in Nat : 3584 <= x /\ x < 3587 => AttrsOf(x) = "SHAREABLE_DEVICE"
    BY DEF AttrsOf
  <2> HIDE DEF t5
  <2>2. Mapped(t5 \o Mmu!Rows(3584, 3, "SHAREABLE_DEVICE"), 3587)
    BY <1>5, <2>1, MapsNext
  <2> QED  BY <2>2 DEF Mmu!io_peripheral_rows
<1>7. Mapped(t7, 3600)
  <2>1. \A x \in Nat : 3587 <= x /\ x < 3600 => AttrsOf(x) = "UNASSIGNED_RESERVED"
    BY DEF AttrsOf
  <2> HIDE DEF t6
  <2>2. Mapped(t6 \o Mmu!Rows(3587, 13, "UNASSIGNED_RESERVED"), 3600)
    BY <1>6, <2>1, MapsNext
  <2> QED  BY <2>2 DEF Mmu!unassigned_1_rows
<1>8. Mapped(t8, 3616)
  <2>1. \A x \in Nat : 3600 <= x /\ x < 3616 => AttrsOf(x) = "SHAREABLE_DEVICE"
    BY DEF AttrsOf
  <2> HIDE DEF t7
  <2>2. Mapped(t7 \o Mmu!Rows(3600, 16, "SHAREABLE_DEVICE"), 3616)
    BY <1>7, <2>1, MapsNext
  <2> QED  BY <2>2 DEF Mmu!nand_rows
<1>9. Mapped(t9, 3648)
  <2>1. \A x \in Nat : 3616 <= x /\ x < 3648 => AttrsOf(x) = "SHAREABLE_DEVICE"
    BY DEF AttrsOf
  <2> HIDE DEF t8
  <2>2. Mapped(t8 \o Mmu!Rows(3616, 32, "SHAREABLE_DEVICE"), 3648)
    BY <1>8, <2>1, MapsNext
  <2> QED  BY <2>2 DEF Mmu!nor_rows
<1>10. Mapped(t10, 3680)
  <2>1. \A x \in Nat : 3648 <= x /\ x < 3680 => AttrsOf(x) = "SRAM"
    BY DEF AttrsOf
  <2> HIDE DEF t9
  <2>2. Mapped(t9 \o Mmu!Rows(3648, 32, "SRAM"), 3680)
    BY <1>9, <2>1, MapsNext
  <2> QED  BY <2>2 DEF Mmu!sram_rows
<1>11. Mapped(t11, 3968)
  <2>1. \A x \in Nat : 3680 <= x /\ x < 3968 => AttrsOf(x) = "UNASSIGNED_RESERVED"
    BY DEF AttrsOf
  <2> HIDE DEF t10
  <2>2. Mapped(t10 \o Mmu!Rows(3680, 288, "UNASSIGNED_RESERVED"), 3968)
    BY <1>10, <2>1, MapsNext
  <2> QED  BY <2>2 DEF Mmu!unassigned_2_rows
<1>12. Mapped(t12, 3984)
  <2>1. \A x \in Nat : 3968 <= x /\ x < 3984 => AttrsOf(x) = "SHAREABLE_DEVICE"
    BY DEF AttrsOf
  <2> HIDE DEF t11
  <2>2. Mapped(t11 \o Mmu!Rows(3968, 16, "SHAREABLE_DEVICE"), 3984)
    BY <1>11, <2>1, MapsNext
  <2> QED  BY <2>2 DEF Mmu!amba_apb_rows
<1>13. Mapped(t13, 4032)
  <2>1. \A x \in Nat : 3984 <= x /\ x < 4032 => AttrsOf(x) = "UNASSIGNED_RESERVED"
    BY DEF AttrsOf
  <2> HIDE DEF t12
  <2>2. Mapped(t12 \o Mmu!Rows(3984, 48, "UNASSIGNED_RESERVED"), 4032)
    BY <1>12, <2>1, MapsNext
  <2> QED  BY <2>2 DEF Mmu!unassigned_3_rows
<1>14. Mapped(t14, 4064)
  <2>1. \A x \in Nat : 4032 <= x /\ x < 4064 => AttrsOf(x) = "QSPI_XIP"
    BY DEF AttrsOf
  <2> HIDE DEF t13
  <2>2. Mapped(t13 \o Mmu!Rows(4032, 32, "QSPI_XIP"), 4064)
    BY <1>13, <2>1, MapsNext
  <2> QED  BY <2>2 DEF Mmu!qspi_xip_rows
<1>15. Mapped(t15, 4095)
  <2>1. \A x \in Nat : 4064 <= x /\ x < 4095 => AttrsOf(x) = "UNASSIGNED_RESERVED"
    BY DEF AttrsOf
  <2> HIDE DEF t14
  <2>2. Mapped(t14 \o Mmu!Rows(4064, 31, "UNASSIGNED_RESERVED"), 4095)
    BY <1>14, <2>1, MapsNext
  <2> QED  BY <2>2 DEF Mmu!unassigned_4_rows
<1>16. Mapped(t16, 4096)
  <2>1. \A x \in Nat : 4095 <= x /\ x < 4096 => AttrsOf(x) = "OCM_MAPPED_HIGH"
    BY DEF AttrsOf
  <2> HIDE DEF t15
  <2>2. Mapped(t15 \o Mmu!Rows(4095, 1, "OCM_MAPPED_HIGH"), 4096)
    BY <1>15, <2>1, MapsNext
  <2> QED  BY <2>2 DEF Mmu!ocm_rows
<1> QED  BY <1>16 DEF Mmu!MMU_L1_PAGE_TABLE

Entries == Mmu!NUM_L1_PAGE_TABLE_ENTRIES

(* The table in use: each row has its address, and the attributes last     *)
(* asked for, or those of the table that was checked in.                   *)
TableOf(tab) ==
  /\ tab \in [1 .. Entries -> Row] /\ tab \in Seq(Row) /\ set_to \in [Accessed -> Mmu!Attrs]
  /\ \A i \in 1 .. Entries :
       /\ tab[i].addr = Mmu!Mb(i - 1)
       /\ i - 1 \notin Accessed => tab[i].attrs = AttrsOf(i - 1)
  /\ \A s \in Accessed : tab[s + 1].attrs = set_to[s]

(* What the TLB and the L1 cache keep is of the present table, but for the *)
(* time between a change and the maintenance that follows it.              *)
Remembered ==
  /\ tlb \in [Accessed -> Mmu!Attrs \cup {"none"}] /\ dirty_in \subseteq Accessed
  /\ mmu_step = "generate" => dirty_in = {} /\ \A s \in Accessed : tlb[s] = "none"
  /\ mmu_step = "running" => \A s \in Accessed : tlb[s] \in {"none", set_to[s]}
  /\ mmu_step = "running" => \A s \in dirty_in : Mmu!memory_attrs(set_to[s]) = "write_back"
  /\ mmu_step = "forget" => dirty_in = {}

MmuInv ==
  /\ mmu_step \in {"generate", "running", "clean", "forget"}
  /\ region \in 1 .. 17 /\ Mapped(generated, First[region])
  /\ mmu_step # "generate" => generated = Mmu!MMU_L1_PAGE_TABLE /\ TableOf(table)
  /\ Remembered

LEMMA DocumentedRows ==
  \A n \in Nat : n < 4095 => Mmu!kind_of(AttrsOf(n)) = Mmu!documented(n)
<1> SUFFICES ASSUME NEW n \in Nat, n < 4095
             PROVE  Mmu!kind_of(AttrsOf(n)) = Mmu!documented(n)
  OBVIOUS
<1> USE DEF Mmu!ocm_entry, Mmu!NUM_L1_PAGE_TABLE_ENTRIES
<1>1. CASE n <= 1023
  <2>1. AttrsOf(n) = "DDR"
    BY <1>1 DEF AttrsOf
  <2>2. Mmu!documented(n) = "write_back"
    BY <1>1 DEF Mmu!documented, Mmu!within
  <2>3. Mmu!kind_of("DDR") = "write_back"
    BY DEF Mmu!kind_of, Mmu!access, Mmu!memory_attrs
  <2> QED  BY <2>1, <2>2, <2>3
<1>2. CASE 3648 <= n /\ n <= 3679
  <2>1. AttrsOf(n) = "SRAM"
    BY <1>2 DEF AttrsOf
  <2>2. Mmu!documented(n) = "write_back"
    BY <1>2 DEF Mmu!documented, Mmu!within
  <2>3. Mmu!kind_of("SRAM") = "write_back"
    BY DEF Mmu!kind_of, Mmu!access, Mmu!memory_attrs
  <2> QED  BY <2>1, <2>2, <2>3
<1>3. CASE 1024 <= n /\ n <= 3071
  <2>1. AttrsOf(n) = "FPGA_SLAVES"
    BY <1>3 DEF AttrsOf
  <2>2. Mmu!documented(n) = "strongly_ordered"
    BY <1>3 DEF Mmu!documented, Mmu!within
  <2>3. Mmu!kind_of("FPGA_SLAVES") = "strongly_ordered"
    BY DEF Mmu!kind_of, Mmu!access, Mmu!memory_attrs
  <2> QED  BY <2>1, <2>2, <2>3
<1>4. CASE (3584 <= n /\ n <= 3586) \/ (3600 <= n /\ n <= 3647) \/ (3968 <= n /\ n <= 3983)
  <2>1. AttrsOf(n) = "SHAREABLE_DEVICE"
    BY <1>4 DEF AttrsOf
  <2>2. Mmu!documented(n) = "device"
    BY <1>4 DEF Mmu!documented, Mmu!within
  <2>3. Mmu!kind_of("SHAREABLE_DEVICE") = "device"
    BY DEF Mmu!kind_of, Mmu!access, Mmu!memory_attrs
  <2> QED  BY <2>1, <2>2, <2>3
<1>5. CASE 4032 <= n /\ n <= 4063
  <2>1. AttrsOf(n) = "QSPI_XIP"
    BY <1>5 DEF AttrsOf
  <2>2. Mmu!documented(n) = "write_through"
    BY <1>5 DEF Mmu!documented, Mmu!within
  <2>3. Mmu!kind_of("QSPI_XIP") = "write_through"
    BY DEF Mmu!kind_of, Mmu!access, Mmu!memory_attrs
  <2> QED  BY <2>1, <2>2, <2>3
<1>6. CASE \/ (3072 <= n /\ n <= 3583) \/ (3587 <= n /\ n <= 3599) \/ (3680 <= n /\ n <= 3967)
           \/ (3984 <= n /\ n <= 4031) \/ (4064 <= n /\ n <= 4094)
  <2>1. AttrsOf(n) = "UNASSIGNED_RESERVED"
    BY <1>6 DEF AttrsOf
  <2>2. Mmu!documented(n) = "unassigned"
    BY <1>6 DEF Mmu!documented, Mmu!within
  <2>3. Mmu!kind_of("UNASSIGNED_RESERVED") = "unassigned"
    BY DEF Mmu!kind_of, Mmu!access, Mmu!memory_attrs
  <2> QED  BY <2>1, <2>2, <2>3
<1> QED  BY <1>1, <1>2, <1>3, <1>4, <1>5, <1>6

(* The number of entries; the provers would enumerate 1 .. 4096.           *)
LEMMA SomeEntries ==
  /\ Entries \in Nat /\ Accessed \subseteq 0 .. Entries - 1
  /\ \A s \in Accessed : s \in Nat /\ s + 1 \in 1 .. Entries
<1>1. Entries \in Nat
  BY DEF Entries, Mmu!NUM_L1_PAGE_TABLE_ENTRIES
<1>2. Accessed \subseteq 0 .. Entries - 1
  BY DEF MCSystemAssumption, Mmu!MemoryMapAssumption, Entries
<1> QED  BY <1>1, <1>2

LEMMA TableOfEntries == Mapped(Mmu!MMU_L1_PAGE_TABLE, Entries)
BY TableMaps DEF Entries, Mmu!NUM_L1_PAGE_TABLE_ENTRIES

LEMMA MmuInitHolds == Mmu!MmuInit => MmuInv
<1> SUFFICES ASSUME Mmu!MmuInit  PROVE MmuInv
  OBVIOUS
<1>1. Mapped(generated, First[region]) /\ region \in 1 .. 17
  BY DEF Mapped, First, Mmu!MmuInit
<1>2. Remembered
  BY DEF Remembered, Mmu!MmuInit
<1>3. mmu_step = "generate"
  BY DEF Mmu!MmuInit
<1> QED  BY <1>1, <1>2, <1>3 DEF MmuInv

(* A region of the generator maps the sections after those mapped so far.  *)
LEMMA RegionWritten ==
  ASSUME MmuInv, Mmu!write_region
  PROVE  MmuInv'
<1>1. /\ mmu_step = "generate" /\ region <= Len(Mmu!Regions) /\ region' = region + 1
      /\ generated' = generated \o
           Mmu!Rows(Len(generated), Mmu!Regions[region][1], Mmu!Regions[region][2])
      /\ UNCHANGED <<table, tlb, mmu_step, dirty_in, set_to>>
  BY DEF Mmu!write_region
<1>2. Len(Mmu!Regions) = 16
  BY DEF Mmu!Regions
<1>3. region \in 1 .. 16 /\ region' \in 1 .. 17
  BY <1>1, <1>2 DEF MmuInv
<1> DEFINE n == First[region]
          k == Mmu!Regions[region][1]
          a == Mmu!Regions[region][2]
<1>4. Mapped(generated, n) /\ Len(generated) = n
  BY DEF MmuInv, Mapped
<1>5. n \in Nat /\ k \in Nat /\ n + k = First[region + 1] /\ \A x \in n .. n + k - 1 : AttrsOf(x) = a
  BY <1>3, RegionsFit
<1>6. generated' = generated \o Mmu!Rows(n, k, a)
  BY <1>1, <1>4
<1> HIDE DEF n, k, a
<1>7. Mapped(generated', n + k)
  BY <1>4, <1>5, <1>6, MapsMore
<1>8. Mapped(generated', First[region'])
  BY <1>1, <1>5, <1>7
<1>9. Remembered'
  BY <1>1 DEF MmuInv, Remembered
<1>10. (mmu_step = "generate")'
  BY <1>1
<1>11. Mapped(generated, First[region])'
  BY <1>8 DEF Mapped
<1> QED  BY <1>3, <1>9, <1>10, <1>11 DEF MmuInv

(* The table that is loaded is the one the generator writes.               *)
LEMMA TableLoaded ==
  ASSUME MmuInv, Mmu!load_mmu_table
  PROVE  MmuInv'
<1> DEFINE m == Mmu!MMU_L1_PAGE_TABLE
<1>1. /\ mmu_step = "generate" /\ region > Len(Mmu!Regions) /\ mmu_step' = "running" /\ table' = m
      /\ set_to' = [s \in Accessed |-> m[s + 1].attrs]
      /\ UNCHANGED <<generated, region, tlb, dirty_in>>
  BY DEF Mmu!load_mmu_table
<1>2. Len(Mmu!Regions) = 16
  BY DEF Mmu!Regions
<1>3. region = 17
  BY <1>1, <1>2 DEF MmuInv
<1>4. First[17] = Entries
  BY DEF First, Entries, Mmu!NUM_L1_PAGE_TABLE_ENTRIES
<1>5. generated = m
  BY <1>3, <1>4, OneTable, SomeEntries, TableOfEntries DEF MmuInv
<1> HIDE DEF m
<1>6. m \in Seq(Row) /\ Len(m) = Entries /\ \A i \in 1 .. Entries : m[i] = RowOf(i - 1)
  BY TableOfEntries DEF Mapped, m
<1>7. m \in [1 .. Entries -> Row]
  <2> HIDE DEF Row
  <2> QED  BY <1>6
<1>8. \A i \in 1 .. Entries : m[i].addr = Mmu!Mb(i - 1) /\ m[i].attrs = AttrsOf(i - 1)
  BY <1>6 DEF RowOf
<1>9. \A s \in Accessed : s + 1 \in 1 .. Entries /\ m[s + 1].attrs \in Mmu!Attrs
  <2>1. \A s \in Accessed : s + 1 \in 1 .. Entries
    BY SomeEntries
  <2>2. \A i \in 1 .. Entries : m[i] \in Row
    BY <1>7
  <2> HIDE DEF Mmu!Attrs
  <2>3. \A i \in 1 .. Entries : m[i].attrs \in Mmu!Attrs
    BY <2>2 DEF Row
  <2> QED  BY <2>1, <2>3
<1>10. TableOf(table)'
  <2>1. set_to' \in [Accessed -> Mmu!Attrs] /\ \A s \in Accessed : m[s + 1].attrs = set_to'[s]
    <3> HIDE DEF Mmu!Attrs
    <3> QED  BY <1>1, <1>9
  <2> HIDE DEF Row, Mmu!Attrs
  <2> QED  BY <1>1, <1>6, <1>7, <1>8, <2>1 DEF TableOf
<1>11. Remembered'
  <2> HIDE DEF Mmu!Attrs, Mmu!memory_attrs
  <2> QED  BY <1>1 DEF MmuInv, Remembered
<1>12. Mapped(generated, First[region])'
  BY <1>1 DEF MmuInv, Mapped
<1> QED  BY <1>1, <1>5, <1>10, <1>11, <1>12 DEF MmuInv, m

(* The program.                                                            *)
LEMMA SectionAccessed ==
  ASSUME MmuInv, Mmu!access_section
  PROVE  MmuInv'
<1>1. PICK s \in Accessed :
        /\ tlb' = [tlb EXCEPT ![s] = Mmu!attributes(s)]
        /\ dirty_in' = dirty_in \cup (IF Mmu!memory_attrs(Mmu!attributes(s)) = "write_back"
                                      THEN {s} ELSE {})
  BY DEF Mmu!access_section
<1>2. mmu_step = "running" /\ UNCHANGED <<generated, region, table, mmu_step, set_to>>
  BY DEF Mmu!access_section
<1>3. TableOf(table) /\ Remembered
  BY <1>2 DEF MmuInv
<1> HIDE DEF Mmu!Attrs, Mmu!memory_attrs
<1>4. Mmu!attributes(s) = set_to[s] /\ set_to[s] \in Mmu!Attrs
  BY <1>2, <1>3 DEF TableOf, Remembered, Mmu!attributes
<1>5. Remembered'
  BY <1>1, <1>2, <1>3, <1>4 DEF Remembered
<1>6. (generated = Mmu!MMU_L1_PAGE_TABLE /\ TableOf(table))'
  BY <1>2 DEF MmuInv, TableOf
<1>7. Mapped(generated, First[region])'
  BY <1>2 DEF MmuInv, Mapped
<1> QED  BY <1>2, <1>5, <1>6, <1>7 DEF MmuInv

LEMMA SectionUpdated ==
  ASSUME MmuInv, Mmu!update
  PROVE  MmuInv'
<1>1. PICK addr \in {Mmu!Mb(s) : s \in Accessed} \cup {Mmu!Mb(s) + 1 : s \in Accessed},
           a \in Mmu!Attrs :
        /\ addr % Mmu!ONE_MB = 0
        /\ table' = [table EXCEPT ![addr \div Mmu!ONE_MB + 1].attrs = a]
        /\ set_to' = [set_to EXCEPT ![addr \div Mmu!ONE_MB] = a]
  BY DEF Mmu!update
<1>2. mmu_step = "running" /\ mmu_step' = "clean" /\ UNCHANGED <<generated, region, tlb, dirty_in>>
  BY DEF Mmu!update
<1>3. PICK s \in Accessed : addr = Mmu!Mb(s)
  <2>1. \A s \in Accessed : s \in Nat
    BY SomeEntries
  <2>2. \A s \in Accessed : (Mmu!Mb(s) + 1) % Mmu!ONE_MB = 1
    BY <2>1 DEF Mmu!Mb, Mmu!ONE_MB
  <2> QED  BY <1>1, <2>2
<1>4. s \in Nat /\ s + 1 \in 1 .. Entries /\ Accessed \subseteq Nat /\ Entries \in Nat
  BY SomeEntries
<1>5. addr \div Mmu!ONE_MB = s
  BY <1>3, <1>4 DEF Mmu!Mb, Mmu!ONE_MB
<1>6. /\ table' = [table EXCEPT ![s + 1] = [table[s + 1] EXCEPT !.attrs = a]]
      /\ set_to' = [set_to EXCEPT ![s] = a]
  BY <1>1, <1>5
<1>7. TableOf(table) /\ Remembered
  BY <1>2 DEF MmuInv
<1> HIDE DEF Mmu!Attrs, Mmu!memory_attrs, AttrsOf, Mmu!Mb
<1>8. table[s + 1] \in Row /\ s + 1 \in 1 .. Entries
  BY <1>4, <1>7 DEF TableOf
<1> DEFINE new == [table[s + 1] EXCEPT !.attrs = a]
<1>9. new \in Row /\ new.attrs = a /\ new.addr = table[s + 1].addr
  BY <1>1, <1>8 DEF Row
<1> HIDE DEF new, Row
<1>10. table' \in [1 .. Entries -> Row] /\ table' \in Seq(Row)
  <2>1. table' = [table EXCEPT ![s + 1] = new]
    BY <1>6 DEF new
  <2>2. table' \in [1 .. Entries -> Row]
    BY <1>7, <1>8, <1>9, <2>1 DEF TableOf
  <2>3. table' \in Seq(Row)
    BY Zenon, <2>2, SomeEntries, SeqDef
  <2> QED  BY <2>2, <2>3
<1>11. \A i \in 1 .. Entries : table'[i] = IF i = s + 1 THEN new ELSE table[i]
  BY <1>6, <1>7, <1>8 DEF TableOf, new
<1>12. /\ set_to' \in [Accessed -> Mmu!Attrs]
       /\ \A x \in Accessed : set_to'[x] = IF x = s THEN a ELSE set_to[x]
  BY <1>1, <1>6, <1>7 DEF TableOf
<1>13. \A i \in 1 .. Entries :
         /\ table'[i].addr = Mmu!Mb(i - 1)
         /\ i - 1 \notin Accessed => table'[i].attrs = AttrsOf(i - 1)
  <2>1. \A i \in 1 .. Entries : table'[i].addr = table[i].addr
    BY <1>9, <1>11
  <2>2. \A i \in 1 .. Entries : i - 1 \notin Accessed => table'[i] = table[i]
    BY <1>4, <1>11
  <2> QED  BY <1>7, <2>1, <2>2 DEF TableOf
<1>14. \A x \in Accessed : table'[x + 1].attrs = set_to'[x]
  <2>1. \A x \in Accessed : x + 1 \in 1 .. Entries /\ (x + 1 = s + 1 <=> x = s)
    BY <1>4, SomeEntries
  <2>2. \A x \in Accessed : table'[x + 1] = IF x = s THEN new ELSE table[x + 1]
    BY <1>11, <2>1
  <2> QED  BY <1>7, <1>9, <1>12, <2>2 DEF TableOf
<1>15. TableOf(table)'
  BY <1>10, <1>12, <1>13, <1>14 DEF TableOf
<1>16. Remembered'
  BY <1>2, <1>7 DEF Remembered
<1>17. Mapped(generated, First[region])'
  BY <1>2 DEF MmuInv, Mapped
<1>18. (generated = Mmu!MMU_L1_PAGE_TABLE)'
  BY <1>2 DEF MmuInv
<1> QED  BY <1>2, <1>15, <1>16, <1>17, <1>18 DEF MmuInv

LEMMA Maintained ==
  ASSUME MmuInv, Mmu!clean_and_invalidate_l1 \/ Mmu!invalidate_tlb \/ UNCHANGED Mmu!mmuVars
  PROVE  MmuInv'
<1> HIDE DEF Mmu!Attrs, Mmu!memory_attrs
<1>1. UNCHANGED <<generated, region, table, set_to>>
  BY DEF Mmu!clean_and_invalidate_l1, Mmu!invalidate_tlb, Mmu!mmuVars
<1>2. Remembered'
  BY DEF MmuInv, Remembered, Mmu!clean_and_invalidate_l1, Mmu!invalidate_tlb, Mmu!TlbIAll, Mmu!mmuVars
<1>3. Mapped(generated, First[region])'
  BY <1>1 DEF MmuInv, Mapped
<1>4. /\ (mmu_step \in {"generate", "running", "clean", "forget"})'
      /\ mmu_step' # "generate" => mmu_step # "generate"
  BY DEF MmuInv, Mmu!clean_and_invalidate_l1, Mmu!invalidate_tlb, Mmu!mmuVars
<1>5. (mmu_step # "generate" => generated = Mmu!MMU_L1_PAGE_TABLE /\ TableOf(table))'
  BY <1>1, <1>4 DEF MmuInv, TableOf
<1> QED  BY <1>1, <1>2, <1>3, <1>4, <1>5 DEF MmuInv

(* The table of the MMU is the one the generator writes and, but for the   *)
(* megabyte of the OCM, the documented one; and a change of a section is   *)
(* seen by the next access to it, whatever sections a program accesses and *)
(* changes, in whatever order.                                             *)
THEOREM SectionsAreRight == Mmu!MmuSpec => []SectionsRight
<1>1. MmuInv => SectionsRight
  <2> SUFFICES ASSUME MmuInv, mmu_step = "running"  PROVE SectionsRight
    BY DEF SectionsRight, Mmu!SectionsRight
  <2>1. generated = Mmu!MMU_L1_PAGE_TABLE /\ TableOf(table) /\ Remembered
    BY DEF MmuInv
  <2>2. Len(Mmu!MMU_L1_PAGE_TABLE) = Entries
    BY TableOfEntries DEF Mapped
  <2>3. ASSUME NEW i \in 1 .. Entries
        PROVE  /\ table[i].addr = Mmu!Mb(i - 1)
               /\ i - 1 \notin Accessed \cup {Mmu!ocm_entry} =>
                    Mmu!kind_of(table[i].attrs) = Mmu!documented(i - 1)
    <3>1. i - 1 \in Nat /\ (i - 1 # Mmu!ocm_entry => i - 1 < 4095)
      BY SomeEntries DEF Entries, Mmu!NUM_L1_PAGE_TABLE_ENTRIES, Mmu!ocm_entry
    <3>2. i - 1 # Mmu!ocm_entry => Mmu!kind_of(AttrsOf(i - 1)) = Mmu!documented(i - 1)
      BY <3>1, DocumentedRows
    <3>3. /\ table[i].addr = Mmu!Mb(i - 1)
          /\ i - 1 \notin Accessed => table[i].attrs = AttrsOf(i - 1)
      BY <2>1 DEF TableOf
    <3> QED  BY Zenon, <3>2, <3>3
  <2> HIDE DEF Mmu!Attrs, Mmu!memory_attrs
  <2>4. \A s \in Accessed : /\ Mmu!attributes(s) = set_to[s]
                            /\ s \in dirty_in => Mmu!memory_attrs(set_to[s]) = "write_back"
    BY <2>1 DEF TableOf, Remembered, Mmu!attributes
  <2> QED  BY <2>1, <2>2, <2>3, <2>4 DEF SectionsRight, Mmu!SectionsRight, Entries
<1>2. MmuInv /\ [Mmu!MmuNext]_(Mmu!mmuVars) => MmuInv'
  BY RegionWritten, TableLoaded, SectionAccessed, SectionUpdated, Maintained DEF Mmu!MmuNext
<1> QED  BY <1>1, <1>2, MmuInitHolds, PTL DEF Mmu!MmuSpec

-----------------------------------------------------------------------------
(* Events of the interrupt controller.                                     *)

(* An event that no handler has seen is still to be seen: its line is      *)
(* high, its pulse is remembered, or it is the one acknowledged.           *)
Outstanding(i) == i \in high \cup latched \/ (handler = "acknowledged" /\ info = i)

(* The registers say what was asked for.                                   *)
AsConfigured ==
  /\ DOMAIN asked \subseteq PlIds
  /\ \A id \in DOMAIN asked : icfr[Irq!Pl(id)] = asked[id]
  /\ icfr \in [Irq!Shared -> {0, Irq!Level, Irq!Edge}]
  /\ iptr \in [Irq!Shared -> SUBSET {0, 1}]
  /\ \A i \in meant : i \in Irq!Shared /\ 0 \in iptr[i]
  /\ initialized => pmr = 255
  /\ dcr => initialized
  /\ ~ initialized => asked = <<>>

GicInv ==
  /\ initialized \in BOOLEAN /\ dcr \in BOOLEAN
  /\ AsConfigured
  /\ owed \subseteq IrqLines /\ high \subseteq IrqLines /\ latched \subseteq IrqLines
  /\ handler \in {"none", "entered", "acknowledged", "served"}
  /\ handler \in {"none", "entered"} => active = {}
  /\ handler \in {"acknowledged", "served"} => active \subseteq {info}
  /\ \A i \in owed : Outstanding(i)

(* Every set of numbers that is not empty has a least one.                 *)
LEMMA LeastExists ==
  ASSUME NEW S, S \subseteq Nat, S # {}
  PROVE  \E m \in S : \A k \in S : m <= k
<1>1. PICK m \in S : \A k \in S : <<k, m>> \notin OpToRel(<, Nat)
  BY NatLessThanWellFounded, WFMin
<1>2. \A k \in S : ~ (k < m)
  BY <1>1, Zenon DEF OpToRel
<1> QED
  BY <1>2

(* The field of each of the first three interrupts is its own; those of    *)
(* the others are not (run gic_pl).                                        *)
LEMMA OwnField ==
  ASSUME PlIds \subseteq 0 .. 2, NEW id \in PlIds
  PROVE  Irq!PlField(id) = Irq!Pl(id) /\ Irq!Pl(id) \in Irq!Shared /\ Irq!Pl(id) = 61 + id
<1>1. id \in {0, 1, 2}
  OBVIOUS
<1>2. CASE id = 0
  BY <1>2 DEF Irq!PlField, Irq!Pl, Irq!field, Irq!Shared
<1>3. CASE id = 1
  BY <1>3 DEF Irq!PlField, Irq!Pl, Irq!field, Irq!Shared
<1>4. CASE id = 2
  BY <1>4 DEF Irq!PlField, Irq!Pl, Irq!field, Irq!Shared
<1> QED  BY <1>1, <1>2, <1>3, <1>4

LEMMA GicInitHolds == Irq!GicInit => GicInv
<1> SUFFICES ASSUME Irq!GicInit  PROVE GicInv
  OBVIOUS
<1>1. DOMAIN asked = {}
  BY DEF Irq!GicInit
<1>2. AsConfigured
  BY <1>1 DEF Irq!GicInit, AsConfigured
<1> QED  BY <1>2 DEF Irq!GicInit, GicInv

(* Calls of the program.                                                   *)
LEMMA Configuring ==
  ASSUME PlIds \subseteq 0 .. 2, GicInv, Irq!Configure
  PROVE  GicInv'
<1>1. UNCHANGED <<high, latched, active, handler, info, raised, owed>>
  BY Zenon DEF Irq!Configure, Irq!new_with_init, Irq!set_pl_interrupt_sensitivity, Irq!service,
     Irq!set_spi_interrupt_cpu_target_flags, Irq!set_spi_interrupt_target_for_cpu,
     Irq!set_all_spi_interrupt_targets_cpu0, Irq!enable_spi_interrupt, Irq!enable_ppi_interrupt,
     Irq!enable_all_interrupts, Irq!Enable, Irq!enable, Irq!enable_interrupts
<1>2. initialized' \in BOOLEAN /\ dcr' \in BOOLEAN
  BY Zenon DEF GicInv, Irq!Configure, Irq!new_with_init, Irq!set_pl_interrupt_sensitivity,
     Irq!set_spi_interrupt_cpu_target_flags, Irq!set_spi_interrupt_target_for_cpu,
     Irq!set_all_spi_interrupt_targets_cpu0, Irq!enable_spi_interrupt, Irq!enable_ppi_interrupt,
     Irq!enable_all_interrupts, Irq!Enable, Irq!enable, Irq!enable_interrupts
<1> USE DEF GicInv
<1>3. CASE Irq!new_with_init
  <2>1. /\ ~ initialized /\ initialized' /\ icfr' = Irq!FIXED_VALUE /\ pmr' = 255
        /\ UNCHANGED <<asked, meant, iptr, dcr>>
    BY Zenon, <1>3 DEF Irq!new_with_init, Irq!initialize
  <2>2. Irq!FIXED_VALUE \in [Irq!Shared -> {0, Irq!Level, Irq!Edge}]
    BY DEF Irq!FIXED_VALUE
  <2>3. DOMAIN asked = {}
    BY <2>1 DEF AsConfigured
  <2>4. (initialized => pmr = 255)' /\ (dcr => initialized)' /\ (~ initialized => asked = <<>>)'
    BY Zenon, <2>1
  <2>5. DOMAIN asked' = {} /\ icfr' \in [Irq!Shared -> {0, Irq!Level, Irq!Edge}]
    BY <2>1, <2>2, <2>3
  <2>6. /\ iptr' \in [Irq!Shared -> SUBSET {0, 1}]
        /\ \A i \in meant' : i \in Irq!Shared /\ 0 \in iptr'[i]
    BY <2>1 DEF AsConfigured
  <2>7. AsConfigured'
    BY <2>4, <2>5, <2>6 DEF AsConfigured
  <2> QED  BY <1>1, <1>2, <2>7 DEF Outstanding
<1>4. ASSUME NEW id \in PlIds, NEW s \in {Irq!Level, Irq!Edge},
             Irq!set_pl_interrupt_sensitivity(id, s)
      PROVE  AsConfigured'
  <2>1. /\ initialized /\ icfr' = [icfr EXCEPT ![Irq!PlField(id)] = s]
        /\ asked' = [p \in DOMAIN asked \cup {id} |-> IF p = id THEN s ELSE asked[p]]
        /\ UNCHANGED <<initialized, meant, iptr, pmr, dcr>>
    BY Zenon, <1>4 DEF Irq!set_pl_interrupt_sensitivity, Irq!call
  <2>2. icfr' = [icfr EXCEPT ![Irq!Pl(id)] = s] /\ Irq!Pl(id) \in Irq!Shared
    BY <2>1, OwnField
  <2>3. \A p \in DOMAIN asked' : p \in PlIds
    BY <2>1 DEF AsConfigured
  <2>4. \A p \in PlIds : Irq!Pl(p) \in Irq!Shared /\ (Irq!Pl(p) = Irq!Pl(id) <=> p = id)
    BY OwnField
  <2>5. ASSUME NEW p \in DOMAIN asked'  PROVE icfr'[Irq!Pl(p)] = asked'[p]
    <3>1. asked'[p] = IF p = id THEN s ELSE asked[p]
      BY <2>1
    <3>2. p \in DOMAIN asked \cup {id} /\ p \in PlIds
      BY <2>1, <2>3
    <3>3. icfr'[Irq!Pl(p)] = IF Irq!Pl(p) = Irq!Pl(id) THEN s ELSE icfr[Irq!Pl(p)]
      BY <2>2, <2>4, <3>2 DEF AsConfigured
    <3>4. Irq!Pl(p) = Irq!Pl(id) <=> p = id
      BY <2>4, <3>2
    <3>5. p # id => icfr[Irq!Pl(p)] = asked[p]
      BY <3>2 DEF AsConfigured
    <3> QED  BY <3>1, <3>3, <3>4, <3>5
  <2>6. icfr' \in [Irq!Shared -> {0, Irq!Level, Irq!Edge}]
    BY <2>2 DEF AsConfigured
  <2> QED  BY <2>1, <2>3, <2>5, <2>6 DEF AsConfigured
<1>5. ASSUME NEW i \in IrqLines \cap Irq!Shared, NEW cpus \in SUBSET {0, 1},
             Irq!set_spi_interrupt_cpu_target_flags(i, cpus)
      PROVE  AsConfigured'
  <2>1. /\ iptr' = [iptr EXCEPT ![i] = cpus]
        /\ meant' = IF 0 \in cpus THEN meant \cup {i} ELSE meant \ {i}
        /\ UNCHANGED <<initialized, asked, icfr, pmr, dcr>>
    BY Zenon, <1>5 DEF Irq!set_spi_interrupt_cpu_target_flags
  <2> QED  BY <2>1 DEF AsConfigured
<1>6. ASSUME NEW i \in IrqLines \cap Irq!Shared, NEW cpu \in {0, 1},
             Irq!set_spi_interrupt_target_for_cpu(i, cpu)
      PROVE  AsConfigured'
  <2>1. /\ iptr' = [iptr EXCEPT ![i] = iptr[i] \cup {cpu}]
        /\ meant' = IF cpu = 0 THEN meant \cup {i} ELSE meant
        /\ UNCHANGED <<initialized, asked, icfr, pmr, dcr>>
    BY Zenon, <1>6 DEF Irq!set_spi_interrupt_target_for_cpu
  <2> QED  BY <2>1 DEF AsConfigured
<1>7. CASE Irq!set_all_spi_interrupt_targets_cpu0
  <2>1. /\ iptr' = [i \in Irq!Shared |-> iptr[i] \cup {0}] /\ meant' = Irq!Shared
        /\ UNCHANGED <<initialized, asked, icfr, pmr, dcr>>
    BY Zenon, <1>7 DEF Irq!set_all_spi_interrupt_targets_cpu0
  <2> QED  BY <1>1, <1>2, <2>1 DEF AsConfigured, Outstanding
<1>8. ASSUME NEW S, Irq!Enable(S)  PROVE AsConfigured'
  BY <1>8 DEF AsConfigured, Irq!Enable
<1>9. CASE Irq!enable \/ Irq!enable_interrupts
  <2>1. /\ initialized /\ UNCHANGED <<initialized, asked, meant, icfr, iptr, pmr>>
    BY Zenon, <1>9 DEF Irq!enable, Irq!enable_interrupts, Irq!call
  <2> QED  BY <1>1, <1>2, <2>1 DEF AsConfigured, Outstanding
<1>10. CASE AsConfigured'
  BY <1>1, <1>2, <1>10 DEF Outstanding
<1> QED
  BY <1>3, <1>4, <1>5, <1>6, <1>7, <1>8, <1>9, <1>10
     DEF Irq!Configure, Irq!enable_spi_interrupt, Irq!enable_ppi_interrupt,
         Irq!enable_all_interrupts

(* Devices.                                                                *)
LEMMA Devices ==
  ASSUME PlIds \subseteq 0 .. 2, GicInv,
         NEW i \in IrqLines, Irq!raise(i) \/ Irq!clear_by_polling(i)
  PROVE  GicInv'
<1>1. UNCHANGED <<initialized, asked, meant, icfr, iptr, pmr, dcr, active, handler, info>>
  BY Zenon DEF Irq!raise, Irq!clear_by_polling, Irq!config, Irq!request
<1>2. AsConfigured'
  BY <1>1 DEF GicInv, AsConfigured
<1>3. CASE Irq!raise(i)
  <2>1. Irq!Remembered(i) => i \in high' \cup latched'
    <3>1. CASE i \in Pulses
      <4>1. Irq!Remembered(i) => icfr[i] = Irq!Edge
        BY <3>1 DEF Irq!Remembered, GicInv, AsConfigured
      <4> QED  BY <1>3, <3>1, <4>1 DEF Irq!raise
    <3>2. CASE i \notin Pulses
      BY <1>3, <3>2 DEF Irq!raise
    <3> QED  BY <3>1, <3>2
  <2>2. owed' \subseteq owed \cup {i} /\ (i \in owed' \ owed => Irq!Remembered(i))
    BY <1>3 DEF Irq!raise
  <2>3. high \subseteq high' /\ latched \subseteq latched' /\ high' \cup latched' \subseteq IrqLines
    BY <1>3 DEF Irq!raise, GicInv
  <2>4. \A j \in owed' : Outstanding(j)'
    BY <1>1, <2>1, <2>2, <2>3 DEF GicInv, Outstanding
  <2> QED  BY <1>1, <1>2, <2>2, <2>3, <2>4 DEF GicInv
<1>4. CASE Irq!clear_by_polling(i)
  <2>1. high' = high \ {i} /\ owed' = owed \ {i} /\ latched' = latched
    BY <1>4 DEF Irq!clear_by_polling
  <2> QED  BY <1>1, <1>2, <2>1 DEF GicInv, Outstanding
<1> QED  BY <1>3, <1>4

(* The handler.                                                            *)
LEMMA Handling ==
  ASSUME GicInv, Irq!Handler
  PROVE  GicInv'
<1>1. UNCHANGED <<initialized, asked, meant, icfr, iptr, pmr, dcr>>
  BY Zenon DEF Irq!Handler, Irq!take_irq, Irq!acknowledge_interrupt, Irq!serve, Irq!end_of_interrupt,
     Irq!config, Irq!request
<1>2. AsConfigured' /\ (initialized' \in BOOLEAN /\ dcr' \in BOOLEAN)
  BY <1>1 DEF GicInv, AsConfigured
<1>3. CASE Irq!take_irq
  BY <1>2, <1>3 DEF Irq!take_irq, GicInv, Outstanding
<1>4. CASE Irq!acknowledge_interrupt
  BY <1>2, <1>4 DEF Irq!acknowledge_interrupt, GicInv, Outstanding
<1>5. CASE Irq!serve
  BY <1>2, <1>5 DEF Irq!serve, GicInv, Outstanding
<1>6. CASE Irq!end_of_interrupt
  BY <1>2, <1>6 DEF Irq!end_of_interrupt, GicInv, Outstanding
<1> QED  BY <1>3, <1>4, <1>5, <1>6 DEF Irq!Handler

(* What CPU 0 is to be told of and no handler runs for, it is told of.     *)
Told ==
  \A i \in IrqLines : i \in owed /\ Irq!Wanted(i) =>
    /\ i \in Irq!Pending \/ (handler = "acknowledged" /\ info = i)
    /\ handler = "none" => Irq!Signalled # {}

(* No event of a line that CPU 0 is to serve is forgotten: whatever calls  *)
(* configured the controller, in whatever order, and however devices       *)
(* withdraw their interrupts, either the handler is at it, or the line is  *)
(* pending, and without a handler an interrupt is signalled.               *)
THEOREM EventsAreKept ==
  ASSUME PlIds \subseteq 0 .. 2
  PROVE  Irq!GicSpec => []Told
<1>1. GicInv => Told
  <2> SUFFICES ASSUME GicInv, NEW i \in IrqLines, i \in owed, Irq!Wanted(i)
               PROVE  /\ i \in Irq!Pending \/ (handler = "acknowledged" /\ info = i)
                      /\ handler = "none" => Irq!Signalled # {}
    BY DEF Told
  <2>1. Outstanding(i) /\ dcr /\ pmr = 255 /\ i \in iser /\ (i \in Irq!Shared => 0 \in iptr[i])
    BY DEF GicInv, AsConfigured, Irq!Wanted
  <2>2. i \in Irq!Pending \/ (handler = "acknowledged" /\ info = i)
    BY <2>1 DEF Outstanding, Irq!Pending
  <2>3. ASSUME handler = "none"  PROVE Irq!Signalled # {}
    <3>1. i \in Irq!Pending /\ active = {}
      BY <2>2, <2>3 DEF GicInv
    <3>2. Irq!Pending \subseteq Nat
      BY DEF GicInv, Irq!Pending, MCSystemAssumption, Irq!GicAssumption
    <3>3. PICK m \in Irq!Pending : \A k \in Irq!Pending : m <= k
      BY <3>1, <3>2, LeastExists
    <3>4. m \in Irq!Signalled
      BY <2>1, <3>1, <3>3 DEF Irq!Signalled
    <3> QED  BY <3>4
  <2> QED  BY <2>2, <2>3
<1>2. GicInv /\ [Irq!GicNext]_(Irq!gicVars) => GicInv'
  <2> SUFFICES ASSUME GicInv, [Irq!GicNext]_(Irq!gicVars)  PROVE GicInv'
    OBVIOUS
  <2>1. CASE UNCHANGED Irq!gicVars
    BY <2>1 DEF Irq!gicVars, Irq!config, Irq!request, Irq!service, GicInv, AsConfigured, Outstanding
  <2> QED  BY <2>1, Configuring, Devices, Handling DEF Irq!GicNext
<1> QED  BY <1>1, <1>2, GicInitHolds, PTL DEF Irq!GicSpec
=============================================================================
