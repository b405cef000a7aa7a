---------------------------- MODULE PrivateTimer ----------------------------
(* Delays on the private timer of a core: a context takes the timer once   *)
(* and delays in chunks the counter can hold, waiting for the event flag.  *)
(* (firmware/zynq7000-hal/src/priv_tim.rs)                                 *)
EXTENDS Integers

CONSTANTS
  Cores,     \* each has its own registers
  Handlers,  \* cores with an interrupt handler that also asks for the timer
  U32_MAX,   \* largest number the counter holds
  Delays,    \* in ticks of the timer
  MaxDelays  \* delays of a context

PrivateTimerAssumption ==
  /\ Handlers \subseteq Cores /\ U32_MAX \in Nat \ {0, 1}
  /\ Delays \subseteq 0 .. U32_MAX /\ MaxDelays \in Nat

Contexts == (Cores \X {"main"}) \cup (Handlers \X {"handler"})
Core(x) == x[1]

VARIABLES
  TIM_TAKEN,  \* of a core
  tim,        \* registers of a core: enable, auto_reload, counter, reload and event_flag
  at,         \* where a context is
  delayed,    \* delays it has begun
  remaining,  \* ticks
  asked, elapsed   \* by the delay that runs, and since it began

privTimVars == <<TIM_TAKEN, tim, at, delayed, remaining, asked, elapsed>>

Min2(a, b) == IF a < b THEN a ELSE b
goto(x, to) == at' = [at EXCEPT ![x] = to]
modify(x, new) == tim' = [tim EXCEPT ![Core(x)] = new]
regs(x) == tim[Core(x)]

(* A handler runs to its end before the code it interrupted goes on; it    *)
(* ends where it waits for its next call.                                  *)
Runs(x) == x[2] = "handler" \/ \A h \in Contexts : Core(h) = Core(x) /\ h # x => at[h] \in {"start", "owner", "none"}

-----------------------------------------------------------------------------
(* take: the swap is one access.                                           *)
swap(x) == TIM_TAKEN[Core(x)]
take(x) ==
  /\ at[x] = "start"
  /\ TIM_TAKEN' = [TIM_TAKEN EXCEPT ![Core(x)] = TRUE]
  /\ goto(x, IF swap(x) THEN "none" ELSE "owner")
  /\ UNCHANGED <<tim, delayed, remaining, asked, elapsed>>

delay_ns(x) ==
  /\ at[x] = "owner" /\ delayed[x] < MaxDelays
  /\ delayed' = [delayed EXCEPT ![x] = @ + 1]
  /\ \E ticks \in Delays :
       /\ remaining' = [remaining EXCEPT ![x] = ticks] /\ asked' = [asked EXCEPT ![x] = ticks]
  /\ elapsed' = [elapsed EXCEPT ![x] = 0]
  /\ modify(x, [regs(x) EXCEPT !.enable = FALSE, !.auto_reload = FALSE])
  /\ goto(x, "loop") /\ UNCHANGED TIM_TAKEN

(* The length of a chunk is computed from the lower 32 bits.               *)
chunk(x) == Min2(remaining[x] % (U32_MAX + 1), U32_MAX - 1)

event_flag_kept(flag) == flag
event_flag_cleared(flag) == FALSE
delay_loop(x) ==
  \/ /\ at[x] = "loop" /\ remaining[x] = 0
     /\ goto(x, "owner") /\ UNCHANGED <<tim, remaining>>
  \/ /\ at[x] = "loop" /\ remaining[x] > 0
     /\ modify(x, [regs(x) EXCEPT !.event_flag = event_flag_cleared(@)])
     /\ goto(x, "reload") /\ UNCHANGED remaining
  \/ /\ at[x] = "reload"
     /\ modify(x, [regs(x) EXCEPT !.reload = chunk(x), !.counter = chunk(x)])
     /\ goto(x, "counter") /\ UNCHANGED remaining
  \/ /\ at[x] = "counter"
     /\ modify(x, [regs(x) EXCEPT !.counter = chunk(x)])
     /\ goto(x, "enable") /\ UNCHANGED remaining
  \/ /\ at[x] = "enable"
     /\ modify(x, [regs(x) EXCEPT !.enable = TRUE])
     /\ goto(x, "wait") /\ UNCHANGED remaining
  \/ /\ at[x] = "wait" /\ regs(x).event_flag
     /\ remaining' = [remaining EXCEPT ![x] = @ - chunk(x)]
     /\ goto(x, "loop") /\ UNCHANGED tim

Software ==
  \E x \in Contexts :
    /\ Runs(x)
    /\ \/ take(x)
       \/ delay_ns(x)
       \/ delay_loop(x) /\ UNCHANGED <<TIM_TAKEN, delayed, asked, elapsed>>

-----------------------------------------------------------------------------
(* One tick of the timer of a core.  The count ends at zero, unless it is  *)
(* reloaded.                                                               *)
counted(r) ==
  IF ~ r.enable \/ r.counter = 0 THEN r
  ELSE [r EXCEPT !.counter = IF r.counter = 1 /\ r.auto_reload THEN r.reload ELSE r.counter - 1,
                 !.event_flag = @ \/ r.counter = 1]
Delaying(x) == at[x] \notin {"start", "owner", "none"}
tick ==
  \E c \in Cores :
    /\ tim[c].enable \/ \E x \in Contexts : Core(x) = c /\ Delaying(x) /\ elapsed[x] < asked[x]
    /\ tim' = [tim EXCEPT ![c] = counted(@)]
    /\ elapsed' = [x \in Contexts |-> IF Core(x) = c /\ Delaying(x) THEN Min2(elapsed[x] + 1, asked[x])
                                                                   ELSE elapsed[x]]
    /\ UNCHANGED <<TIM_TAKEN, at, delayed, remaining, asked>>

(* A loader may have left the timer in any state.                          *)
PrivTimInit ==
  /\ TIM_TAKEN = [c \in Cores |-> FALSE]
  /\ tim \in [Cores -> [enable : BOOLEAN, auto_reload : BOOLEAN, counter : {0, 2}, reload : {2},
                        event_flag : BOOLEAN]]
  /\ at = [x \in Contexts |-> "start"] /\ delayed = [x \in Contexts |-> 0]
  /\ remaining = [x \in Contexts |-> 0]
  /\ asked = [x \in Contexts |-> 0] /\ elapsed = [x \in Contexts |-> 0]

PrivTimNext == Software \/ tick
PrivTimSpec ==
  /\ PrivTimInit /\ [][PrivTimNext]_privTimVars
  /\ WF_privTimVars(Software) /\ WF_privTimVars(tick)

-----------------------------------------------------------------------------
(* A delay that returns has lasted the ticks asked for: no event flag of   *)
(* an earlier program, delay or chunk ends it, and nobody else uses the    *)
(* timer of the core meanwhile.                                            *)
DelaysLast == \A x \in Contexts : at[x] = "owner" => elapsed[x] >= asked[x]
=============================================================================
