----------------------------- MODULE UartConfig -----------------------------
(* The baud rate of a UART: the search for divisors, one value of bdiv a   *)
(* step, and the set-up of the controller with them.                       *)
(* (firmware/zynq7000-hal/src/uart/mod.rs)                                 *)
EXTENDS Integers

CONSTANT Ratios    \* UART clock over baud rate, as <<numerator, denominator>>

VARIABLES
  ratio,     \* the one of this behaviour
  bdiv,      \* the loop variable
  best_clk_config, smallest_error,   \* the error as a fraction <<n, d>>
  setup,     \* how far new_generic_unchecked is
  divisors,  \* those of the controller
  enabled    \* transmitter and receiver are

uartConfigVars == <<ratio, bdiv, best_clk_config, smallest_error, setup, divisors, enabled>>

U8_MAX == 255
U16_MAX == 65535

-----------------------------------------------------------------------------
(* round(clk / ((bdiv + 1) * baud)), which may be 0, and the error of the  *)
(* rate with given divisors, times the denominator of the ratio: that of   *)
(* cd = 0 is infinite.                                                     *)
divisor(b) == ratio[2] * (b + 1)
cd_truncated(b) == ratio[1] \div divisor(b)
cd_rounded_down(b) == cd_truncated(b)
cd_of(b) == (2 * ratio[1] + divisor(b)) \div (2 * divisor(b))
abs(n) == IF n < 0 THEN - n ELSE n
deviation(cd, b) == abs(ratio[1] - divisor(b) * cd)
error_of(cd, b) == <<deviation(cd, b), (b + 1) * cd>>
smaller_error(e, f) == e[1] * f[2] < f[1] * e[2]

UartConfigInit ==
  /\ ratio \in Ratios
  /\ bdiv = 4 /\ best_clk_config = [cd |-> 1, bdiv |-> 0] /\ smallest_error = <<ratio[2], 1>>
  /\ setup = "search" /\ divisors = [cd |-> 0, bdiv |-> 0] /\ enabled = TRUE

(* calculate_raw_baud_cfg_smallest_error: for bdiv in 4..u8::MAX.          *)
search ==
  /\ setup = "search" /\ bdiv < U8_MAX
  /\ bdiv' = bdiv + 1
  /\ LET cd == cd_of(bdiv)
         error == error_of(cd, bdiv)
     IN IF cd \in 1 .. U16_MAX /\ smaller_error(error, smallest_error)
        THEN best_clk_config' = [cd |-> cd, bdiv |-> bdiv] /\ smallest_error' = error
        ELSE UNCHANGED <<best_clk_config, smallest_error>>
  /\ UNCHANGED <<ratio, setup, divisors, enabled>>

(* Uart::new_generic_unchecked: after the reset the baud generator is      *)
(* written with transmitter and receiver off, one register after the       *)
(* other, then both are reset and enabled.                                 *)
new_generic_unchecked(from, to) == setup = from /\ setup' = to
set_up ==
  /\ UNCHANGED <<ratio, bdiv, best_clk_config, smallest_error>>
  /\ \/ /\ bdiv = U8_MAX /\ new_generic_unchecked("search", "reset")
        /\ enabled' = TRUE /\ divisors' = [cd |-> 0, bdiv |-> 0]
     \/ /\ new_generic_unchecked("reset", "disabled")
        /\ enabled' = FALSE /\ UNCHANGED divisors
     \/ /\ new_generic_unchecked("disabled", "baudgen")
        /\ divisors' = [divisors EXCEPT !.cd = best_clk_config.cd] /\ UNCHANGED enabled
     \/ /\ new_generic_unchecked("baudgen", "baud_rate_div")
        /\ divisors' = [divisors EXCEPT !.bdiv = best_clk_config.bdiv] /\ UNCHANGED enabled
     \/ /\ new_generic_unchecked("baud_rate_div", "done")
        /\ enabled' = TRUE /\ UNCHANGED divisors

UartConfigNext == search \/ set_up
UartConfigSpec == UartConfigInit /\ [][UartConfigNext]_uartConfigVars

-----------------------------------------------------------------------------
(* Other divisors that may be nearest for one bdiv, of the whole range of  *)
(* the register: a larger or smaller cd is further off.                    *)
Candidates ==
  {c \in [b : 4 .. U8_MAX, up : {0, 1}] : cd_truncated(c.b) + c.up \in 1 .. U16_MAX}
Tried(b) == b < U8_MAX /\ cd_of(b) \in 1 .. U16_MAX
Attainable == \E b \in 4 .. U8_MAX : Tried(b)

(* What the search guarantees.  For each bdiv it tries the cd that is off  *)
(* by the fewest ticks of the clock.  So the error of the rate it finds is *)
(* at most that of the divisors below any quotient, and at most that of    *)
(* the divisors above, cd say, times cd / (cd - 1); of all bdiv but 255,   *)
(* as long as their nearest cd fits.  That is not always "the smallest     *)
(* error" of uart/mod.rs:274: just below the middle of two quotients the   *)
(* divisor above would be nearer, and bdiv = 255 may be.  If no cd does,   *)
(* the UART runs with cd = 1 and bdiv = 0; and it never runs with one      *)
(* divisor of two.                                                         *)
NearRate ==
  /\ enabled => divisors \in {[cd |-> 0, bdiv |-> 0], best_clk_config}
  /\ setup = "done" =>
       IF Attainable
       THEN \A c \in Candidates :
              Tried(c.b) =>
                LET below == IF cd_truncated(c.b) = 0 THEN 1 ELSE cd_truncated(c.b) IN
                ~ smaller_error(<<deviation(cd_truncated(c.b) + c.up, c.b), (c.b + 1) * below>>,
                                error_of(divisors.cd, divisors.bdiv))
       ELSE divisors = [cd |-> 1, bdiv |-> 0]
=============================================================================
