---------------------------- MODULE MpsseFrequency ----------------------------
(***************************************************************************)
(* Choosing the clock of the chip: mpsse_set_frequency (mpsse.c:769-798)   *)
(* and the callers of it in ftdi.c, with the settings the chip has once a  *)
(* flush has brought them there.  A flush that fails may have brought the  *)
(* first of them.                                                          *)
(***************************************************************************)
EXTENDS Integers, Sequences

CONSTANTS
  Frequencies,   \* in Hz, 0 for RTCK
  IntMax         \* 2^31 - 1

\* What the constants are.
FrequencyAssumption ==
  /\ IntMax \in Nat /\ Frequencies \subseteq 0 .. IntMax

VARIABLES
  type,      \* the chip: TYPE_FT2232C, or one that is of high speed
  queued,    \* the commands in the write buffer, in order
  chip,      \* external: the settings of the chip
  asked,     \* history: the frequency last asked for, -1 for none or one refused
  returned,  \* history: what mpsse_set_frequency returned
  in_step    \* history: did the last flush succeed

vars == <<type, queued, chip, asked, returned, in_step>>

ERROR_FAIL == -4
high_speed == type # "TYPE_FT2232C"

IsCommand(c) == \/ c.set \in {"rtck", "divide_by_5"} /\ c.to \in BOOLEAN
                \/ c.set = "divisor" /\ c.to \in 0 .. 65535
Settings == [rtck: BOOLEAN, divide_by_5: BOOLEAN, divisor: 0 .. 65535]

\* A chip starts with its base clock divided by 5, as one that knows no other does.
Init == /\ type \in {"TYPE_FT2232C", "TYPE_FT232H"}
        /\ queued = << >>
        /\ chip = [rtck |-> FALSE, divide_by_5 |-> TRUE, divisor |-> 0]
        /\ asked = -1 /\ returned = 0 /\ in_step = TRUE

-----------------------------------------------------------------------------
(* The choice                                                                *)

\* mpsse_rtck_config and mpsse_divide_by_5_config: refused on a chip of full speed.
config(setting, enable) ==
  IF high_speed THEN <<[set |-> setting, to |-> enable]>> ELSE << >>

\* Mutant: the slow base clock as well for frequencies the fast one reaches.
Mutant_always_slow(frequency) == FALSE
\* Is the base clock 60 MHz?
fast_base(frequency) == frequency > (60000000 \div 2) \div 65536 /\ high_speed
base_clock(frequency) == IF fast_base(frequency) THEN 60000000 ELSE 12000000

\* Mutants: the quotient is rounded down; it is not limited to 16 bits.
Mutant_rounded_down(frequency) ==
  LET wanted == (base_clock(frequency) \div 2) \div frequency
  IN IF wanted > 65536 THEN 65535 ELSE IF wanted = 0 THEN 0 ELSE wanted - 1
Mutant_not_limited(frequency) ==
  (base_clock(frequency) \div 2 + frequency - 1) \div frequency - 1
divisor(frequency) ==
  LET wanted == (base_clock(frequency) \div 2 + frequency - 1) \div frequency - 1
  IN IF wanted > 65535 THEN 65535 ELSE wanted

\* The first sum of the division has to be an int: past that the behaviour is undefined.
in_range(frequency) == frequency <= IntMax - base_clock(frequency) \div 2

\* Mutants: a chip that follows RTCK goes on to; the base clock is not set back.
Mutant_rtck_stays(frequency) ==
  IF frequency = 0 THEN config("rtck", TRUE)
  ELSE config("divide_by_5", ~fast_base(frequency))
       \o <<[set |-> "divisor", to |-> divisor(frequency)]>>
Mutant_stays_fast(frequency) ==
  IF frequency = 0 THEN config("rtck", TRUE)
  ELSE config("rtck", FALSE)
       \o (IF fast_base(frequency) THEN config("divide_by_5", FALSE) ELSE << >>)
       \o <<[set |-> "divisor", to |-> divisor(frequency)]>>
commands(frequency) ==
  IF frequency = 0 THEN config("rtck", TRUE)
  ELSE config("rtck", FALSE) \o config("divide_by_5", ~fast_base(frequency))
       \o <<[set |-> "divisor", to |-> divisor(frequency)]>>

\* What is returned: the frequency, or for RTCK the result of mpsse_rtck_config.
actual(frequency) ==
  IF frequency = 0 THEN IF high_speed THEN 0 ELSE ERROR_FAIL
  ELSE (base_clock(frequency) \div 2) \div (1 + divisor(frequency))

-----------------------------------------------------------------------------
(* Steps                                                                     *)

mpsse_set_frequency(frequency) ==
  /\ in_range(frequency)
  /\ queued = << >>      \* bound: one change a flush
  /\ queued' = commands(frequency)
  /\ returned' = actual(frequency)
  /\ asked' = IF actual(frequency) < 0 THEN -1 ELSE frequency
  /\ UNCHANGED <<type, chip, in_step>>

\* ftdi_khz, then ftdi_speed: RTCK is refused where the chip has none.
ftdi_khz_speed(khz) ==
  /\ khz = 0 => high_speed
  /\ khz <= IntMax \div 1000
  /\ mpsse_set_frequency(khz * 1000)

\* External: the chip takes the first n commands.
taken(n) ==
  [s \in DOMAIN chip |->
     LET last == {m \in 1 .. n : queued[m].set = s}
     IN IF last = {} THEN chip[s] ELSE queued[CHOOSE m \in last : \A k \in last : k <= m].to]

mpsse_flush ==
  /\ queued # << >> /\ queued' = << >>
  /\ \/ chip' = taken(Len(queued)) /\ in_step' = TRUE
     \/ \E n \in 0 .. Len(queued) - 1 : chip' = taken(n) /\ in_step' = FALSE
  /\ UNCHANGED <<type, asked, returned>>

Next == \/ \E frequency \in Frequencies : mpsse_set_frequency(frequency)
        \/ \E frequency \in Frequencies : ftdi_khz_speed(frequency \div 1000)
        \/ mpsse_flush
Spec == Init /\ [][Next]_vars

-----------------------------------------------------------------------------
(* Properties                                                                *)

TypeOK == /\ type \in {"TYPE_FT2232C", "TYPE_FT232H"}
          /\ \A k \in DOMAIN queued : IsCommand(queued[k])
          /\ Len(queued) <= 3
          /\ chip \in Settings
          /\ asked \in Frequencies \cup {1000 * (f \div 1000) : f \in Frequencies} \cup {-1}
          /\ returned \in Int /\ in_step \in BOOLEAN

\* The clock of the chip is 30 MHz over this.
division == (IF chip.divide_by_5 THEN 5 ELSE 1) * (chip.divisor + 1)
settled == queued = << >> /\ in_step /\ asked > 0
slowest == 5 * 65536
\* The least division that is not too fast.
wanted_division == (30000000 + asked - 1) \div asked

\* The chip never runs faster than it was asked to, unless it cannot run as slowly;
\* then it runs as slowly as it can (mpsse.c:787-789).
NeverFaster == settled => division >= wanted_division \/ division = slowest

\* And it does not run slower than it has to: no setting it has, of either base clock,
\* is nearer to what was asked (mpsse.c:780-789).
NotSlower ==
  settled =>
    LET has(n) == n % 5 = 0 \/ (high_speed /\ n <= 65536)
    IN ~\E n \in wanted_division .. division - 1 : has(n)

\* What is returned is the chip's clock in whole Hz, which mpsse.h:70-71 calls the actual
\* frequency (mpsse.c:794-797).
ReturnedIsActual == settled => returned = 30000000 \div division

\* The chip follows RTCK exactly when that is what was asked for last: a frequency asked
\* for later turns it off (mpsse.c:775-778).
RtckAsAsked == queued = << >> /\ in_step /\ asked >= 0 => (chip.rtck <=> asked = 0)
=============================================================================
