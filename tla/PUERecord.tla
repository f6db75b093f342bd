----------------------------- MODULE PUERecord -----------------------------
(***************************************************************************)
(* backend/pue_calculator.go: the figures of a PUE record.  Its powers are *)
(* in hundredths, as the loss ratio is in percent.                         *)
(***************************************************************************)
EXTENDS Integers

CONSTANTS
    ITDefault,    \* PUE.ITDefaultPower
    LossPercent   \* PUE.DistributionLossRatio

\* COALESCE(AVG(total_it_power), default), and the default again for a zero.
GrossITPower(reading) == IF reading = 0 THEN ITDefault ELSE reading

\* The distribution loss and what is left of the IT power; a ratio of one or
\* more is replaced by three percent.
Record(c, gross) ==
    LET ratio == IF gross * (100 - LossPercent) <= 0 THEN 3 ELSE LossPercent
    IN  [itPower |-> gross * (100 - ratio), loss |-> gross * ratio, cooling |-> 100 * c,
         total |-> gross * (100 - ratio) + 100 * c + gross * ratio]

=============================================================================
