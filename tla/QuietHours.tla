------------------------------ MODULE QuietHours ------------------------------
(***************************************************************************)
(* The quiet hours of the user (AlertService._visibility): an alert made   *)
(* in them is written at once and shown when they end. Times are counted   *)
(* in slots of the user's time zone; the hours may go over midnight.       *)
(***************************************************************************)
EXTENDS Integers

CONSTANTS
    SlotsPerDay,          \* granularity of the clock
    QuietStart, QuietEnd  \* slots: alert_quiet_hours_start, _end

Slot(c) == c % SlotsPerDay

\* _local_date
Day(c) == c \div SlotsPerDay

\* Equal ends mean that there are no quiet hours.
Night(c) ==
    IF QuietStart <= QuietEnd THEN Slot(c) \in QuietStart..(QuietEnd - 1)
                              ELSE Slot(c) >= QuietStart \/ Slot(c) < QuietEnd

\* The end of the quiet hours, on the next day for the evening of hours over midnight.
VisibleAt(c) ==
    LET tomorrow == QuietStart > QuietEnd /\ Slot(c) >= QuietStart
    IN IF Night(c) THEN (Day(c) + IF tomorrow THEN 1 ELSE 0) * SlotsPerDay + QuietEnd ELSE c
=============================================================================
