------------------------------- MODULE Clock --------------------------------
(***************************************************************************)
(* The time of other/global_time.c and what the server does with it: every *)
(* connection keeps the milliseconds of its last activity, and its timer   *)
(* subtracts them from the present ones.                                   *)
(***************************************************************************)
EXTENDS Integers

CONSTANTS
  Millis,        \* milliseconds of a second
  Nanos,         \* nanoseconds of a millisecond
  Wide,          \* values of an uint64_t
  MaxClock       \* bound: nanoseconds the clock of the system runs

ASSUME ClockAssumption ==
  /\ Millis \in Nat \ {0} /\ Nanos \in Nat \ {0} /\ MaxClock \in Nat
  /\ Wide \in Nat /\ Wide > MaxClock

VARIABLES
  clock,         \* CLOCK_MONOTONIC, in nanoseconds
  g_time,        \* the clock as global_time_init found it, or never written
  last_activity, \* of a connection, in milliseconds of the program
  activity       \* the clock at that activity; None before the first

clockVars == <<clock, g_time, last_activity, activity>>

None == -1
Timespec(ns) == [tv_sec |-> ns \div (Millis * Nanos), tv_nsec |-> ns % (Millis * Nanos)]

\* The division of C drops the fraction, so that it rounds up below zero.
\* Mutant: nanoseconds are divided as an unsigned number.
Quotient_Unsigned(a, b) == (a % Wide) \div b
Quotient(a, b) == IF a < 0 THEN -((-a) \div b) ELSE a \div b

\* global_get_time
Elapsed ==
  LET current == Timespec(clock)
  IN  ((current.tv_sec - g_time.tv_sec) * Millis
         + Quotient(current.tv_nsec - g_time.tv_nsec, Nanos)) % Wide

\* now - conn->last_activity
Age == (Elapsed - last_activity) % Wide
------------------------------------------------------------------------------
ClockInit ==
  /\ clock \in 0 .. MaxClock /\ g_time = Timespec(0)
  /\ last_activity = 0 /\ activity = None

\* Nothing in the server calls it; a program that does calls it at its start.
GlobalTimeInit ==
  /\ activity = None
  /\ g_time' = Timespec(clock)
  /\ UNCHANGED <<clock, last_activity, activity>>

Tick ==
  /\ clock' \in clock + 1 .. MaxClock
  /\ UNCHANGED <<g_time, last_activity, activity>>

\* connection_create, connection_recv, connection_send and connection_close
Activity ==
  /\ last_activity' = Elapsed /\ activity' = clock
  /\ UNCHANGED <<clock, g_time>>

ClockNext == GlobalTimeInit \/ Tick \/ Activity
ClockSpec == ClockInit /\ [][ClockNext]_clockVars
------------------------------------------------------------------------------
\* The age that tcpserver_time_on_read compares with the timeout is the time since
\* the last activity to less than two milliseconds and never below zero (as an
\* unsigned number it would be enormous), although seconds and nanoseconds are
\* subtracted apart and the nanoseconds may be fewer than at the start.
AgeExact ==
  activity # None =>
    /\ Age * Nanos < clock - activity + 2 * Nanos
    /\ Age * Nanos > clock - activity - 2 * Nanos
=============================================================================
