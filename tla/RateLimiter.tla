---------------------------- MODULE RateLimiter ----------------------------
(***************************************************************************)
(* The limit on the calls of an API key: a count for each key, under one   *)
(* mutex, of the minute of the clock the key last called in.  The counts   *)
(* are the process's own: a restart forgets them.                          *)
(***************************************************************************)
EXTENDS Naturals, Sequences

CONSTANTS
  Key,
  Rate,      \* calls a key is allowed in a minute
  Span,      \* ticks of the clock in a minute
  MaxTime    \* bound on the clock

ASSUME LimiterAssumption == Rate \in Nat \ {0} /\ Span \in Nat \ {0} /\ MaxTime \in Nat

VARIABLES
  now,       \* the wall clock
  entries,   \* the minute and the count of each key
  log        \* history: when each key's calls passed, since the process was
             \* started or the clock was last set back

limiter == <<now, entries, log>>

Entry == [minute : Nat, count : 0 .. Rate]
Blank == [minute |-> 0, count |-> 0]

LimiterInit ==
  /\ now = 0
  /\ entries = [k \in Key |-> Blank]
  /\ log = [k \in Key |-> <<>>]

Minute(t) == t \div Span

\* The count starts again in another minute, an earlier one too.
Current(k) ==
  IF entries[k].minute = Minute(now) THEN entries[k]
  ELSE [minute |-> Minute(now), count |-> 0]

\* Mistaken: the count is compared with <=.
AllowOneMore(k) ==
  /\ Current(k).count <= Rate
  /\ entries' = [entries EXCEPT ![k] = [Current(k) EXCEPT !.count = @ + 1]]
  /\ log' = [log EXCEPT ![k] = Append(@, now)]
  /\ UNCHANGED now

Allow(k) ==
  /\ Current(k).count < Rate
  /\ entries' = [entries EXCEPT ![k] = [Current(k) EXCEPT !.count = @ + 1]]
  /\ log' = [log EXCEPT ![k] = Append(@, now)]
  /\ UNCHANGED now

Tick ==
  /\ now < MaxTime /\ now' = now + 1
  /\ UNCHANGED <<entries, log>>

\* The host's clock is corrected.
SetBack ==
  /\ now > 0 /\ now' \in 0 .. (now - 1)
  /\ log' = [k \in Key |-> <<>>]
  /\ UNCHANGED entries

Forget ==
  /\ entries' = [k \in Key |-> Blank]
  /\ log' = [k \in Key |-> <<>>]
  /\ UNCHANGED now

\* Around the end of a minute a key gets through at most twice the calls of one:
\* more than a minute lies between a call and the one that comes 2 * Rate later.
TwiceAtMost ==
  \A k \in Key : \A i \in 1 .. Len(log[k]) :
    i + 2 * Rate <= Len(log[k]) => log[k][i + 2 * Rate] > log[k][i] + Span
=============================================================================
