----------------------------- MODULE VenueClient -----------------------------
(***************************************************************************)
(* One venue HTTP client (venues/http.py): the rate limiter, the retry     *)
(* ladder and the circuit breaker, shared by the coroutines that call it   *)
(* (survey.py prices the legs of a partition concurrently).                *)
(*                                                                         *)
(* A coroutine runs without interruption between two awaits: the lock of   *)
(* the limiter, its sleep, the request, the sleep between two attempts.    *)
(* Time passes in ticks; a sleep is at least as long as was asked.         *)
(***************************************************************************)
EXTENDS Integers, Sequences, FiniteSets

CONSTANTS
  Caller,           (* coroutines that share the client                     *)
  Interval,         (* RateLimiter._interval, in ticks                      *)
  MaxAttempts,      (* VenueHttpClient.max_attempts                         *)
  Threshold,        (* VenueHttpClient.failure_threshold                    *)
  Backoff,          (* _BACKOFF_BASE_SECONDS                                *)
  BackoffMax,       (* _BACKOFF_MAX_SECONDS                                 *)
  Cooldown,         (* _BREAKER_COOLDOWN_SECONDS                            *)
  CooldownMax       (* _BREAKER_COOLDOWN_MAX_SECONDS                        *)

ASSUME ClientConstants ==
  /\ Interval \in Nat \ {0} /\ MaxAttempts \in Nat \ {0} /\ Threshold \in Nat \ {0}
  /\ Backoff \in Nat \ {0} /\ BackoffMax \in Nat /\ Backoff <= BackoffMax
  /\ Cooldown \in Nat \ {0} /\ CooldownMax \in Nat /\ Cooldown <= CooldownMax

VARIABLES
  call,       (* of each caller: pc, attempt, delay (the next backoff), wait (ticks
                 left to sleep)                                              *)
  line,       (* the limiter's lock: its holder, then those waiting, in order *)
  gap,        (* ticks until RateLimiter._next_allowed                       *)
  failures,   (* _consecutive_transport_failures, saturated at Threshold     *)
  tripped,    (* _tripped_at is not None                                     *)
  tripAge,    (* ticks since _tripped_at, saturated                          *)
  cooldown,   (* _cooldown                                                   *)
  probing,    (* _probing                                                    *)
  up,         (* the venue answers                                           *)
  sinceSent,  (* history: ticks since the last request, saturated            *)
  probed      (* history: the cooldown last probed after, since an answer    *)

breaker == <<failures, tripped, tripAge, cooldown, probing>>
clientVars == <<call, line, gap, breaker, up, sinceSent, probed>>

Least(m, n) == IF m <= n THEN m ELSE n
Less(n) == IF n > 0 THEN n - 1 ELSE 0

NoCall == [pc |-> "idle", attempt |-> 0, delay |-> 0, wait |-> 0]

ClientInit ==
  /\ call = [c \in Caller |-> NoCall]
  /\ line = <<>>
  /\ gap = 0
  /\ failures = 0
  /\ tripped = FALSE /\ tripAge = 0
  /\ cooldown = Cooldown
  /\ probing = FALSE
  /\ up = TRUE
  /\ sinceSent = Interval
  /\ probed = 0

-----------------------------------------------------------------------------
(* RateLimiter.acquire                                                     *)

\* Mutant: no lock, so everybody in line sleeps from the moment it came.
JoinUnlocked(c, asked) ==
  /\ line' = Append(line, c)
  /\ call' = [call EXCEPT ![c] = [asked EXCEPT !.pc = "line", !.wait = gap]]

\* Ask for the lock; whoever gets it sleeps until _next_allowed.
Join(c, asked) ==
  /\ line' = Append(line, c)
  /\ call' = [call EXCEPT ![c] = [asked EXCEPT !.pc = "line",
                                               !.wait = IF line = <<>> THEN gap ELSE Interval]]

AtFront(c) == line # <<>> /\ Head(line) = c

\* The sleep over, _next_allowed is set, the lock passed on and the request sent.  The
\* next holder finds a whole interval to wait.
Depart(c) ==
  /\ AtFront(c)
  /\ call[c].wait = 0
  /\ line' = Tail(line)
  /\ gap' = Interval
  /\ call' = [call EXCEPT ![c].pc = "flight"]
  /\ sinceSent' = 0
  /\ UNCHANGED <<breaker, up, probed>>

-----------------------------------------------------------------------------
(* VenueHttpClient._get                                                    *)

FirstAttempt == [NoCall EXCEPT !.attempt = 1, !.delay = Backoff]

\* The circuit is closed.  While it is open and cooling the call raises
\* VenueUnreachable, and nothing changes.
Enter(c) ==
  /\ call[c].pc = "idle"
  /\ ~tripped
  /\ Join(c, FirstAttempt)
  /\ UNCHANGED <<gap, breaker, up, sinceSent, probed>>

\* Half open.
EnterHalfOpen(c) ==
  /\ call[c].pc = "idle"
  /\ tripped /\ tripAge >= cooldown
  /\ probing' = TRUE
  /\ probed' = IF probing THEN probed ELSE cooldown
  /\ Join(c, FirstAttempt)
  /\ UNCHANGED <<gap, failures, tripped, tripAge, cooldown, up, sinceSent>>

\* After an attempt that did not settle the call: sleep and try again, or give up.
SleepOrEnd(c) ==
  call' = [call EXCEPT ![c] =
             IF call[c].attempt = MaxAttempts THEN NoCall
             ELSE [call[c] EXCEPT !.pc = "sleep", !.wait = call[c].delay,
                                  !.delay = Least(@ * 2, BackoffMax)]]

\* Mutant: attempts are not counted.
RetryUncounted(c) ==
  /\ call[c].pc = "sleep" /\ call[c].wait = 0
  /\ Join(c, call[c])
  /\ UNCHANGED <<gap, breaker, up, sinceSent, probed>>

Retry(c) ==
  /\ call[c].pc = "sleep" /\ call[c].wait = 0
  /\ Join(c, [call[c] EXCEPT !.attempt = @ + 1])
  /\ UNCHANGED <<gap, breaker, up, sinceSent, probed>>

Trip == tripped' = TRUE /\ tripAge' = 0

\* Mutant: a failed probe starts the same wait again.
RefusedSameWait ==
  /\ failures' = Least(failures + 1, Threshold)
  /\ IF failures + 1 >= Threshold THEN Trip ELSE UNCHANGED <<tripped, tripAge>>
  /\ probing' = FALSE
  /\ UNCHANGED cooldown

\* What a transport error does to the breaker.
Refused ==
  /\ failures' = Least(failures + 1, Threshold)
  /\ IF probing \/ failures + 1 >= Threshold THEN Trip ELSE UNCHANGED <<tripped, tripAge>>
  /\ cooldown' = IF probing THEN Least(cooldown * 2, CooldownMax) ELSE cooldown
  /\ probing' = FALSE

\* Mutants: the count, or the circuit, is not reset.
AnsweredStillCounting ==
  /\ tripped' = FALSE /\ tripAge' = 0
  /\ cooldown' = Cooldown
  /\ probing' = FALSE
  /\ UNCHANGED failures
AnsweredStillOpen ==
  /\ failures' = 0
  /\ cooldown' = Cooldown
  /\ probing' = FALSE
  /\ UNCHANGED <<tripped, tripAge>>

\* What any answer at all does to it.
Answered ==
  /\ failures' = 0
  /\ tripped' = FALSE /\ tripAge' = 0
  /\ cooldown' = Cooldown
  /\ probing' = FALSE

TransportError(c) ==
  /\ ~up
  /\ call[c].pc = "flight"
  /\ Refused
  /\ SleepOrEnd(c)
  /\ UNCHANGED <<line, gap, up, sinceSent, probed>>

\* 429 or 5xx: the venue talks, but not yet.
Busy(c) ==
  /\ up
  /\ call[c].pc = "flight"
  /\ Answered
  /\ SleepOrEnd(c)
  /\ probed' = 0
  /\ UNCHANGED <<line, gap, up, sinceSent>>

\* A body, or an error that is raised.
Settled(c) ==
  /\ up
  /\ call[c].pc = "flight"
  /\ Answered
  /\ call' = [call EXCEPT ![c] = NoCall]
  /\ probed' = 0
  /\ UNCHANGED <<line, gap, up, sinceSent>>

-----------------------------------------------------------------------------

\* The venue stops answering, or answers again.
Outage ==
  /\ up' = ~up
  /\ UNCHANGED <<call, line, gap, breaker, sinceSent, probed>>

Sleeping(c) == call[c].pc = "sleep" \/ AtFront(c)

ClientTick ==
  /\ call' = [c \in Caller |-> IF Sleeping(c) THEN [call[c] EXCEPT !.wait = Less(@)]
                                              ELSE call[c]]
  /\ gap' = Less(gap)
  /\ tripAge' = IF tripped THEN Least(tripAge + 1, CooldownMax) ELSE tripAge
  /\ sinceSent' = Least(sinceSent + 1, Interval)
  /\ UNCHANGED <<line, failures, tripped, cooldown, probing, up, probed>>

\* What the event loop does for c once its sleep is over or its request returns.
Resume(c) == Depart(c) \/ Retry(c) \/ TransportError(c) \/ Busy(c) \/ Settled(c)

ClientNext ==
  \/ \E c \in Caller : Enter(c) \/ EnterHalfOpen(c) \/ Resume(c)
  \/ Outage
  \/ ClientTick

ClientSpec == ClientInit /\ [][ClientNext]_clientVars

\* The event loop resumes whoever can go on (a request that is out ends, by its timeout
\* at the latest), time passes, and somebody keeps calling.
ClientFairness ==
  /\ \A c \in Caller : WF_clientVars(Resume(c)) /\ WF_clientVars(Enter(c) \/ EnterHalfOpen(c))
  /\ WF_clientVars(ClientTick)

ClientLiveSpec == ClientSpec /\ ClientFairness

-----------------------------------------------------------------------------

Call ==
  [ pc : {"idle", "line", "flight", "sleep"}, attempt : 0 .. MaxAttempts,
    delay : 0 .. BackoffMax, wait : 0 .. Interval + BackoffMax ]

\* Every variable has the shape the code gives it.
ClientTypeOK ==
  /\ call \in [Caller -> Call]
  /\ line \in Seq(Caller)
  /\ gap \in 0 .. Interval
  /\ failures \in 0 .. Threshold
  /\ tripped \in BOOLEAN /\ probing \in BOOLEAN /\ up \in BOOLEAN
  /\ tripAge \in 0 .. CooldownMax
  /\ cooldown \in Cooldown .. CooldownMax
  /\ sinceSent \in 0 .. Interval
  /\ probed \in 0 .. CooldownMax

Departs(c) == call[c].pc = "line" /\ call'[c].pc = "flight"

\* Two requests are an interval apart however many coroutines call, retry and wake up at
\* once (http.py:79-83).
Spaced == [][\A c \in Caller : Departs(c) => sinceSent >= Interval]_clientVars

\* The circuit is open exactly while the last Threshold requests all failed, and is
\* back at its first wait when it is closed, though calls that entered before and
\* after it opened answer in any order (http.py:251-272).
BreakerAgrees ==
  /\ tripped <=> failures = Threshold
  /\ ~tripped => cooldown = Cooldown /\ ~probing

\* Unless the venue answered in between, a probe has waited twice as long as the one
\* before it, up to the longest wait (http.py:55-65).
ProbesBackOff ==
  [][ ~probing /\ probing' /\ probed # 0 => probed' = Least(probed * 2, CooldownMax) ]_clientVars

\* A breaker that can close: once the venue answers for good the circuit does not stay
\* open (http.py:50-62).
CircuitCloses == <>[]up => []<>~tripped

\* A call ends, whatever the others do (http.py:246-283).
CallEnds == \A c \in Caller : call[c].pc # "idle" ~> call[c].pc = "idle"

=============================================================================
