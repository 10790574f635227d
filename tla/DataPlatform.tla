---------------------------- MODULE DataPlatform ----------------------------
(***************************************************************************)
(* The data platform (src/app/modules/data_platform): concurrent callers   *)
(* ask the service; a fresh cached answer is returned at once, otherwise   *)
(* the adapters registered for the question are tried in order, each after *)
(* passing the rate limiter.  The limiter is one asyncio.Lock for all      *)
(* sources, first come first served, and a caller short of a token sleeps  *)
(* holding it.  Its bucket holds requests_per_second tokens and gains as   *)
(* many a second; time counts ticks, a token is worth Grain of them, and   *)
(* buckets are counted in ticks too.                                       *)
(*                                                                         *)
(* Every await is a step: waiting for the lock, the sleep, the request.    *)
(* An adapter that raises and a quote of None end alike: not cached, and   *)
(* the next adapter is tried.  TTLCache drops some entry of a full         *)
(* category for a new one; which one is left open.                         *)
(*                                                                         *)
(* Bug_ operators are wrong variants that no definition uses.              *)
(***************************************************************************)
EXTENDS Integers, Sequences, FiniteSets

CONSTANTS
    Callers,      \* coroutines sharing the service
    Questions,    \* [about, of, detail]: the method, the arguments its cache
                  \* key holds, and those the key leaves out
    Registry,     \* [question -> sequence of the adapters that serve it]
    Category,     \* [about -> the cache that keeps its answers]
    Ttl,          \* [category -> ticks an answer is kept]
    Sources,      \* names of the adapters
    MaxSize,      \* answers a category holds
    Burst,        \* requests_per_second, the size of a bucket in tokens
    Grain,        \* ticks a token takes to grow
    Horizon,      \* bound: ticks
    MaxAsks       \* bound: questions asked

ASSUME PlatformAssumption ==
    /\ Burst \in Nat \ {0} /\ Grain \in Nat \ {0} /\ Horizon \in Nat /\ MaxAsks \in Nat
    /\ MaxSize \in Nat \ {0}

ASSUME RegistryAssumption ==
    \A q \in Questions : Registry[q] \in Seq(Sources) /\ Registry[q] # <<>>

VARIABLES
    now,       \* time.monotonic()
    tokens,    \* [source -> ticks in its bucket]
    last,      \* [source -> time of its last refill]
    line,      \* callers holding (first) and awaiting the limiter's lock
    wake,      \* when the sleeping holder wakes
    pc,        \* [caller -> where it is]
    asked,     \* [caller -> the question it is waiting on]
    todo,      \* [caller -> adapters left to try, the current one first]
    cache,     \* [key -> answer], an answer being [of |-> question, at |-> time]
    sent,      \* auxiliary: [source -> times of the requests let through]
    asks       \* auxiliary: questions asked so far

limiter == <<tokens, last, wake, sent>>
vars == <<now, tokens, last, line, wake, pc, asked, todo, cache, sent, asks>>

Cap == Burst * Grain
Nothing == [about |-> "nothing", of |-> "", detail |-> ""]
Least(a, b) == IF a <= b THEN a ELSE b

\* Mutant: a key holds the method and not its arguments.
Bug_Key(q) == [about |-> q.about]

\* The key of get_line_items leaves out how many periods were asked for, and
\* the key of get_prices the asset class, which chooses the adapters.
PartlyKeyed == {"items", "prices"}
Key(q) == IF q.about \in PartlyKeyed THEN [about |-> q.about, of |-> q.of] ELSE q

Fresh(q) ==
    /\ Key(q) \in DOMAIN cache
    /\ now < cache[Key(q)].at + Ttl[Category[q.about]]

TypeOK ==
    /\ now \in Nat /\ wake \in Nat /\ asks \in Nat
    /\ tokens \in [Sources -> 0 .. Cap] /\ last \in [Sources -> Nat]
    /\ line \in Seq(Callers)
    /\ pc \in [Callers -> {"idle", "queued", "asleep", "fetching"}]
    /\ asked \in [Callers -> Questions \cup {Nothing}]
    /\ todo \in [Callers -> Seq(Sources)]
    /\ sent \in [Sources -> Seq(Nat)]

Init ==
    /\ now = 0 /\ wake = 0 /\ asks = 0
    /\ tokens = [s \in Sources |-> Cap] /\ last = [s \in Sources |-> 0]
    /\ sent = [s \in Sources |-> <<>>]
    /\ line = <<>>
    /\ pc = [c \in Callers |-> "idle"]
    /\ asked = [c \in Callers |-> Nothing]
    /\ todo = [c \in Callers |-> <<>>]
    /\ cache = <<>>

Hit(c, q) ==
    /\ pc[c] = "idle" /\ asks < MaxAsks
    /\ Fresh(q)
    /\ asks' = asks + 1
    /\ UNCHANGED <<now, limiter, line, pc, asked, todo, cache>>

Miss(c, q) ==
    /\ pc[c] = "idle" /\ asks < MaxAsks
    /\ ~Fresh(q)
    /\ asks' = asks + 1
    /\ asked' = [asked EXCEPT ![c] = q]
    /\ todo' = [todo EXCEPT ![c] = Registry[q]]
    /\ pc' = [pc EXCEPT ![c] = "queued"]
    /\ line' = Append(line, c)
    /\ UNCHANGED <<now, limiter, cache>>

\* Mutant: an idle bucket grows without limit.
Bug_Refilled(s) == tokens[s] + (now - last[s])

Refilled(s) == Least(Cap, tokens[s] + (now - last[s]))

\* Mutant: the lock is not released.
Bug_LetThrough(c, s) ==
    /\ sent' = [sent EXCEPT ![s] = Append(@, now)]
    /\ pc' = [pc EXCEPT ![c] = "fetching"]
    /\ UNCHANGED line

\* The holder takes a token and leaves with the lock released, or sleeps
\* until the token it is short of has grown, the lock held.
LetThrough(c, s) ==
    /\ sent' = [sent EXCEPT ![s] = Append(@, now)]
    /\ pc' = [pc EXCEPT ![c] = "fetching"]
    /\ line' = Tail(line)

\* Mutant: the refill time is only kept when a caller has to sleep.
Bug_Pass(c) ==
    LET s == Head(todo[c])
    IN  /\ pc[c] = "queued" /\ line # <<>> /\ Head(line) = c
        /\ Refilled(s) >= Grain
        /\ tokens' = [tokens EXCEPT ![s] = Refilled(s) - Grain]
        /\ LetThrough(c, s)
        /\ UNCHANGED <<now, last, wake, asked, todo, cache, asks>>

Pass(c) ==
    LET s == Head(todo[c])
    IN  /\ pc[c] = "queued" /\ line # <<>> /\ Head(line) = c
        /\ Refilled(s) >= Grain
        /\ tokens' = [tokens EXCEPT ![s] = Refilled(s) - Grain]
        /\ last' = [last EXCEPT ![s] = now]
        /\ LetThrough(c, s)
        /\ UNCHANGED <<now, wake, asked, todo, cache, asks>>

Sleep(c) ==
    LET s == Head(todo[c])
    IN  /\ pc[c] = "queued" /\ line # <<>> /\ Head(line) = c
        /\ Refilled(s) < Grain
        /\ tokens' = [tokens EXCEPT ![s] = Refilled(s)]
        /\ last' = [last EXCEPT ![s] = now]
        /\ wake' = now + Grain - Refilled(s)
        /\ pc' = [pc EXCEPT ![c] = "asleep"]
        /\ UNCHANGED <<now, line, asked, todo, cache, sent, asks>>

\* The refill time stays where it was before the sleep.
Wake(c) ==
    /\ pc[c] = "asleep" /\ now >= wake
    /\ tokens' = [tokens EXCEPT ![Head(todo[c])] = 0]
    /\ LetThrough(c, Head(todo[c]))
    /\ UNCHANGED <<now, last, wake, asked, todo, cache, asks>>

\* Setting a key drops what has expired in its category and, if the category
\* is still full, one other entry.
Live(category) ==
    {k \in DOMAIN cache : Category[k.about] = category /\ now < cache[k].at + Ttl[category]}

Answer(c) ==
    LET q == asked[c]
        others == Live(Category[q.about]) \ {Key(q)}
        elsewhere == {k \in DOMAIN cache : Category[k.about] # Category[q.about]}
    IN  /\ pc[c] = "fetching"
        /\ \E kept \in SUBSET others :
              /\ Cardinality(kept) = Least(Cardinality(others), MaxSize - 1)
              /\ cache' = [k \in elsewhere \cup kept \cup {Key(q)} |->
                             IF k = Key(q) THEN [of |-> q, at |-> now]
                                           ELSE cache[k]]
        /\ todo' = [todo EXCEPT ![c] = <<>>]
        /\ asked' = [asked EXCEPT ![c] = Nothing]
        /\ pc' = [pc EXCEPT ![c] = "idle"]
        /\ UNCHANGED <<now, limiter, line, asks>>

\* The next adapter, behind whoever awaits the lock by now; after the last
\* one the call raises DataUnavailableError, or returns None for a quote.
Fail(c) ==
    /\ pc[c] = "fetching"
    /\ todo' = [todo EXCEPT ![c] = Tail(@)]
    /\ \/ /\ Tail(todo[c]) # <<>>
          /\ pc' = [pc EXCEPT ![c] = "queued"]
          /\ line' = Append(line, c)
          /\ UNCHANGED asked
       \/ /\ Tail(todo[c]) = <<>>
          /\ pc' = [pc EXCEPT ![c] = "idle"]
          /\ asked' = [asked EXCEPT ![c] = Nothing]
          /\ UNCHANGED line
    /\ UNCHANGED <<now, limiter, cache, asks>>

\* Time passes up to the bound, and beyond it while someone sleeps.
Tick ==
    /\ now < Horizon \/ \E c \in Callers : pc[c] = "asleep" /\ now < wake
    /\ now' = now + 1
    /\ UNCHANGED <<limiter, line, pc, asked, todo, cache, asks>>

Step(c) == Pass(c) \/ Sleep(c) \/ Wake(c) \/ Answer(c) \/ Fail(c)
Ask(c) == \E q \in Questions : Hit(c, q) \/ Miss(c, q)

Next == Tick \/ \E c \in Callers : Ask(c) \/ Step(c)

Spec == Init /\ [][Next]_vars

\* The event loop runs ready coroutines, requests return or time out, and
\* clocks advance; nobody has to ask.
FairSpec == Spec /\ WF_vars(Tick) /\ \A c \in Callers : WF_vars(Step(c))

-----------------------------------------------------------------------------
\* Whatever the callers do, a source sees at most a full bucket and twice the
\* rate: a sleep is credited when it is paid for and again by the next
\* refill, which counts from before it.
AdmittedBounded == \A s \in Sources : Len(sent[s]) * Grain <= Cap + 2 * now

\* Two questions that differ at most in what their key leaves out: the number
\* of periods of line items, the asset class of prices.
Alike(q, r) == q.about \in PartlyKeyed /\ r.about = q.about /\ r.of = q.of

\* A cached answer is served for the question it answers or for one alike:
\* prices may be those another asset class's adapter gave for the symbol
\* (service.py:34), line items may have another caller's number of periods.
AnswersFit ==
    \A q \in Questions : Fresh(q) =>
        LET answered == cache[Key(q)].of IN answered = q \/ Alike(q, answered)

\* The limiter's total (rate_limiter.py acquire) and the cache's keys
\* (service.py) hold together for any interleaving of the callers.
PlatformSound == TypeOK /\ AdmittedBounded /\ AnswersFit

\* No burst is larger than a bucket and a token, on top of the doubled rate,
\* however long a source was idle before (rate_limiter.py:25-28).
BurstBounded ==
    \A s \in Sources : \A i, j \in DOMAIN sent[s] :
        i <= j => (j - i + 1) * Grain <= Cap + Grain + 2 * (sent[s][j] - sent[s][i])

\* Every question is answered, or found unanswerable: nobody waits for the
\* one lock for ever, though its holder sleeps with it.
RequestsEnd == \A c \in Callers : pc[c] # "idle" ~> pc[c] = "idle"
=============================================================================
