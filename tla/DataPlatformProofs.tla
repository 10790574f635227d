------------------------- MODULE DataPlatformProofs -------------------------
(***************************************************************************)
(* Proofs about DataPlatform for any callers, questions, registry and      *)
(* clock.  The rate follows from an account of every source: what it let   *)
(* through, counted in ticks, and what is left in its bucket never exceed  *)
(* a full bucket, the time of the last refill and the time now.  While the *)
(* holder of the lock sleeps the account is tighter, by what it sleeps for.*)
(* The same account, opened again at every request, bounds each burst.     *)
(***************************************************************************)
EXTENDS DataPlatform, SequenceTheorems, TLAPS

USE PlatformAssumption

(* Only the holder of the lock sleeps. *)
HolderSleeps == \A c \in Callers : pc[c] = "asleep" => line # <<>> /\ Head(line) = c

(* A caller inside a call has its question and an adapter to try. *)
BusyAsks == \A c \in Callers : pc[c] # "idle" => asked[c] \in Questions /\ todo[c] # <<>>

(* Every cached answer is kept under the key of its question. *)
CacheKeyed == \A k \in DOMAIN cache : cache[k].of \in Questions /\ k = Key(cache[k].of)

(* The ticks a source's requests stand for. *)
Paid(s) == Len(sent[s]) * Grain

Account == \A s \in Sources : last[s] <= now /\ Paid(s) + tokens[s] <= Cap + last[s] + now

SleepersAccount ==
    \A c \in Callers : pc[c] = "asleep" =>
        LET s == Head(todo[c])
        IN  /\ wake = last[s] + Grain - tokens[s]
            /\ Paid(s) + tokens[s] <= Cap + 2 * last[s]

IInv ==
    /\ TypeOK
    /\ HolderSleeps
    /\ BusyAsks
    /\ CacheKeyed
    /\ Account
    /\ SleepersAccount

(* Buckets are counted in natural numbers. *)
LEMMA CapNat == Cap \in Nat
  BY DEF Cap

(* What a busy caller is trying is an adapter, and what is left a list. *)
LEMMA CurrentSource ==
    ASSUME TypeOK, BusyAsks, NEW c \in Callers, pc[c] # "idle"
    PROVE  /\ Head(todo[c]) \in Sources
           /\ Tail(todo[c]) \in Seq(Sources)
  BY HeadTailProperties DEF TypeOK, BusyAsks

(* A request let through adds one token to what its source has paid. *)
LEMMA PaidStep ==
    ASSUME TypeOK, NEW s \in Sources, NEW c \in Callers, LetThrough(c, s)
    PROVE  /\ sent' \in [Sources -> Seq(Nat)]
           /\ Paid(s)' = Paid(s) + Grain
           /\ \A t \in Sources \ {s} : Paid(t)' = Paid(t)
<1>1. /\ sent[s] \in Seq(Nat) /\ now \in Nat
      /\ sent' = [sent EXCEPT ![s] = Append(sent[s], now)]
  BY DEF TypeOK, LetThrough
<1>2. Append(sent[s], now) \in Seq(Nat) /\ Len(Append(sent[s], now)) = Len(sent[s]) + 1
  BY <1>1, AppendProperties
<1>3. sent' \in [Sources -> Seq(Nat)]
  BY <1>1, <1>2 DEF TypeOK
<1>4. sent'[s] = Append(sent[s], now) /\ \A t \in Sources \ {s} : sent'[t] = sent[t]
  BY <1>1 DEF TypeOK
<1>5. Len(sent[s]) \in Nat
  BY <1>1, LenProperties
<1>6. (Len(sent[s]) + 1) * Grain = Len(sent[s]) * Grain + Grain
  BY <1>5
<1>7. QED
  BY <1>2, <1>3, <1>4, <1>6 DEF Paid

(* What a source has paid is a natural number. *)
LEMMA PaidNat == ASSUME TypeOK PROVE \A s \in Sources : Paid(s) \in Nat
<1>1. \A s \in Sources : Len(sent[s]) \in Nat
  BY LenProperties DEF TypeOK
<1>2. QED
  BY <1>1 DEF Paid

(* The account bounds what a source let through: the rate's bound. *)
LEMMA RateFollows == IInv => AdmittedBounded
<1>1. SUFFICES ASSUME IInv, NEW s \in Sources PROVE Len(sent[s]) * Grain <= Cap + 2 * now
  BY DEF AdmittedBounded
<1>2. Paid(s) + tokens[s] <= Cap + last[s] + now /\ last[s] <= now
  BY <1>1 DEF IInv, Account
<1>3. tokens[s] \in Nat /\ last[s] \in Nat /\ now \in Nat /\ Paid(s) \in Nat
  BY <1>1, PaidNat DEF IInv, TypeOK
<1>4. QED
  BY <1>2, <1>3, CapNat DEF Paid

(* Two questions have one key only if they are one, or alike. *)
LEMMA KeysApart ==
    ASSUME NEW q, NEW r, Key(q) = Key(r)
    PROVE  r = q \/ Alike(q, r)
<1>1. CASE q.about \in PartlyKeyed /\ r.about \in PartlyKeyed
  BY <1>1 DEF Key, Alike
<1>2. CASE q.about \in PartlyKeyed /\ r.about \notin PartlyKeyed
  <2>1. r = [about |-> q.about, of |-> q.of]
    BY <1>2 DEF Key
  <2>2. QED
    BY <2>1, <1>2
<1>3. CASE q.about \notin PartlyKeyed /\ r.about \in PartlyKeyed
  <2>1. q = [about |-> r.about, of |-> r.of]
    BY <1>3 DEF Key
  <2>2. QED
    BY <2>1, <1>3
<1>4. CASE q.about \notin PartlyKeyed /\ r.about \notin PartlyKeyed
  BY <1>4 DEF Key
<1>5. QED
  BY <1>1, <1>2, <1>3, <1>4

(* An answer under the key of a question fits it. *)
LEMMA FitFollows == IInv => AnswersFit
<1>1. SUFFICES ASSUME IInv, NEW q \in Questions, Fresh(q)
               PROVE  cache[Key(q)].of = q \/ Alike(q, cache[Key(q)].of)
  BY DEF AnswersFit
<1>2. Key(q) = Key(cache[Key(q)].of)
  BY <1>1 DEF IInv, CacheKeyed, Fresh
<1>3. QED
  BY <1>2, KeysApart

(* At the start nothing was asked. *)
LEMMA InitIInv == Init => IInv
<1>1. SUFFICES ASSUME Init PROVE IInv
  OBVIOUS
<1>2. \A s \in Sources : Len(sent[s]) = 0
  BY <1>1 DEF Init
<1>3. \A s \in Sources : Paid(s) = 0
  BY <1>2 DEF Paid
<1>4. TypeOK
  BY <1>1, CapNat DEF Init, TypeOK
<1>5. HolderSleeps /\ BusyAsks /\ SleepersAccount
  BY <1>1 DEF Init, HolderSleeps, BusyAsks, SleepersAccount
<1>6. CacheKeyed
  BY <1>1 DEF Init, CacheKeyed
<1>7. Account
  BY <1>1, <1>3, CapNat DEF Init, Account
<1>8. QED
  BY <1>4, <1>5, <1>6, <1>7 DEF IInv

(* The refilled bucket is no fuller than full and gains the time passed. *)
LEMMA RefillBounds ==
    ASSUME TypeOK, Account, NEW s \in Sources
    PROVE  /\ Refilled(s) \in 0 .. Cap
           /\ Refilled(s) <= tokens[s] + (now - last[s])
  BY CapNat DEF TypeOK, Account, Refilled, Least

(* A question answered from the cache changes nothing but the count. *)
LEMMA HitIInv ==
    ASSUME IInv, NEW c \in Callers, NEW q \in Questions, Hit(c, q)
    PROVE  IInv'
<1>1. UNCHANGED <<now, tokens, last, wake, sent, line, pc, asked, todo, cache>> /\ asks' \in Nat
  BY DEF Hit, limiter, IInv, TypeOK
<1>2. QED
  BY <1>1 DEF IInv, TypeOK, HolderSleeps, BusyAsks, CacheKeyed, Account, SleepersAccount, Paid

(* A caller that joins the line is awake and stands behind the holder. *)
LEMMA JoinHolder ==
    ASSUME IInv, NEW c \in Callers, pc[c] # "asleep", line' = Append(line, c),
           pc' = [pc EXCEPT ![c] = "queued"]
    PROVE  /\ line' \in Seq(Callers)
           /\ HolderSleeps'
<1>1. line \in Seq(Callers) /\ line' \in Seq(Callers)
  BY AppendProperties DEF IInv, TypeOK
<1>2. line # <<>> => line' # <<>> /\ Head(line') = Head(line)
  BY <1>1, AppendProperties, EmptySeq
<1>3. \A b \in Callers : pc'[b] = "asleep" => pc[b] = "asleep"
  BY DEF IInv, TypeOK
<1>4. QED
  BY <1>1, <1>2, <1>3 DEF IInv, HolderSleeps

(* A question that misses the cache puts its caller in line. *)
LEMMA MissIInv ==
    ASSUME IInv, NEW c \in Callers, NEW q \in Questions, Miss(c, q)
    PROVE  IInv'
<1>1. UNCHANGED <<now, tokens, last, wake, sent, cache>> /\ asks' \in Nat
  BY DEF Miss, limiter, IInv, TypeOK
<1>2. line' \in Seq(Callers) /\ HolderSleeps'
  BY JoinHolder DEF Miss
<1>3. Registry[q] \in Seq(Sources) /\ Registry[q] # <<>>
  BY RegistryAssumption
<1>4. TypeOK'
  BY <1>1, <1>2, <1>3 DEF IInv, TypeOK, Miss
<1>5. BusyAsks'
  BY <1>3 DEF IInv, TypeOK, BusyAsks, Miss
<1>6. \A b \in Callers : pc'[b] = "asleep" => pc[b] = "asleep" /\ todo'[b] = todo[b]
  BY DEF IInv, TypeOK, Miss
<1>7. CacheKeyed' /\ Account' /\ SleepersAccount'
  BY <1>1, <1>6 DEF IInv, CacheKeyed, Account, SleepersAccount, Paid
<1>8. QED
  BY <1>2, <1>4, <1>5, <1>7 DEF IInv

(* Only the holder can be asleep, so nobody is once it leaves the line. *)
LEMMA LeaveHolder ==
    ASSUME IInv, NEW c \in Callers, NEW s, LetThrough(c, s), line # <<>>, Head(line) = c
    PROVE  /\ line' \in Seq(Callers)
           /\ \A b \in Callers : pc'[b] # "asleep"
<1>1. line' \in Seq(Callers)
  BY HeadTailProperties DEF IInv, TypeOK, LetThrough
<1>2. \A b \in Callers : pc[b] = "asleep" => b = c
  BY DEF IInv, HolderSleeps
<1>3. QED
  BY <1>1, <1>2 DEF IInv, TypeOK, LetThrough

(* A token taken is paid out of the refilled bucket. *)
LEMMA PassIInv ==
    ASSUME IInv, NEW c \in Callers, Pass(c)
    PROVE  IInv'
<1>1. PICK s \in Sources : s = Head(todo[c])
  BY CurrentSource DEF IInv, Pass
<1>2. /\ LetThrough(c, s) /\ line # <<>> /\ Head(line) = c /\ Refilled(s) >= Grain
      /\ tokens' = [tokens EXCEPT ![s] = Refilled(s) - Grain]
      /\ last' = [last EXCEPT ![s] = now]
      /\ UNCHANGED <<now, wake, asked, todo, cache, asks>>
      /\ pc[c] = "queued"
  BY <1>1 DEF Pass
<1>3. line' \in Seq(Callers) /\ \A b \in Callers : pc'[b] # "asleep"
  BY <1>2, LeaveHolder
<1>4. Refilled(s) \in 0 .. Cap /\ Refilled(s) <= tokens[s] + (now - last[s])
  BY <1>1, RefillBounds DEF IInv
<1>5. Paid(s)' = Paid(s) + Grain /\ \A t \in Sources \ {s} : Paid(t)' = Paid(t)
  BY <1>1, <1>2, PaidStep DEF IInv
<1>6. TypeOK'
  <2>1. Refilled(s) - Grain \in 0 .. Cap
    BY <1>2, <1>4, CapNat
  <2>2. tokens' \in [Sources -> 0 .. Cap] /\ last' \in [Sources -> Nat]
    BY <1>1, <1>2, <2>1 DEF IInv, TypeOK
  <2>3. pc' \in [Callers -> {"idle", "queued", "asleep", "fetching"}]
    BY <1>2 DEF IInv, TypeOK, LetThrough
  <2>4. sent' \in [Sources -> Seq(Nat)]
    BY <1>1, <1>2, PaidStep DEF IInv
  <2>5. QED
    BY <1>2, <1>3, <2>2, <2>3, <2>4 DEF IInv, TypeOK
<1>7. HolderSleeps' /\ SleepersAccount'
  BY <1>3 DEF HolderSleeps, SleepersAccount
<1>8. BusyAsks' /\ CacheKeyed'
  BY <1>2 DEF IInv, TypeOK, BusyAsks, CacheKeyed, LetThrough
<1>9. Account'
  <2>1. SUFFICES ASSUME NEW t \in Sources
                 PROVE  last'[t] <= now' /\ Paid(t)' + tokens'[t] <= Cap + last'[t] + now'
    BY DEF Account
  <2>2. CASE t = s
    <3>1. last'[s] = now /\ tokens'[s] = Refilled(s) - Grain /\ now' = now
      BY <1>1, <1>2 DEF IInv, TypeOK
    <3>2. Paid(s) + tokens[s] <= Cap + last[s] + now
      BY <1>1 DEF IInv, Account
    <3>3. Paid(s) \in Nat /\ tokens[s] \in Nat /\ last[s] \in Nat /\ now \in Nat
      BY <1>1, PaidNat DEF IInv, TypeOK
    <3>4. Refilled(s) \in Nat /\ Paid(s) + Refilled(s) <= Cap + now + now
      <4>1. Refilled(s) \in Nat
        BY <1>4, CapNat
      <4>2. QED
        BY <1>4, <3>2, <3>3, <4>1, CapNat
    <3>5. Paid(s)' + tokens'[s] = Paid(s) + Refilled(s)
      <4>1. Paid(s)' = Paid(s) + Grain /\ tokens'[s] = Refilled(s) - Grain
        BY <1>5, <3>1
      <4>2. Paid(s) \in Nat /\ Refilled(s) \in Nat /\ Grain \in Nat
        BY <3>3, <3>4
      <4>3. QED
        BY <4>1, <4>2
    <3>6. last'[s] <= now' /\ Cap + last'[s] + now' = Cap + now + now
      BY <3>1, <3>3
    <3>7. QED
      BY <2>2, <3>4, <3>5, <3>6
  <2>3. CASE t # s
    BY <1>1, <1>2, <1>5, <2>3 DEF IInv, TypeOK, Account
  <2>4. QED
    BY <2>2, <2>3
<1>10. QED
  BY <1>6, <1>7, <1>8, <1>9 DEF IInv

(* A holder that falls asleep is short of what it sleeps for. *)
LEMMA SleepIInv ==
    ASSUME IInv, NEW c \in Callers, Sleep(c)
    PROVE  IInv'
<1>1. PICK s \in Sources : s = Head(todo[c])
  BY CurrentSource DEF IInv, Sleep
<1>2. /\ line # <<>> /\ Head(line) = c /\ Refilled(s) < Grain
      /\ tokens' = [tokens EXCEPT ![s] = Refilled(s)]
      /\ last' = [last EXCEPT ![s] = now]
      /\ wake' = now + Grain - Refilled(s)
      /\ pc' = [pc EXCEPT ![c] = "asleep"]
      /\ UNCHANGED <<now, line, asked, todo, cache, sent, asks>>
      /\ pc[c] = "queued"
  BY <1>1 DEF Sleep
<1>3. Refilled(s) \in 0 .. Cap /\ Refilled(s) <= tokens[s] + (now - last[s])
  BY <1>1, RefillBounds DEF IInv
<1>4. \A t \in Sources : Paid(t)' = Paid(t)
  BY <1>2 DEF Paid
<1>5. TypeOK'
  <2>1. wake' \in Nat
    BY <1>2, <1>3, CapNat DEF IInv, TypeOK
  <2>2. tokens' \in [Sources -> 0 .. Cap] /\ last' \in [Sources -> Nat]
    BY <1>1, <1>2, <1>3 DEF IInv, TypeOK
  <2>3. pc' \in [Callers -> {"idle", "queued", "asleep", "fetching"}]
    BY <1>2 DEF IInv, TypeOK
  <2>4. QED
    BY <1>2, <2>1, <2>2, <2>3 DEF IInv, TypeOK
<1>6. \A b \in Callers : pc'[b] = "asleep" => b = c
  BY <1>2 DEF IInv, TypeOK, HolderSleeps
<1>7. HolderSleeps' /\ BusyAsks' /\ CacheKeyed'
  BY <1>2, <1>6 DEF IInv, TypeOK, HolderSleeps, BusyAsks, CacheKeyed
<1>8. /\ last'[s] = now /\ tokens'[s] = Refilled(s)
      /\ Paid(s) + tokens[s] <= Cap + last[s] + now
      /\ Paid(s) \in Nat /\ tokens[s] \in Nat /\ last[s] \in Nat /\ now \in Nat
  BY <1>1, <1>2, PaidNat DEF IInv, TypeOK, Account
<1>9. Paid(s)' + tokens'[s] <= Cap + 2 * last'[s]
  <2>1. Refilled(s) \in Nat /\ Paid(s) + Refilled(s) <= Cap + 2 * now
    BY <1>3, <1>8, CapNat
  <2>2. QED
    BY <1>1, <1>4, <1>8, <2>1
<1>10. SleepersAccount'
  BY <1>1, <1>2, <1>6, <1>8, <1>9 DEF SleepersAccount
<1>11. Account'
  <2>1. SUFFICES ASSUME NEW t \in Sources
                 PROVE  last'[t] <= now' /\ Paid(t)' + tokens'[t] <= Cap + last'[t] + now'
    BY DEF Account
  <2>2. CASE t = s
    <3>1. last'[s] = now /\ now' = now /\ now \in Nat /\ Cap \in Nat
      BY <1>2, <1>8, CapNat
    <3>2. Paid(s)' \in Nat /\ tokens'[s] \in Nat
      BY <1>3, <1>4, <1>8, CapNat
    <3>3. QED
      BY <1>9, <2>2, <3>1, <3>2
  <2>3. CASE t # s
    BY <1>1, <1>2, <1>4, <2>3 DEF IInv, TypeOK, Account
  <2>4. QED
    BY <2>2, <2>3
<1>12. QED
  BY <1>5, <1>7, <1>10, <1>11 DEF IInv

(* The arithmetic of a wake-up: what the bucket lacked is covered by the *)
(* time slept.                                                           *)
LEMMA SleepPays ==
    ASSUME NEW paid \in Nat, NEW held \in Nat, NEW then \in Nat, NEW t \in Nat,
           NEW grain \in Nat, NEW cap \in Nat,
           then + grain - held <= t, paid + held <= cap + 2 * then
    PROVE  paid + grain <= cap + then + t
  OBVIOUS

(* A sleeper pays with its sleep, which is not longer than the time since *)
(* the last refill. *)
LEMMA WakeIInv ==
    ASSUME IInv, NEW c \in Callers, Wake(c)
    PROVE  IInv'
<1>1. PICK s \in Sources : s = Head(todo[c])
  BY CurrentSource DEF IInv, Wake
<1>2. /\ LetThrough(c, s) /\ line # <<>> /\ Head(line) = c /\ now >= wake
      /\ tokens' = [tokens EXCEPT ![s] = 0]
      /\ UNCHANGED <<now, last, wake, asked, todo, cache, asks>>
      /\ pc[c] = "asleep"
  BY <1>1 DEF Wake, IInv, HolderSleeps
<1>3. line' \in Seq(Callers) /\ \A b \in Callers : pc'[b] # "asleep"
  BY <1>2, LeaveHolder
<1>4. Paid(s)' = Paid(s) + Grain /\ \A t \in Sources \ {s} : Paid(t)' = Paid(t)
  BY <1>1, <1>2, PaidStep DEF IInv
<1>5. TypeOK'
  <2>1. tokens' \in [Sources -> 0 .. Cap]
    BY <1>1, <1>2, CapNat DEF IInv, TypeOK
  <2>2. pc' \in [Callers -> {"idle", "queued", "asleep", "fetching"}]
    BY <1>2 DEF IInv, TypeOK, LetThrough
  <2>3. sent' \in [Sources -> Seq(Nat)]
    BY <1>1, <1>2, PaidStep DEF IInv
  <2>4. QED
    BY <1>2, <1>3, <2>1, <2>2, <2>3 DEF IInv, TypeOK
<1>6. HolderSleeps' /\ SleepersAccount'
  BY <1>3 DEF HolderSleeps, SleepersAccount
<1>7. BusyAsks' /\ CacheKeyed'
  BY <1>2 DEF IInv, TypeOK, BusyAsks, CacheKeyed, LetThrough
<1>8. Account'
  <2>1. SUFFICES ASSUME NEW t \in Sources
                 PROVE  last'[t] <= now' /\ Paid(t)' + tokens'[t] <= Cap + last'[t] + now'
    BY DEF Account
  <2>2. CASE t = s
    <3>1. last'[s] = last[s] /\ tokens'[s] = 0 /\ now' = now
      BY <1>1, <1>2 DEF IInv, TypeOK
    <3>2. /\ last[s] <= now /\ wake = last[s] + Grain - tokens[s]
          /\ Paid(s) + tokens[s] <= Cap + 2 * last[s]
      BY <1>1, <1>2 DEF IInv, Account, SleepersAccount
    <3>3. Paid(s) \in Nat /\ tokens[s] \in Nat /\ last[s] \in Nat /\ now \in Nat
      BY <1>1, PaidNat DEF IInv, TypeOK
    <3>4. now >= wake
      BY <1>2
    <3>5. Paid(s) + Grain <= Cap + last[s] + now
      BY <3>2, <3>3, <3>4, CapNat, SleepPays
    <3>6. Paid(s)' + tokens'[s] = Paid(s) + Grain
      BY <1>4, <3>1, <3>3
    <3>7. last'[s] <= now' /\ Cap + last'[s] + now' = Cap + last[s] + now
      BY <3>1, <3>2
    <3>8. QED
      BY <2>2, <3>5, <3>6, <3>7
  <2>3. CASE t # s
    BY <1>1, <1>2, <1>4, <2>3 DEF IInv, TypeOK, Account
  <2>4. QED
    BY <2>2, <2>3
<1>9. QED
  BY <1>5, <1>6, <1>7, <1>8 DEF IInv

(* An answer is cached under the key of the question its caller asked. *)
LEMMA AnswerIInv ==
    ASSUME IInv, NEW c \in Callers, Answer(c)
    PROVE  IInv'
<1> DEFINE q == asked[c]
<1>1. UNCHANGED <<now, tokens, last, wake, sent, line, asks>> /\ pc[c] = "fetching"
  BY DEF Answer, limiter
<1>2. /\ todo' = [todo EXCEPT ![c] = <<>>] /\ asked' = [asked EXCEPT ![c] = Nothing]
      /\ pc' = [pc EXCEPT ![c] = "idle"]
  BY DEF Answer
<1>3. PICK keys \in SUBSET (DOMAIN cache \cup {Key(q)}) :
        cache' = [k \in keys |-> IF k = Key(q) THEN [of |-> q, at |-> now] ELSE cache[k]]
  BY DEF Answer, Live
<1>4. q \in Questions
  BY <1>1 DEF IInv, BusyAsks
<1>5. TypeOK'
  BY <1>1, <1>2 DEF IInv, TypeOK
<1>6. HolderSleeps' /\ BusyAsks'
  BY <1>1, <1>2 DEF IInv, TypeOK, HolderSleeps, BusyAsks
<1>7. CacheKeyed'
  <2>1. SUFFICES ASSUME NEW k \in DOMAIN cache'
                 PROVE  cache'[k].of \in Questions /\ k = Key(cache'[k].of)
    BY DEF CacheKeyed, Key
  <2>2. k \in keys /\ cache'[k] = IF k = Key(q) THEN [of |-> q, at |-> now] ELSE cache[k]
    BY <1>3, <2>1
  <2>3. CASE k = Key(q)
    BY <1>4, <2>2, <2>3
  <2>4. CASE k # Key(q)
    BY <1>3, <2>2, <2>4 DEF IInv, CacheKeyed
  <2>5. QED
    BY <2>3, <2>4
<1>8. Account' /\ SleepersAccount'
  BY <1>1, <1>2 DEF IInv, TypeOK, Account, SleepersAccount, Paid
<1>9. QED
  BY <1>5, <1>6, <1>7, <1>8 DEF IInv

(* A failed request changes neither buckets nor cache. *)
LEMMA FailIInv ==
    ASSUME IInv, NEW c \in Callers, Fail(c)
    PROVE  IInv'
<1>1. /\ UNCHANGED <<now, tokens, last, wake, sent, cache, asks>> /\ pc[c] = "fetching"
      /\ todo' = [todo EXCEPT ![c] = Tail(todo[c])]
  BY DEF Fail, limiter
<1>2. Tail(todo[c]) \in Seq(Sources)
  BY <1>1, CurrentSource DEF IInv
<1>3. CacheKeyed' /\ Account'
  BY <1>1 DEF IInv, CacheKeyed, Account, Paid
<1>4. ASSUME pc' = [pc EXCEPT ![c] = "queued"] \/ pc' = [pc EXCEPT ![c] = "idle"]
      PROVE  SleepersAccount'
  BY <1>1, <1>4 DEF IInv, TypeOK, SleepersAccount, Paid
<1>5. CASE Tail(todo[c]) # <<>> /\ UNCHANGED asked
           /\ pc' = [pc EXCEPT ![c] = "queued"] /\ line' = Append(line, c)
  <2>1. line' \in Seq(Callers) /\ HolderSleeps'
    BY <1>1, <1>5, JoinHolder
  <2>2. TypeOK'
    BY <1>1, <1>2, <1>5, <2>1 DEF IInv, TypeOK
  <2>3. BusyAsks'
    BY <1>1, <1>5 DEF IInv, TypeOK, BusyAsks
  <2>4. QED
    BY <1>3, <1>4, <1>5, <2>1, <2>2, <2>3 DEF IInv
<1>6. CASE /\ pc' = [pc EXCEPT ![c] = "idle"] /\ asked' = [asked EXCEPT ![c] = Nothing]
           /\ UNCHANGED line
  <2>1. TypeOK'
    BY <1>1, <1>2, <1>6 DEF IInv, TypeOK
  <2>2. HolderSleeps' /\ BusyAsks'
    BY <1>1, <1>6 DEF IInv, TypeOK, HolderSleeps, BusyAsks
  <2>3. QED
    BY <1>3, <1>4, <1>6, <2>1, <2>2 DEF IInv
<1>7. QED
  BY <1>5, <1>6 DEF Fail

(* The passing of time only loosens the accounts. *)
LEMMA TickIInv == ASSUME IInv, Tick PROVE IInv'
<1>1. /\ now' = now + 1
      /\ UNCHANGED <<tokens, last, wake, sent, line, pc, asked, todo, cache, asks>>
  BY DEF Tick, limiter
<1>2. \A s \in Sources : Paid(s)' = Paid(s)
  BY <1>1 DEF Paid
<1>3. TypeOK' /\ HolderSleeps' /\ BusyAsks' /\ CacheKeyed'
  BY <1>1 DEF IInv, TypeOK, HolderSleeps, BusyAsks, CacheKeyed
<1>4. Account'
  BY <1>1, <1>2, PaidNat, CapNat DEF IInv, TypeOK, Account
<1>5. SleepersAccount'
  BY <1>1 DEF IInv, SleepersAccount, Paid
<1>6. QED
  BY <1>3, <1>4, <1>5 DEF IInv

(* Every step of every caller, and of the clock, keeps the invariant. *)
LEMMA NextIInv == IInv /\ [Next]_vars => IInv'
<1>1. SUFFICES ASSUME IInv, [Next]_vars PROVE IInv'
  OBVIOUS
<1>2. CASE Tick
  BY <1>1, <1>2, TickIInv
<1>3. ASSUME NEW c \in Callers, Ask(c) PROVE IInv'
  BY <1>1, <1>3, HitIInv, MissIInv DEF Ask
<1>4. ASSUME NEW c \in Callers, Step(c) PROVE IInv'
  BY <1>1, <1>4, PassIInv, SleepIInv, WakeIInv, AnswerIInv, FailIInv DEF Step
<1>5. CASE UNCHANGED vars
  BY <1>1, <1>5 DEF vars, IInv, TypeOK, HolderSleeps, BusyAsks, CacheKeyed, Account,
                    SleepersAccount, Paid
<1>6. QED
  BY <1>1, <1>2, <1>3, <1>4, <1>5 DEF Next

(* For any number of concurrent callers, however they interleave and however *)
(* late a sleeper wakes, the limiter lets through no more than a bucket and  *)
(* twice the rate, and the cache answers no question with another's answer   *)
(* (rate_limiter.py acquire, service.py's cache keys).                       *)
THEOREM PlatformIsSound == Spec => []PlatformSound
<1>1. Init => IInv
  BY InitIInv
<1>2. IInv /\ [Next]_vars => IInv'
  BY NextIInv
<1>3. IInv => PlatformSound
  BY RateFollows, FitFollows DEF IInv, PlatformSound
<1>4. QED
  BY <1>1, <1>2, <1>3, PTL DEF Spec
-----------------------------------------------------------------------------
(* Bursts.  The account is kept from every request on: what its source let  *)
(* through since, and what is left in the bucket, is covered by a bucket, a *)
(* token and the time since, which counts twice up to the last refill.  A   *)
(* request that was slept for may come after the last refill; it then is    *)
(* the last request, and the bucket is empty.                               *)

Since(s, i) == (Len(sent[s]) - i + 1) * Grain
Covered(s, i, time) == Since(s, i) + tokens[s] + 2 * sent[s][i] <= Cap + Grain + last[s] + time

Windows ==
    \A s \in Sources : \A i \in DOMAIN sent[s] :
        /\ sent[s][i] <= now
        /\ \/ sent[s][i] <= last[s] /\ Covered(s, i, now)
           \/ i = Len(sent[s]) /\ tokens[s] = 0

SleepersWindows ==
    \A c \in Callers : pc[c] = "asleep" =>
        LET s == Head(todo[c])
        IN  \A i \in DOMAIN sent[s] : sent[s][i] <= last[s] /\ Covered(s, i, last[s])

BInv == Windows /\ SleepersWindows /\ BurstBounded

(* The positions of a list of times. *)
LEMMA SentList ==
    ASSUME TypeOK, NEW s \in Sources
    PROVE  /\ Len(sent[s]) \in Nat /\ DOMAIN sent[s] = 1 .. Len(sent[s])
           /\ \A i \in DOMAIN sent[s] : /\ sent[s][i] \in Nat /\ i \in Nat /\ i <= Len(sent[s])
                                        /\ Since(s, i) \in Nat
<1>1. sent[s] \in Seq(Nat)
  BY DEF TypeOK
<1>2. PICK n \in Nat : n = Len(sent[s]) /\ DOMAIN sent[s] = 1 .. n
  BY <1>1
<1>3. ASSUME NEW i \in 1 .. n PROVE Since(s, i) \in Nat
  <2>1. PICK k \in Nat : k = n - i + 1
    OBVIOUS
  <2>2. k * Grain \in Nat
    OBVIOUS
  <2>3. QED
    BY <1>2, <2>1, <2>2 DEF Since
<1>4. QED
  BY <1>1, <1>2, <1>3

(* A refill leaves every request covered by the time now alone. *)
LEMMA RefillCovers ==
    ASSUME TypeOK, Account, Windows, NEW s \in Sources, NEW i \in DOMAIN sent[s]
    PROVE  Since(s, i) + Refilled(s) + 2 * sent[s][i] <= Cap + Grain + now + now
<1>1. PICK t \in Nat, since \in Nat : t = sent[s][i] /\ since = Since(s, i)
  BY SentList
<1>2. PICK r \in Nat : r = Refilled(s) /\ r <= Cap /\ r <= tokens[s] + (now - last[s])
  BY RefillBounds, CapNat
<1>3. PICK held \in Nat, then \in Nat, time \in Nat : held = tokens[s] /\ then = last[s] /\ time = now
  BY CapNat DEF TypeOK
<1>4. t <= time /\ r <= held + (time - then)
  BY <1>1, <1>2, <1>3 DEF Windows
<1>5. SUFFICES since + r + 2 * t <= Cap + Grain + time + time
  BY <1>1, <1>2, <1>3
<1>6. CASE Covered(s, i, now)
  <2>1. since + held + 2 * t <= Cap + Grain + then + time
    BY <1>1, <1>3, <1>6 DEF Covered
  <2>2. QED
    BY <1>4, <2>1, CapNat
<1>7. CASE i = Len(sent[s])
  <2>1. since = Grain
    BY <1>1, <1>7, SentList DEF Since
  <2>2. QED
    BY <1>2, <1>4, <2>1, CapNat
<1>8. QED
  BY <1>6, <1>7 DEF Windows

(* A request let through is one more since each earlier one, and the first *)
(* since itself. *)
LEMMA SinceStep ==
    ASSUME TypeOK, NEW s \in Sources, NEW c \in Callers, LetThrough(c, s)
    PROVE  /\ DOMAIN sent'[s] = DOMAIN sent[s] \cup {Len(sent[s]) + 1}
           /\ Len(sent[s]) + 1 \notin DOMAIN sent[s]
           /\ Len(sent'[s]) = Len(sent[s]) + 1
           /\ \A i \in DOMAIN sent[s] : sent'[s][i] = sent[s][i] /\ Since(s, i)' = Since(s, i) + Grain
           /\ sent'[s][Len(sent[s]) + 1] = now
           /\ \A n : n = Len(sent[s]) + 1 => Since(s, n)' = Grain
           /\ \A t \in Sources \ {s} : sent'[t] = sent[t] /\ \A i : Since(t, i)' = Since(t, i)
<1>1. sent[s] \in Seq(Nat) /\ sent' = [sent EXCEPT ![s] = Append(sent[s], now)]
      /\ DOMAIN sent = Sources
  BY DEF TypeOK, LetThrough
<1>2. PICK n \in Nat : n = Len(sent[s]) /\ DOMAIN sent[s] = 1 .. n
  BY <1>1
<1>3. PICK q : q = Append(sent[s], now)
  OBVIOUS
<1>4. sent'[s] = q /\ \A t \in Sources \ {s} : sent'[t] = sent[t]
  BY <1>1, <1>3
<1>5. /\ Len(q) = n + 1 /\ DOMAIN q = 1 .. n + 1 /\ q[n + 1] = now
      /\ \A i \in 1 .. n : q[i] = sent[s][i]
  BY <1>1, <1>2, <1>3
<1>6. ASSUME NEW i \in 1 .. n PROVE Since(s, i)' = Since(s, i) + Grain
  <2>1. (n + 1 - i + 1) * Grain = (n - i + 1) * Grain + Grain
    OBVIOUS
  <2>2. Since(s, i)' = (n + 1 - i + 1) * Grain
    BY <1>4, <1>5 DEF Since
  <2>3. QED
    BY <1>2, <2>1, <2>2 DEF Since
<1>7. Since(s, n + 1)' = Grain
  BY <1>4, <1>5 DEF Since
<1>8. \A t \in Sources \ {s} : \A i : Since(t, i)' = Since(t, i)
  BY <1>4 DEF Since
<1>9. DOMAIN sent'[s] = DOMAIN sent[s] \cup {n + 1} /\ n + 1 \notin DOMAIN sent[s]
  <2>1. 1 .. n + 1 = 1 .. n \cup {n + 1} /\ n + 1 \notin 1 .. n
    OBVIOUS
  <2>2. QED
    BY <1>2, <1>4, <1>5, <2>1
<1>10. Len(sent'[s]) = n + 1 /\ sent'[s][n + 1] = now
       /\ \A i \in 1 .. n : sent'[s][i] = sent[s][i]
  BY <1>4, <1>5
<1>11. QED
  BY <1>2, <1>4, <1>6, <1>7, <1>8, <1>9, <1>10

(* If every request is covered by the time now when one is let through, no *)
(* burst that ends with it is too large. *)
LEMMA BurstStep ==
    ASSUME TypeOK, BurstBounded, NEW s \in Sources, NEW c \in Callers, LetThrough(c, s),
           \A i \in DOMAIN sent[s] : Since(s, i) + Grain + 2 * sent[s][i] <= Cap + Grain + now + now
    PROVE  BurstBounded'
<1>1. SUFFICES ASSUME NEW t \in Sources, NEW i \in DOMAIN sent'[t], NEW j \in DOMAIN sent'[t], i <= j
               PROVE  (j - i + 1) * Grain <= Cap + Grain + 2 * (sent'[t][j] - sent'[t][i])
  BY DEF BurstBounded, Cap
<1>2. CASE t # s
  BY <1>1, <1>2, SinceStep DEF BurstBounded
<1>3. CASE t = s
  <2>1. PICK n \in Nat : n = Len(sent[s]) /\ DOMAIN sent[s] = 1 .. n
    BY SentList
  <2>2. /\ DOMAIN sent'[s] = 1 .. n + 1 /\ sent'[s][n + 1] = now
        /\ \A k \in 1 .. n : sent'[s][k] = sent[s][k] /\ sent[s][k] \in Nat
    BY <2>1, SinceStep, SentList
  <2>3. PICK time \in Nat : time = now
    BY DEF TypeOK
  <2>4. CASE j \in 1 .. n
    <3>1. i \in 1 .. n
      BY <1>1, <1>3, <2>2, <2>4
    <3>2. QED
      BY <1>1, <1>3, <2>1, <2>2, <2>4, <3>1 DEF BurstBounded
  <2>5. CASE j = n + 1 /\ i \in 1 .. n
    <3>1. PICK since \in Nat, then \in Nat : since = Since(s, i) /\ then = sent[s][i]
      BY <2>1, <2>5, SentList
    <3>2. since = (n - i + 1) * Grain
      BY <2>1, <3>1 DEF Since
    <3>3. (n + 1 - i + 1) * Grain = (n - i + 1) * Grain + Grain
      BY <2>5
    <3>4. since + Grain + 2 * then <= Cap + Grain + time + time
      BY <2>1, <2>3, <2>5, <3>1
    <3>5. since + Grain <= Cap + Grain + 2 * (time - then)
      BY <3>4, CapNat
    <3>6. QED
      BY <1>3, <2>2, <2>3, <2>5, <3>1, <3>2, <3>3, <3>5
  <2>6. CASE j = n + 1 /\ i = n + 1
    BY <1>3, <2>2, <2>3, <2>6, CapNat
  <2>7. QED
    BY <1>1, <1>3, <2>2, <2>4, <2>5, <2>6
<1>4. QED
  BY <1>2, <1>3

(* Nobody sleeps once the holder has left, and other sources are as before. *)
LEMMA OtherWindows ==
    ASSUME IInv, Windows, NEW s \in Sources, NEW c \in Callers, LetThrough(c, s) \/ UNCHANGED sent,
           now' = now, \A t \in Sources \ {s} : tokens'[t] = tokens[t] /\ last'[t] = last[t],
           \A i \in DOMAIN sent'[s] :
              /\ sent'[s][i] <= now
              /\ \/ sent'[s][i] <= last'[s] /\ Covered(s, i, now)'
                 \/ i = Len(sent'[s]) /\ tokens'[s] = 0
    PROVE  Windows'
<1>1. SUFFICES ASSUME NEW t \in Sources, NEW i \in DOMAIN sent'[t]
               PROVE  /\ sent'[t][i] <= now
                      /\ \/ sent'[t][i] <= last'[t] /\ Covered(t, i, now)'
                         \/ i = Len(sent'[t]) /\ tokens'[t] = 0
  BY DEF Windows
<1>2. CASE t = s
  BY <1>1, <1>2
<1>3. CASE t # s
  <2>1. sent'[t] = sent[t] /\ Since(t, i)' = Since(t, i)
    BY <1>3, SinceStep DEF IInv, Since
  <2>2. tokens'[t] = tokens[t] /\ last'[t] = last[t]
    BY <1>3
  <2>3. Covered(t, i, now)' = Covered(t, i, now)
    BY <2>1, <2>2 DEF Covered, Cap
  <2>4. QED
    BY <1>1, <2>1, <2>2, <2>3 DEF Windows
<1>4. QED
  BY <1>2, <1>3

(* A token taken at a refill is covered by the time now. *)
LEMMA PassBursts ==
    ASSUME IInv, BInv, NEW c \in Callers, Pass(c)
    PROVE  BInv'
<1>1. PICK s \in Sources : s = Head(todo[c])
  BY CurrentSource DEF IInv, Pass
<1>2. /\ LetThrough(c, s) /\ line # <<>> /\ Head(line) = c /\ Refilled(s) >= Grain
      /\ tokens' = [tokens EXCEPT ![s] = Refilled(s) - Grain]
      /\ last' = [last EXCEPT ![s] = now] /\ now' = now
  BY <1>1 DEF Pass
<1>3. PICK r \in Nat, time \in Nat : r = Refilled(s) /\ time = now /\ r <= Cap /\ r >= Grain
  <2>1. now \in Nat
    BY DEF IInv, TypeOK
  <2>2. Refilled(s) \in 0 .. Cap
    BY RefillBounds DEF IInv
  <2>3. QED
    BY <1>2, <2>1, <2>2, CapNat
<1>4. /\ tokens'[s] = r - Grain /\ last'[s] = time
      /\ \A t \in Sources \ {s} : tokens'[t] = tokens[t] /\ last'[t] = last[t]
  BY <1>2, <1>3 DEF IInv, TypeOK
<1>5. ASSUME NEW i \in DOMAIN sent[s]
      PROVE  /\ sent'[s][i] <= now /\ sent'[s][i] <= last'[s] /\ Covered(s, i, now)'
             /\ Since(s, i) + Grain + 2 * sent[s][i] <= Cap + Grain + now + now
  <2>1. PICK since \in Nat, then \in Nat : since = Since(s, i) /\ then = sent[s][i]
    BY <1>5, SentList DEF IInv
  <2>2. since + r + 2 * then <= Cap + Grain + time + time /\ then <= time
    BY <1>3, <1>5, <2>1, RefillCovers DEF IInv, BInv, Windows
  <2>3. sent'[s][i] = then /\ Since(s, i)' = since + Grain
    BY <1>2, <1>5, <2>1, SinceStep DEF IInv
  <2>4. Covered(s, i, now)' <=> since + Grain + (r - Grain) + 2 * then <= Cap + Grain + time + time
    BY <1>2, <1>3, <1>4, <2>3 DEF Covered, Cap
  <2>5. since + Grain + (r - Grain) + 2 * then <= Cap + Grain + time + time
    BY <2>2, CapNat
  <2>6. since + Grain + 2 * then <= Cap + Grain + time + time
    BY <1>3, <2>2, CapNat
  <2>7. QED
    BY <1>3, <1>4, <2>1, <2>2, <2>3, <2>4, <2>5, <2>6
<1>6. PICK n \in Nat : n = Len(sent[s]) + 1
  BY SentList DEF IInv
<1>7. sent'[s][n] <= now /\ sent'[s][n] <= last'[s] /\ Covered(s, n, now)'
  <2>1. sent'[s][n] = time /\ Since(s, n)' = Grain
    BY <1>2, <1>3, <1>6, SinceStep DEF IInv
  <2>2. Covered(s, n, now)' <=> Grain + (r - Grain) + 2 * time <= Cap + Grain + time + time
    BY <1>2, <1>3, <1>4, <2>1 DEF Covered, Cap
  <2>3. Grain + (r - Grain) + 2 * time <= Cap + Grain + time + time
    BY <1>3, CapNat
  <2>4. QED
    BY <1>3, <1>4, <2>1, <2>2, <2>3
<1>8. DOMAIN sent'[s] = DOMAIN sent[s] \cup {n}
  BY <1>2, <1>6, SinceStep DEF IInv
<1>9. Windows'
  BY <1>2, <1>4, <1>5, <1>7, <1>8, OtherWindows DEF BInv
<1>10. SleepersWindows'
  BY <1>2, LeaveHolder DEF SleepersWindows
<1>11. BurstBounded'
  BY <1>2, <1>5, BurstStep DEF IInv, BInv
<1>12. QED
  BY <1>9, <1>10, <1>11 DEF BInv

(* Falling asleep is a refill, after which every request is covered by the *)
(* time of that refill. *)
LEMMA SleepBursts ==
    ASSUME IInv, BInv, NEW c \in Callers, Sleep(c)
    PROVE  BInv'
<1>1. PICK s \in Sources : s = Head(todo[c])
  BY CurrentSource DEF IInv, Sleep
<1>2. /\ Head(line) = c
      /\ tokens' = [tokens EXCEPT ![s] = Refilled(s)]
      /\ last' = [last EXCEPT ![s] = now]
      /\ pc' = [pc EXCEPT ![c] = "asleep"]
      /\ UNCHANGED <<now, todo, sent>>
  BY <1>1 DEF Sleep
<1>3. PICK r \in Nat, time \in Nat : r = Refilled(s) /\ time = now
  BY <1>1, RefillBounds, CapNat DEF IInv, TypeOK
<1>4. /\ tokens'[s] = r /\ last'[s] = time
      /\ \A t \in Sources \ {s} : tokens'[t] = tokens[t] /\ last'[t] = last[t]
  BY <1>2, <1>3 DEF IInv, TypeOK
<1>5. ASSUME NEW i \in DOMAIN sent[s]
      PROVE  sent'[s][i] <= now /\ sent'[s][i] <= last'[s] /\ Covered(s, i, now)' /\ Covered(s, i, last[s])'
  <2>1. Since(s, i) + r + 2 * sent[s][i] <= Cap + Grain + time + time /\ sent[s][i] <= time
    BY <1>3, <1>5, RefillCovers DEF IInv, BInv, Windows
  <2>2. Since(s, i)' = Since(s, i) /\ sent'[s][i] = sent[s][i]
    BY <1>2 DEF Since
  <2>3. QED
    BY <1>2, <1>3, <1>4, <2>1, <2>2 DEF Covered, Cap
<1>6. Windows'
  BY <1>2, <1>4, <1>5, OtherWindows DEF BInv
<1>7. \A b \in Callers : pc'[b] = "asleep" => b = c
  BY <1>2 DEF IInv, TypeOK, HolderSleeps
<1>8. SleepersWindows'
  BY <1>1, <1>2, <1>5, <1>7 DEF SleepersWindows
<1>9. BurstBounded'
  BY <1>2 DEF BInv, BurstBounded, Cap
<1>10. QED
  BY <1>6, <1>8, <1>9 DEF BInv

(* A request slept for is covered by the sleep. *)
LEMMA WakeBursts ==
    ASSUME IInv, BInv, NEW c \in Callers, Wake(c)
    PROVE  BInv'
<1>1. PICK s \in Sources : s = Head(todo[c])
  BY CurrentSource DEF IInv, Wake
<1>2. /\ LetThrough(c, s) /\ line # <<>> /\ Head(line) = c /\ now >= wake
      /\ tokens' = [tokens EXCEPT ![s] = 0]
      /\ UNCHANGED <<now, last>> /\ pc[c] = "asleep"
  BY <1>1 DEF Wake, IInv, HolderSleeps
<1>3. PICK held \in Nat, then \in Nat, time \in Nat : held = tokens[s] /\ then = last[s] /\ time = now
  BY <1>1, CapNat DEF IInv, TypeOK
<1>4. then + Grain - held <= time /\ then <= time
  BY <1>1, <1>2, <1>3 DEF IInv, SleepersAccount, Account
<1>5. /\ tokens'[s] = 0 /\ last'[s] = then
      /\ \A t \in Sources \ {s} : tokens'[t] = tokens[t] /\ last'[t] = last[t]
  BY <1>2, <1>3, CapNat DEF IInv, TypeOK
<1>6. ASSUME NEW i \in DOMAIN sent[s]
      PROVE  /\ sent'[s][i] <= now /\ sent'[s][i] <= last'[s] /\ Covered(s, i, now)'
             /\ Since(s, i) + Grain + 2 * sent[s][i] <= Cap + Grain + now + now
  <2>1. PICK since \in Nat, t \in Nat : since = Since(s, i) /\ t = sent[s][i]
    BY <1>6, SentList DEF IInv
  <2>2. since + held + 2 * t <= Cap + Grain + then + then /\ t <= then
    BY <1>1, <1>2, <1>3, <1>6, <2>1 DEF BInv, SleepersWindows, Covered
  <2>3. since + Grain + 2 * t <= Cap + Grain + then + time
    BY <1>4, <2>2, CapNat
  <2>4. sent'[s][i] = t /\ Since(s, i)' = since + Grain
    BY <1>2, <1>6, <2>1, SinceStep DEF IInv
  <2>5. Covered(s, i, now)' <=> since + Grain + 0 + 2 * t <= Cap + Grain + then + time
    BY <1>2, <1>3, <1>5, <2>4 DEF Covered, Cap
  <2>6. since + Grain + 0 + 2 * t <= Cap + Grain + then + time
        /\ since + Grain + 2 * t <= Cap + Grain + time + time
    BY <1>4, <2>3, CapNat
  <2>7. t <= then /\ t <= time
    BY <1>4, <2>2
  <2>8. QED
    BY <1>3, <1>5, <2>1, <2>4, <2>5, <2>6, <2>7
<1>7. DOMAIN sent'[s] = DOMAIN sent[s] \cup {Len(sent[s]) + 1} /\ Len(sent'[s]) = Len(sent[s]) + 1
      /\ sent'[s][Len(sent[s]) + 1] = time
  BY <1>2, <1>3, SinceStep DEF IInv
<1>8. Windows'
  BY <1>2, <1>3, <1>5, <1>6, <1>7, OtherWindows DEF BInv
<1>9. SleepersWindows'
  BY <1>2, LeaveHolder DEF SleepersWindows
<1>10. BurstBounded'
  BY <1>2, <1>6, BurstStep DEF IInv, BInv
<1>11. QED
  BY <1>8, <1>9, <1>10 DEF BInv

(* Steps that let nothing through and wake nobody. *)
LEMMA AsideBursts ==
    ASSUME IInv, BInv, UNCHANGED <<tokens, last, sent>>, now' \in {now, now + 1},
           \A c \in Callers : pc'[c] = "asleep" => pc[c] = "asleep" /\ todo'[c] = todo[c]
    PROVE  BInv'
<1>1. \A s, i : Since(s, i)' = Since(s, i)
  BY DEF Since
<1>2. BurstBounded'
  BY DEF BInv, BurstBounded, Cap
<1>3. SleepersWindows'
  BY <1>1 DEF BInv, SleepersWindows, Covered, Cap
<1>4. Windows'
  <2>1. SUFFICES ASSUME NEW s \in Sources, NEW i \in DOMAIN sent[s]
                 PROVE  /\ sent[s][i] <= now'
                        /\ \/ sent[s][i] <= last[s] /\ Covered(s, i, now)'
                           \/ i = Len(sent[s]) /\ tokens[s] = 0
    BY DEF Windows
  <2>2. PICK since \in Nat, t \in Nat : since = Since(s, i) /\ t = sent[s][i]
    BY SentList DEF IInv
  <2>3. PICK held \in Nat, then \in Nat, time \in Nat : held = tokens[s] /\ then = last[s] /\ time = now
    BY CapNat DEF IInv, TypeOK
  <2>4. Covered(s, i, now) => Covered(s, i, now)'
    <3>1. Covered(s, i, now) <=> since + held + 2 * t <= Cap + Grain + then + time
      BY <2>2, <2>3 DEF Covered
    <3>2. PICK later \in Nat : later = now' /\ later >= time
      BY <2>3
    <3>3. Covered(s, i, now)' <=> since + held + 2 * t <= Cap + Grain + then + later
      BY <1>1, <2>2, <2>3, <3>2 DEF Covered, Cap
    <3>4. QED
      BY <3>1, <3>2, <3>3, CapNat
  <2>5. t <= time
    BY <2>2, <2>3 DEF BInv, Windows
  <2>6. QED
    BY <2>2, <2>3, <2>4, <2>5 DEF BInv, Windows
<1>5. QED
  BY <1>2, <1>3, <1>4 DEF BInv

(* Every step keeps every burst within bounds. *)
LEMMA NextBursts == IInv /\ BInv /\ [Next]_vars => BInv'
<1>1. SUFFICES ASSUME IInv, BInv, [Next]_vars PROVE BInv'
  OBVIOUS
<1>2. CASE Tick
  BY <1>1, <1>2, AsideBursts DEF Tick, limiter
<1>3. ASSUME NEW c \in Callers, Ask(c) PROVE BInv'
  <2>1. UNCHANGED <<tokens, last, sent, now>>
        /\ \A b \in Callers : pc'[b] = "asleep" => pc[b] = "asleep" /\ todo'[b] = todo[b]
    BY <1>1, <1>3 DEF Ask, Hit, Miss, limiter, IInv, TypeOK
  <2>2. QED
    BY <1>1, <2>1, AsideBursts
<1>4. ASSUME NEW c \in Callers, Answer(c) \/ Fail(c) PROVE BInv'
  <2>1. UNCHANGED <<tokens, last, sent, now>> /\ pc[c] = "fetching"
        /\ pc' \in {[pc EXCEPT ![c] = "idle"], [pc EXCEPT ![c] = "queued"]}
        /\ todo' \in {[todo EXCEPT ![c] = <<>>], [todo EXCEPT ![c] = Tail(todo[c])]}
    BY <1>4 DEF Answer, Fail, limiter
  <2>2. \A b \in Callers : pc'[b] = "asleep" => pc[b] = "asleep" /\ todo'[b] = todo[b]
    BY <1>1, <2>1 DEF IInv, TypeOK
  <2>3. QED
    BY <1>1, <2>1, <2>2, AsideBursts
<1>5. ASSUME NEW c \in Callers, Step(c) PROVE BInv'
  BY <1>1, <1>4, <1>5, PassBursts, SleepBursts, WakeBursts DEF Step
<1>6. CASE UNCHANGED vars
  BY <1>1, <1>6, AsideBursts DEF vars
<1>7. QED
  BY <1>1, <1>2, <1>3, <1>5, <1>6 DEF Next

(* For any callers, however they interleave and however late a sleeper     *)
(* wakes, between any two requests of a source there are no more than a    *)
(* bucket, a token and twice the rate (rate_limiter.py acquire).           *)
THEOREM BurstsAlwaysBounded == Spec => []BurstBounded
<1>1. Init => BInv
  <2>1. SUFFICES ASSUME Init PROVE BInv
    OBVIOUS
  <2>2. \A s \in Sources : DOMAIN sent[s] = {}
    BY <2>1 DEF Init
  <2>3. QED
    BY <2>1, <2>2 DEF Init, BInv, Windows, SleepersWindows, BurstBounded
<1>2. BInv => BurstBounded
  BY DEF BInv
<1>3. QED
  BY InitIInv, NextIInv, NextBursts, <1>1, <1>2, PTL DEF Spec
=============================================================================
