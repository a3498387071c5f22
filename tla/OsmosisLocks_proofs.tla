------------------------- MODULE OsmosisLocks_proofs ------------------------
(* The locks and the claims of the Osmosis vault, for every value of the   *)
(* constants: the recorded stake is locked, dummy locks are never mixed    *)
(* up, a claim that is not matured names its own lock, and no claim stays  *)
(* pending.  First the order in which the messages of a transaction run,   *)
(* then an invariant that says of each message what is locked when it is   *)
(* about to be handled (LocksInv), step by step.                           *)
EXTENDS OsmosisVault_proofs

----------------------------------------------------------------------------
(* The order of the messages.                                              *)

(* The kind of a message: the lock of the stake and a dummy lock differ.   *)
Kind(m) ==
  IF m.type = "LockTokens" /\ m.duration # VaultDuration THEN "LockDummy" ELSE m.type

(* What is handled next: the kind of the head of the queue.                *)
Doing == IF Idle THEN "None" ELSE Kind(queue[1])

LastOf(q) == q[Len(q)]

(* What may come next after a message, and what comes last.                *)
Follows ==
  {<<"SellRewards", "ProvideLiquidity">>, <<"PayTreasury", "Swap">>,
   <<"PayTreasury", "ProvideLiquidity">>, <<"Swap", "ProvideLiquidity">>,
   <<"ProvideLiquidity", "Stake">>, <<"JoinPool", "Stake">>,
   <<"Stake", "MintVaultToken">>, <<"Stake", "Unlock">>,
   <<"LockTokens", "MintVaultToken">>, <<"LockTokens", "Unlock">>,
   <<"Unlock", "LockDummy">>, <<"Burn", "BeginUnlocking">>, <<"Burn", "ForceUnlock">>,
   <<"BeginUnlocking", "LockDummy">>, <<"LockDummy", "SaveClaim">>,
   <<"ForceUnlock", "Send">>}

LastKinds == {"MintVaultToken", "Mint", "SaveClaim", "Send"}

InOrder(q) ==
  \A i \in 1..Len(q) : i < Len(q) => <<Kind(q[i]), Kind(q[i + 1])>> \in Follows

OrderInv == InOrder(queue) /\ (~Idle => Kind(LastOf(queue)) \in LastKinds)

(* The entry handler has read the balance before anything came in, and has *)
(* counted the dummy lock that an unlock makes.                            *)
Planned(before, counter) ==
  {m \in Message : /\ m.type = "Stake" => m.before = before
                   /\ Kind(m) = "LockDummy" => m.duration = counter /\ m.amount = 1}

PlanInv ==
  ~Idle => queue \in Seq(Planned(saved.bank.base[Vault], storage.durationCounter))

(* What callbacks send.                                                    *)
Plain == {m \in Message : Kind(m) \notin {"Stake", "LockDummy"}}

LEMMA KindIs ==
  ASSUME NEW m \in Message
  PROVE  /\ m.type # "LockTokens" => Kind(m) = m.type
         /\ Kind(m) \notin {"LockTokens", "LockDummy"} => m.type = Kind(m)
         /\ Kind(m) = "LockTokens" => m.type = "LockTokens" /\ m.duration = VaultDuration
         /\ Kind(m) = "LockDummy" => m.type = "LockTokens" /\ m.duration # VaultDuration
         /\ m.type = "LockTokens" => Kind(m) \in {"LockTokens", "LockDummy"}
         /\ m.type # "LockDummy" /\ m.type # "None" /\ Kind(m) # "None"
<1>1. m.type # "LockDummy" /\ m.type # "None"
  BY DEF Message
<1> QED
  BY <1>1 DEF Kind

(* What a message may be followed by, one at a time.                       *)
LEMMA FollowsIs ==
  ASSUME NEW a, NEW b, <<a, b>> \in Follows
  PROVE  /\ a = "SellRewards" => b = "ProvideLiquidity"
         /\ a = "PayTreasury" => b \in {"Swap", "ProvideLiquidity"}
         /\ a = "Swap" => b = "ProvideLiquidity"
         /\ a = "ProvideLiquidity" => b = "Stake"
         /\ a = "JoinPool" => b = "Stake"
         /\ a \in {"Stake", "LockTokens"} => b \in {"MintVaultToken", "Unlock"}
         /\ a \in {"Unlock", "BeginUnlocking"} => b = "LockDummy"
         /\ a = "Burn" => b \in {"BeginUnlocking", "ForceUnlock"}
         /\ a = "LockDummy" => b = "SaveClaim"
         /\ a = "ForceUnlock" => b = "Send"
         /\ a \notin LastKinds /\ b \notin {"SellRewards", "JoinPool", "LockTokens", "Burn"}
         /\ b = "LockDummy" => a \in {"Unlock", "BeginUnlocking"}
  BY DEF Follows, LastKinds

LEMMA QueueParts ==
  ASSUME NEW S, queue \in Seq(S), ~Idle
  PROVE  /\ Head(queue) \in S /\ Head(queue) = queue[1]
         /\ Tail(queue) \in Seq(S)
         /\ Len(queue) \in Nat \ {0}
         /\ Len(Tail(queue)) = Len(queue) - 1
         /\ \A i \in 1..Len(Tail(queue)) : Tail(queue)[i] = queue[i + 1]
         /\ LastOf(queue) \in S
<1>1. queue # <<>>
  BY DEF Idle
<1>2. Len(queue) \in Nat \ {0}
  BY <1>1, LenProperties, EmptySeq
<1>3. LastOf(queue) \in S
  <2> DEFINE k == Len(queue)
  <2>1. k \in Nat \ {0}
    BY <1>2
  <2> HIDE DEF k
  <2>2. k \in 1..k
    BY <2>1
  <2> QED
    BY <2>2, ElementOfSeq DEF k, LastOf
<1> QED
  BY <1>1, <1>2, <1>3, HeadTailProperties

LEMMA ContinueIn ==
  ASSUME NEW S, queue \in Seq(S), ~Idle, NEW messages \in Seq(S), Continue(messages)
  PROVE  queue' \in Seq(S)
  BY QueueParts, ConcatProperties DEF Continue

(* Two lists in order are in order together, if the second may follow.     *)
LEMMA ConcatShape ==
  ASSUME NEW S, NEW s \in Seq(S), NEW t \in Seq(S), InOrder(s), InOrder(t),
         s # <<>> /\ t # <<>> => <<Kind(LastOf(s)), Kind(t[1])>> \in Follows
  PROVE  /\ InOrder(s \o t)
         /\ Len(s \o t) = Len(s) + Len(t) /\ Len(s) \in Nat /\ Len(t) \in Nat
         /\ s # <<>> \/ t # <<>> => s \o t # <<>>
         /\ s # <<>> => (s \o t)[1] = s[1] /\ Len(s) > 0
         /\ t # <<>> => LastOf(s \o t) = LastOf(t) /\ Len(t) > 0
         /\ s # <<>> /\ t # <<>> => (s \o t)[Len(s) + 1] = t[1]
         /\ s = <<>> => s \o t = t
         /\ t = <<>> => s \o t = s
<1> DEFINE st == s \o t
           m == Len(s)
           n == Len(t)
<1>1. /\ m \in Nat /\ n \in Nat
      /\ s # <<>> => m > 0
      /\ t # <<>> => n > 0
      /\ s = <<>> => m = 0
      /\ t = <<>> => n = 0
  BY LenProperties, EmptySeq
<1>2. /\ Len(st) = m + n
      /\ \A i \in 1..(m + n) : st[i] = IF i <= m THEN s[i] ELSE t[i - m]
  BY ConcatProperties
<1>3. s = <<>> => st = t
  BY ConcatEmptySeq
<1>4. t = <<>> => st = s
  BY ConcatEmptySeq
<1>5. s # <<>> \/ t # <<>> => st # <<>>
  BY ConcatEqualIffEmpty
<1>6. /\ \A i \in 1..m : i < m => <<Kind(s[i]), Kind(s[i + 1])>> \in Follows
      /\ \A i \in 1..n : i < n => <<Kind(t[i]), Kind(t[i + 1])>> \in Follows
      /\ s # <<>> /\ t # <<>> => <<Kind(s[m]), Kind(t[1])>> \in Follows
  BY DEF InOrder, LastOf
<1> HIDE DEF st, m, n
<1>7. ASSUME NEW i \in 1..(m + n), i < m + n
      PROVE  <<Kind(st[i]), Kind(st[i + 1])>> \in Follows
  <2>1. CASE i < m
    <3>1. st[i] = s[i] /\ st[i + 1] = s[i + 1] /\ i \in 1..m
      BY <1>1, <1>2, <1>7, <2>1
    <3> QED
      BY <1>6, <2>1, <3>1
  <2>2. CASE i = m
    <3>1. st[i] = s[m] /\ st[i + 1] = t[1] /\ m > 0 /\ n > 0
      BY <1>1, <1>2, <1>7, <2>2
    <3> QED
      BY <1>1, <1>6, <3>1
  <2>3. CASE i > m
    <3>1. i - m \in 1..n /\ i - m < n
      BY <1>1, <1>7, <2>3
    <3>2. st[i] = t[i - m] /\ st[i + 1] = t[(i - m) + 1]
      BY <1>1, <1>2, <1>7, <2>3, (i + 1) - m = (i - m) + 1
    <3> QED
      BY <1>6, <3>1, <3>2
  <2> QED
    BY <1>1, <2>1, <2>2, <2>3
<1>8. InOrder(st)
  BY <1>2, <1>7 DEF InOrder
<1>9. s # <<>> => st[1] = s[1]
  BY <1>1, <1>2
<1>10. t # <<>> => st[m + n] = t[n] /\ st[m + 1] = (IF m + 1 <= m THEN s[m + 1] ELSE t[1])
  <2> SUFFICES ASSUME t # <<>>
               PROVE  st[m + n] = t[n] /\ st[m + 1] = (IF m + 1 <= m THEN s[m + 1] ELSE t[1])
    OBVIOUS
  <2>1. m + n \in 1..(m + n) /\ ~(m + n <= m) /\ (m + n) - m = n
    BY <1>1
  <2>2. m + 1 \in 1..(m + n) /\ ~(m + 1 <= m) /\ (m + 1) - m = 1
    BY <1>1
  <2> QED
    BY <1>2, <2>1, <2>2
<1> QED
  BY <1>1, <1>2, <1>3, <1>4, <1>5, <1>8, <1>9, <1>10 DEF st, m, n, LastOf

LEMMA NoMessage == InOrder(<<>>) /\ Len(<<>>) = 0
  BY DEF InOrder

LEMMA OneMessage ==
  ASSUME NEW a
  PROVE  /\ InOrder(<<a>>) /\ Len(<<a>>) = 1 /\ <<a>> # <<>>
         /\ <<a>>[1] = a /\ LastOf(<<a>>) = a
  BY DEF InOrder, LastOf

LEMMA TwoMessages ==
  ASSUME NEW a, NEW b, <<Kind(a), Kind(b)>> \in Follows
  PROVE  /\ InOrder(<<a, b>>) /\ Len(<<a, b>>) = 2 /\ <<a, b>> # <<>>
         /\ <<a, b>>[1] = a /\ <<a, b>>[2] = b /\ LastOf(<<a, b>>) = b
  BY DEF InOrder, LastOf

(* The queue after a step of a transaction: what the message sent, then    *)
(* what was waiting.                                                       *)
LEMMA QueueAfter ==
  ASSUME NEW S, queue \in Seq(S), NEW messages \in Seq(S), OrderInv, ~Idle,
         Continue(messages), InOrder(messages),
         messages # <<>> =>
           IF Len(queue) = 1 THEN Kind(LastOf(messages)) \in LastKinds
                             ELSE <<Kind(LastOf(messages)), Kind(queue[2])>> \in Follows
  PROVE  /\ OrderInv'
         /\ donated' = donated
         /\ Len(queue) = 1 => Doing \in LastKinds /\ LastOf(queue) = queue[1]
         /\ Len(queue) # 1 => <<Doing, Kind(queue[2])>> \in Follows
         /\ Doing = Kind(Head(queue)) /\ Head(queue) = queue[1]
         /\ Idle' <=> messages = <<>> /\ Len(queue) = 1
         /\ Idle' => saved' = NoTx /\ Doing' = "None"
         /\ ~Idle' => saved' = saved
         /\ ~Idle' /\ messages = <<>> =>
              /\ queue'[1] = queue[2] /\ queue' = Tail(queue) /\ Doing' = Kind(queue[2])
              /\ Head(queue') = queue[2]
         /\ messages # <<>> =>
              /\ queue'[1] = messages[1] /\ Doing' = Kind(messages[1])
              /\ Head(queue') = messages[1]
         /\ messages # <<>> /\ Len(queue) # 1 =>
              queue'[Len(messages) + 1] = queue[2]
         /\ messages # <<>> /\ Len(queue) = 1 => queue' = messages
         /\ Len(queue) # 1 => LastOf(queue') = LastOf(queue)
<1> DEFINE rest == Tail(queue)
<1>1. /\ Head(queue) = queue[1] /\ rest \in Seq(S)
      /\ Len(queue) \in Nat \ {0} /\ Len(rest) = Len(queue) - 1
      /\ \A i \in 1..Len(rest) : rest[i] = queue[i + 1]
  BY QueueParts
<1>2. queue' = messages \o rest /\ donated' = donated
      /\ saved' = IF queue' = <<>> THEN NoTx ELSE saved
  BY DEF Continue
<1> HIDE DEF rest
<1>3. /\ rest = <<>> <=> Len(queue) = 1
      /\ Len(queue) # 1 => Len(rest) > 0 /\ rest[1] = queue[2]
  BY <1>1, EmptySeq
<1>4. InOrder(rest)
  <2> SUFFICES ASSUME NEW i \in 1..Len(rest), i < Len(rest)
               PROVE  <<Kind(rest[i]), Kind(rest[i + 1])>> \in Follows
    BY DEF InOrder
  <2> DEFINE k == Len(queue)
             l == Len(rest)
             j == i + 1
  <2>1. k \in Nat \ {0} /\ l = k - 1 /\ i \in 1..l /\ i < l
    BY <1>1
  <2>2. rest[i] = queue[j]
    BY <1>1
  <2> HIDE DEF k, l
  <2>3. j \in 1..l /\ j \in 1..k /\ j < k
    BY <2>1
  <2> HIDE DEF j
  <2>4. rest[j] = queue[j + 1]
    BY <1>1, <2>3 DEF l
  <2>5. <<Kind(queue[j]), Kind(queue[j + 1])>> \in Follows
    BY <2>3 DEF k, OrderInv, InOrder
  <2> QED
    BY <2>2, <2>4, <2>5 DEF j
<1>5. Len(queue) # 1 => LastOf(rest) = LastOf(queue)
  BY <1>1, <1>3, Len(queue) - 1 + 1 = Len(queue) DEF LastOf
<1>6. messages # <<>> /\ rest # <<>> => <<Kind(LastOf(messages)), Kind(rest[1])>> \in Follows
  BY <1>3
<1>7. /\ InOrder(queue')
      /\ messages # <<>> \/ rest # <<>> => queue' # <<>>
      /\ messages # <<>> => queue'[1] = messages[1]
      /\ rest # <<>> => LastOf(queue') = LastOf(rest)
      /\ messages # <<>> /\ rest # <<>> => queue'[Len(messages) + 1] = rest[1]
      /\ messages = <<>> => queue' = rest
      /\ rest = <<>> => queue' = messages
  BY <1>1, <1>2, <1>4, <1>6, ConcatShape
<1>8. Idle' <=> messages = <<>> /\ Len(queue) = 1
  BY <1>3, <1>7 DEF Idle
<1>9. /\ Kind(LastOf(queue)) \in LastKinds
      /\ Len(queue) = 1 => LastOf(queue) = queue[1]
      /\ Len(queue) # 1 => <<Kind(queue[1]), Kind(queue[2])>> \in Follows
  BY <1>1, 1 \in 1..Len(queue), 1 + 1 = 2 DEF OrderInv, InOrder, LastOf
<1>10. OrderInv'
  <2>1. ~Idle' => Kind(LastOf(queue')) \in LastKinds
    BY <1>3, <1>5, <1>7, <1>8, <1>9
  <2> QED
    BY <1>7, <2>1 DEF OrderInv, InOrder, LastOf
<1>11. queue' # <<>> => Head(queue') = queue'[1]
  <2>1. queue' \in Seq(S)
    BY ContinueIn
  <2> QED
    BY <2>1, HeadTailProperties, LenProperties, EmptySeq
<1> QED
  BY <1>1, <1>2, <1>3, <1>5, <1>7, <1>8, <1>9, <1>10, <1>11 DEF Doing, Idle, rest

(* Of no message that is sent itself ...                                   *)
LEMMA QueueType ==
  ASSUME TypeOK
  PROVE  /\ queue \in Seq(Message) /\ now \in Nat /\ donated \in Nat
         /\ storage \in StorageType /\ bank \in BankType
         /\ IsLockup(locks, lastLockId) /\ IsClaimMap(claims)
         /\ pendingClaim \in Claim \cup {NoClaim}
         /\ ~Idle => SavedTypeOK /\ queue[1] \in Message /\ Head(queue) = queue[1]
         /\ ~Idle => LastOf(queue) \in Message
<1>1. queue \in Seq(Message)
  BY DEF TypeOK, TxTypeOK
<1> QED
  BY <1>1, QueueParts DEF TypeOK, TxTypeOK, LockupTypeOK, ClaimsTypeOK

(* The plan stays while messages are handled.                              *)
LEMMA PlanKept ==
  ASSUME TypeOK, PlanInv, ~Idle, NEW messages \in Seq(Plain), Continue(messages),
         storage'.durationCounter = storage.durationCounter
  PROVE  PlanInv'
<1> DEFINE S == Planned(saved.bank.base[Vault], storage.durationCounter)
<1>1. Plain \subseteq S
  <2> SUFFICES ASSUME NEW m \in Plain PROVE m \in S
    OBVIOUS
  <2>1. m \in Message /\ Kind(m) \notin {"Stake", "LockDummy"}
    BY DEF Plain
  <2>2. m.type # "Stake"
    BY <2>1, KindIs
  <2> QED
    BY <2>1, <2>2 DEF Planned
<1>2. queue \in Seq(S)
  BY DEF PlanInv
<1> HIDE DEF S
<1>3. messages \in Seq(S)
  BY <1>1, SeqMonotonic
<1>4. queue' \in Seq(S)
  BY <1>2, <1>3, ContinueIn
<1>5. ~Idle' => saved' = saved
  BY DEF Continue, Idle
<1>6. ~Idle' => Planned(saved.bank.base[Vault], storage.durationCounter)'
                  = Planned(saved.bank.base[Vault], storage.durationCounter)
  BY <1>5 DEF Planned, Message, Kind
<1> QED
  BY <1>4, <1>6 DEF PlanInv, S

(* A message that sends nothing itself ...                                 *)
LEMMA DoneFlow ==
  ASSUME TypeOK, OrderInv, PlanInv, ~Idle, Continue(<<>>),
         storage'.durationCounter = storage.durationCounter
  PROVE  /\ OrderInv' /\ PlanInv' /\ UNCHANGED <<donated, now>>
         /\ Doing = Kind(queue[1]) /\ Head(queue) = queue[1]
         /\ Doing \in LastKinds =>
              Idle' /\ saved' = NoTx /\ Doing' = "None" /\ LastOf(queue) = queue[1]
         /\ Doing \notin LastKinds =>
              /\ ~Idle' /\ saved' = saved /\ <<Doing, Doing'>> \in Follows
              /\ Len(queue) # 1
              /\ queue'[1] = queue[2] /\ Doing' = Kind(queue[2]) /\ queue[2] \in Message
              /\ LastOf(queue') = LastOf(queue)
<1>0. queue \in Seq(Message) /\ InOrder(<<>>)
  BY NoMessage, QueueType
<1>1. <<>> \in Seq(Message) /\ <<>> \in Seq(Plain)
  OBVIOUS
<1>2. /\ OrderInv' /\ donated' = donated
      /\ Doing = Kind(Head(queue)) /\ Head(queue) = queue[1]
      /\ Len(queue) = 1 => Doing \in LastKinds /\ LastOf(queue) = queue[1]
      /\ Len(queue) # 1 => <<Doing, Kind(queue[2])>> \in Follows
      /\ Idle' <=> Len(queue) = 1
      /\ Idle' => saved' = NoTx /\ Doing' = "None"
      /\ ~Idle' => saved' = saved
      /\ ~Idle' => /\ queue'[1] = queue[2] /\ Doing' = Kind(queue[2])
                   /\ Head(queue') = queue[2] /\ queue' = Tail(queue)
      /\ Len(queue) # 1 => LastOf(queue') = LastOf(queue)
  BY <1>1, <1>0, QueueAfter
<1>3. Len(queue) # 1 => Doing \notin LastKinds
  BY <1>2, FollowsIs
<1>4. ~Idle' => Head(queue') \in Message
  <2>1. ~Idle' => Tail(queue) \in Seq(Message) /\ Tail(queue) # <<>>
    BY <1>0, <1>2, QueueParts DEF Idle
  <2> QED
    BY <1>2, <2>1, HeadTailProperties
<1>5. PlanInv'
  BY <1>1, PlanKept
<1> QED
  BY <1>2, <1>3, <1>4, <1>5 DEF Continue

(* ... and one that sends some.                                            *)
LEMMA SentFlow ==
  ASSUME TypeOK, OrderInv, PlanInv, ~Idle,
         NEW messages \in Seq(Plain), messages # <<>>, Continue(messages),
         InOrder(messages), storage'.durationCounter = storage.durationCounter,
         Kind(queue[1]) \notin LastKinds,
         \A kind : <<Kind(queue[1]), kind>> \in Follows
                     => <<Kind(LastOf(messages)), kind>> \in Follows
  PROVE  /\ OrderInv' /\ PlanInv' /\ UNCHANGED <<donated, now>>
         /\ Doing = Kind(queue[1]) /\ Head(queue) = queue[1]
         /\ ~Idle' /\ saved' = saved /\ Len(queue) # 1
         /\ <<Doing, Kind(queue[2])>> \in Follows /\ queue[2] \in Message
         /\ queue'[1] = messages[1] /\ Doing' = Kind(messages[1])
         /\ queue'[Len(messages) + 1] = queue[2]
         /\ LastOf(queue') = LastOf(queue)
<1>1. queue \in Seq(Message) /\ messages \in Seq(Message)
  BY QueueType, SeqMonotonic DEF Plain
<1>2. Head(queue) = queue[1] /\ Len(queue) \in Nat \ {0}
  BY <1>1, QueueParts
<1>3. /\ Len(queue) # 1
      /\ <<Kind(queue[1]), Kind(queue[2])>> \in Follows
  BY <1>2, 1 \in 1..Len(queue), 1 + 1 = 2 DEF OrderInv, InOrder, LastOf, Idle
<1>4. <<Kind(LastOf(messages)), Kind(queue[2])>> \in Follows
  BY <1>3
<1>5. /\ OrderInv' /\ donated' = donated
      /\ Doing = Kind(Head(queue))
      /\ ~Idle' /\ (~Idle' => saved' = saved)
      /\ queue'[1] = messages[1] /\ Doing' = Kind(messages[1])
      /\ queue'[Len(messages) + 1] = queue[2]
      /\ LastOf(queue') = LastOf(queue)
  BY <1>1, <1>3, <1>4, QueueAfter
<1>6. queue[2] \in Message
  <2> DEFINE k == Len(queue)
  <2>1. k \in Nat \ {0} /\ k # 1
    BY <1>2, <1>3
  <2> HIDE DEF k
  <2>2. 2 \in 1..k
    BY <2>1
  <2> QED
    BY <1>1, <2>2, ElementOfSeq DEF k
<1>7. PlanInv'
  BY PlanKept
<1> QED
  BY <1>2, <1>3, <1>5, <1>6, <1>7 DEF Continue

LEMMA OneSentFlow ==
  ASSUME TypeOK, OrderInv, PlanInv, ~Idle, NEW m \in Plain, Continue(<<m>>),
         storage'.durationCounter = storage.durationCounter,
         Kind(queue[1]) \notin LastKinds,
         \A kind : <<Kind(queue[1]), kind>> \in Follows => <<Kind(m), kind>> \in Follows
  PROVE  /\ OrderInv' /\ PlanInv' /\ UNCHANGED <<donated, now>>
         /\ Doing = Kind(queue[1]) /\ Head(queue) = queue[1]
         /\ ~Idle' /\ saved' = saved
         /\ <<Doing, Kind(queue[2])>> \in Follows
         /\ queue'[1] = m /\ Doing' = Kind(m) /\ queue'[2] = queue[2]
         /\ LastOf(queue') = LastOf(queue)
<1> DEFINE messages == <<m>>
<1>1. /\ messages \in Seq(Plain) /\ messages # <<>> /\ InOrder(messages)
      /\ messages[1] = m /\ LastOf(messages) = m /\ Len(messages) + 1 = 2
  BY OneMessage
<1>2. Continue(messages)
  OBVIOUS
<1> HIDE DEF messages
<1> QED
  BY <1>1, <1>2, SentFlow

LEMMA PlainIs ==
  ASSUME NEW m \in Message, m.type \notin {"Stake", "LockTokens"} \/ Kind(m) = "LockTokens"
  PROVE  m \in Plain
<1>1. m.type # "LockDummy"
  BY KindIs
<1> QED
  BY <1>1 DEF Plain, Kind

(* A list of two messages.                                                 *)
LEMMA PairIs ==
  ASSUME NEW a, NEW b
  PROVE  <<a>> \o <<b>> = <<a, b>>
<1> DEFINE S == {a, b}
           s == <<a>> \o <<b>>
           t == <<a, b>>
<1>1. <<a>> \in Seq(S) /\ <<b>> \in Seq(S) /\ t \in Seq(S)
  OBVIOUS
<1>2. Len(<<a>>) = 1 /\ Len(<<b>>) = 1 /\ Len(t) = 2 /\ t[1] = a /\ t[2] = b
  OBVIOUS
<1>3. s \in Seq(S) /\ Len(s) = 2 /\ s[1] = a /\ s[2] = b
  <2>1. /\ s \in Seq(S) /\ Len(s) = Len(<<a>>) + Len(<<b>>)
        /\ \A i \in 1..Len(<<a>>) + Len(<<b>>) :
             s[i] = IF i <= Len(<<a>>) THEN <<a>>[i] ELSE <<b>>[i - Len(<<a>>)]
    BY <1>1, ConcatProperties
  <2> QED
    BY <1>2, <2>1
<1> HIDE DEF s, t, S
<1>4. s = t
  BY <1>1, <1>2, <1>3, SeqEqual
<1> QED
  BY <1>4 DEF s, t

(* The queue with its messages in view.                                    *)
LEMMA DoingIs ==
  ASSUME TypeOK, ~Idle
  PROVE  /\ Doing = Kind(queue[1]) /\ Head(queue) = queue[1] /\ queue[1] \in Message
         /\ Doing # "None"
         /\ queue[1].type # "LockTokens" => Doing = queue[1].type
         /\ Doing \notin {"LockTokens", "LockDummy"} => queue[1].type = Doing
  BY QueueType, KindIs DEF Doing

(* What the callbacks send.                                                *)
LEMMA SaleFlow ==
  ASSUME TypeOK, OrderInv, PlanInv, CallbackSellRewards
  PROVE  /\ OrderInv' /\ PlanInv' /\ UNCHANGED <<donated, now>>
         /\ Doing = "SellRewards" /\ ~Idle /\ ~Idle' /\ saved' = saved
         /\ LastOf(queue') = LastOf(queue)
         /\ Doing' \in {"PayTreasury", "Swap", "ProvideLiquidity"}
<1> DEFINE toSell == BalanceAfterFee(bank.rewards, PerformanceFee)
           fee == bank.rewards - toSell
           pay == PayTreasury(fee)
           swap == Swap(toSell)
           first == NonZero(fee, <<pay>>)
           second == NonZero(toSell, <<swap>>)
<1>1. /\ ~Idle /\ Head(queue).type = "SellRewards" /\ Continue(first \o second)
      /\ storage'.durationCounter = storage.durationCounter
  BY DEF CallbackSellRewards, Handles
<1>2. Kind(queue[1]) = "SellRewards" /\ Doing = "SellRewards"
  BY <1>1, DoingIs
<1>3. toSell \in Nat /\ fee \in Nat
  BY BalanceAfterFeeType DEF TypeOK, BankType
<1> HIDE DEF toSell, fee
<1>4. pay \in Plain /\ swap \in Plain /\ Kind(pay) = "PayTreasury" /\ Kind(swap) = "Swap"
  <2>1. pay \in Message /\ swap \in Message /\ pay.type = "PayTreasury" /\ swap.type = "Swap"
    BY <1>3, MessageConstructors DEF PayTreasury, Swap
  <2> HIDE DEF pay, swap
  <2> QED
    BY <2>1, PlainIs, KindIs
<1>5. /\ \A kind : <<"SellRewards", kind>> \in Follows => kind = "ProvideLiquidity"
      /\ <<"PayTreasury", "Swap">> \in Follows
      /\ <<"PayTreasury", "ProvideLiquidity">> \in Follows
      /\ <<"Swap", "ProvideLiquidity">> \in Follows /\ "SellRewards" \notin LastKinds
  BY DEF Follows, LastKinds
<1> HIDE DEF pay, swap
<1>6. /\ first = <<>> \/ first = <<pay>>
      /\ second = <<>> \/ second = <<swap>>
  BY DEF NonZero
<1> HIDE DEF first, second
<1>7. CASE first = <<>> /\ second = <<>>
  <2>1. Continue(<<>>)
    BY <1>1, <1>7, ConcatEmptySeq, <<>> \in Seq(Plain)
  <2>2. /\ OrderInv' /\ PlanInv' /\ UNCHANGED <<donated, now>>
        /\ ~Idle' /\ saved' = saved /\ <<Doing, Doing'>> \in Follows
        /\ LastOf(queue') = LastOf(queue)
    BY <1>1, <1>2, <1>5, <2>1, DoneFlow
  <2> QED
    BY <1>1, <1>2, <1>5, <2>2
<1>8. CASE first = <<pay>> /\ second = <<>>
  <2>1. Continue(<<pay>>)
    BY <1>1, <1>4, <1>8, ConcatEmptySeq, <<pay>> \in Seq(Plain)
  <2>2. /\ OrderInv' /\ PlanInv' /\ UNCHANGED <<donated, now>>
        /\ ~Idle' /\ saved' = saved /\ Doing' = Kind(pay)
        /\ LastOf(queue') = LastOf(queue)
    BY <1>1, <1>2, <1>4, <1>5, <2>1, OneSentFlow
  <2> QED
    BY <1>1, <1>2, <1>4, <2>2
<1>9. CASE first = <<>> /\ second = <<swap>>
  <2>1. Continue(<<swap>>)
    BY <1>1, <1>4, <1>9, ConcatEmptySeq, <<swap>> \in Seq(Plain)
  <2>2. /\ OrderInv' /\ PlanInv' /\ UNCHANGED <<donated, now>>
        /\ ~Idle' /\ saved' = saved /\ Doing' = Kind(swap)
        /\ LastOf(queue') = LastOf(queue)
    BY <1>1, <1>2, <1>4, <1>5, <2>1, OneSentFlow
  <2> QED
    BY <1>1, <1>2, <1>4, <2>2
<1>10. CASE first = <<pay>> /\ second = <<swap>>
  <2> DEFINE messages == <<pay, swap>>
  <2>1. Continue(messages)
    BY <1>1, <1>10, PairIs
  <2>2. /\ InOrder(messages) /\ LastOf(messages) = swap /\ messages[1] = pay
        /\ messages # <<>> /\ messages \in Seq(Plain)
    BY <1>4, <1>5, TwoMessages
  <2> HIDE DEF messages
  <2>3. /\ OrderInv' /\ PlanInv' /\ UNCHANGED <<donated, now>>
        /\ ~Idle' /\ saved' = saved /\ Doing' = Kind(messages[1])
        /\ LastOf(queue') = LastOf(queue)
    BY <1>1, <1>2, <1>4, <1>5, <2>1, <2>2, SentFlow
  <2> QED
    BY <1>1, <1>2, <1>4, <2>2, <2>3
<1> QED
  BY <1>6, <1>7, <1>8, <1>9, <1>10

LEMMA ProvideFlow ==
  ASSUME TypeOK, OrderInv, PlanInv, CallbackProvideLiquidity
  PROVE  /\ OrderInv' /\ PlanInv' /\ UNCHANGED <<donated, now>>
         /\ Doing = "ProvideLiquidity" /\ ~Idle /\ ~Idle' /\ saved' = saved
         /\ LastOf(queue') = LastOf(queue)
         /\ Doing' \in {"JoinPool", "Stake"}
<1> DEFINE join == JoinPool(bank.poolAsset)
<1>1. /\ ~Idle /\ Head(queue).type = "ProvideLiquidity"
      /\ Continue(<<>>) \/ Continue(<<join>>)
      /\ storage'.durationCounter = storage.durationCounter
  BY DEF CallbackProvideLiquidity, Handles, NonZero
<1>2. Kind(queue[1]) = "ProvideLiquidity" /\ Doing = "ProvideLiquidity"
  BY <1>1, DoingIs
<1>3. join \in Plain /\ Kind(join) = "JoinPool"
  <2>1. join \in Message /\ join.type = "JoinPool"
    BY MessageConstructors DEF JoinPool, TypeOK, BankType
  <2> HIDE DEF join
  <2> QED
    BY <2>1, PlainIs, KindIs
<1>4. /\ \A kind : <<"ProvideLiquidity", kind>> \in Follows => kind = "Stake"
      /\ <<"JoinPool", "Stake">> \in Follows /\ "ProvideLiquidity" \notin LastKinds
  BY DEF Follows, LastKinds
<1> HIDE DEF join
<1>5. CASE Continue(<<>>)
  <2>1. /\ OrderInv' /\ PlanInv' /\ UNCHANGED <<donated, now>>
        /\ ~Idle' /\ saved' = saved /\ <<Doing, Doing'>> \in Follows
        /\ LastOf(queue') = LastOf(queue)
    BY <1>1, <1>2, <1>4, <1>5, DoneFlow
  <2> QED
    BY <1>1, <1>2, <1>4, <2>1
<1>6. CASE Continue(<<join>>)
  <2>1. /\ OrderInv' /\ PlanInv' /\ UNCHANGED <<donated, now>>
        /\ ~Idle' /\ saved' = saved /\ Doing' = Kind(join)
        /\ LastOf(queue') = LastOf(queue)
    BY <1>1, <1>2, <1>3, <1>4, <1>6, OneSentFlow
  <2> QED
    BY <1>1, <1>2, <1>3, <2>1
<1> QED
  BY <1>1, <1>5, <1>6

LEMMA AmountToStakeType ==
  ASSUME TypeOK, ~Idle, Head(queue).type = "Stake"
  PROVE  AmountToStake \in Nat /\ Head(queue).before \in Nat
<1>1. Head(queue).before \in Nat /\ bank.base[Vault] \in Nat
  BY QueueType, MessageFields, ConstantTypes DEF TypeOK, BankType
<1> QED
  BY <1>1 DEF AmountToStake

LEMMA StakeFlow ==
  ASSUME TypeOK, OrderInv, PlanInv, CallbackStake
  PROVE  /\ OrderInv' /\ PlanInv' /\ UNCHANGED <<donated, now>>
         /\ Doing = "Stake" /\ Head(queue) = queue[1] /\ ~Idle /\ ~Idle' /\ saved' = saved
         /\ LastOf(queue') = LastOf(queue)
         /\ AmountToStake \in Nat
         /\ IF AmountToStake = 0
            THEN Doing' \in {"MintVaultToken", "Unlock"}
            ELSE Doing' = "LockTokens" /\ queue'[1] = LockMsg(VaultDuration, AmountToStake)
<1> DEFINE m == LockMsg(VaultDuration, AmountToStake)
<1>1. /\ ~Idle /\ Head(queue).type = "Stake" /\ AmountToStake \in Nat
      /\ Continue(IF AmountToStake = 0 THEN <<>> ELSE <<m>>)
      /\ storage'.durationCounter = storage.durationCounter
  BY AmountToStakeType DEF CallbackStake, Handles, NonZero, TypeOK, StorageType
<1>2. Kind(queue[1]) = "Stake" /\ Doing = "Stake" /\ Head(queue) = queue[1]
  BY <1>1, DoingIs
<1>3. m \in Plain /\ Kind(m) = "LockTokens"
  <2>1. m \in Message /\ Kind(m) = "LockTokens"
    BY <1>1, MessageConstructors DEF LockMsg, VaultDuration, Kind
  <2> HIDE DEF m
  <2> QED
    BY <2>1, PlainIs
<1>4. /\ \A kind : <<"Stake", kind>> \in Follows
                     => /\ kind \in {"MintVaultToken", "Unlock"}
                        /\ <<"LockTokens", kind>> \in Follows
      /\ "Stake" \notin LastKinds
  BY DEF Follows, LastKinds
<1> HIDE DEF m
<1>5. CASE AmountToStake = 0
  <2>1. Continue(<<>>)
    BY <1>1, <1>5
  <2>2. /\ OrderInv' /\ PlanInv' /\ UNCHANGED <<donated, now>>
        /\ ~Idle' /\ saved' = saved /\ <<Doing, Doing'>> \in Follows
        /\ LastOf(queue') = LastOf(queue)
    BY <1>1, <1>2, <1>4, <2>1, DoneFlow
  <2> QED
    BY <1>1, <1>2, <1>4, <1>5, <2>2
<1>6. CASE AmountToStake # 0
  <2>1. Continue(<<m>>)
    BY <1>1, <1>6
  <2>2. /\ OrderInv' /\ PlanInv' /\ UNCHANGED <<donated, now>>
        /\ ~Idle' /\ saved' = saved /\ queue'[1] = m /\ Doing' = Kind(m)
        /\ LastOf(queue') = LastOf(queue)
    BY <1>1, <1>2, <1>3, <1>4, <2>1, OneSentFlow
  <2> QED
    BY <1>1, <1>2, <1>3, <1>6, <2>2 DEF m
<1> QED
  BY <1>5, <1>6

(* The last message of a queue that is a single one.                       *)
LEMMA LastIsAlone ==
  ASSUME TypeOK, OrderInv, ~Idle, Doing \in LastKinds
  PROVE  Len(queue) = 1 /\ LastOf(queue) = queue[1]
<1> DEFINE k == Len(queue)
<1>1. k \in Nat \ {0} /\ Doing = Kind(queue[1])
  BY QueueType, QueueParts, DoingIs
<1>2. ASSUME k # 1 PROVE FALSE
  <2> HIDE DEF k
  <2>1. 1 \in 1..k /\ 1 < k
    BY <1>1, <1>2
  <2>2. <<Kind(queue[1]), Kind(queue[1 + 1])>> \in Follows
    BY <2>1 DEF k, OrderInv, InOrder
  <2> QED
    BY <1>1, <2>2, FollowsIs
<1> QED
  BY <1>2 DEF LastOf

(* The contract pays itself with the last message of a transaction.        *)
LEMMA SelfFlow ==
  ASSUME TypeOK, OrderInv, HandleSendToSelf
  PROVE  /\ ~Idle /\ Idle' /\ saved' = NoTx /\ Doing = "Send" /\ Doing' = "None"
         /\ OrderInv' /\ PlanInv' /\ Head(queue) = queue[1] /\ LastOf(queue) = queue[1]
         /\ UNCHANGED <<storage, bank, lockupVars, claimsVars, now>>
<1>1. ~Idle /\ Head(queue).type = "Send"
  BY DEF HandleSendToSelf, Handles
<1>2. Doing = "Send" /\ Doing \in LastKinds
  BY <1>1, DoingIs DEF LastKinds
<1>3. Len(queue) = 1 /\ LastOf(queue) = queue[1]
  BY <1>1, <1>2, LastIsAlone
<1> DEFINE rest == Tail(queue)
<1>4. /\ Head(queue) = queue[1] /\ rest \in Seq(Message) /\ Len(rest) = 0
  BY <1>1, <1>3, QueueType, QueueParts
<1> HIDE DEF rest
<1>5. rest = <<>>
  BY <1>4, EmptySeq
<1>6. queue' = <<>> /\ saved' = NoTx
  BY <1>5 DEF HandleSendToSelf, rest
<1>7. OrderInv' /\ PlanInv' /\ Idle' /\ Doing' = "None"
  <2>1. InOrder(queue)'
    BY <1>6, NoMessage DEF InOrder
  <2> QED
    BY <1>6, <2>1 DEF OrderInv, PlanInv, Idle, Doing
<1> QED
  BY <1>1, <1>2, <1>3, <1>4, <1>6, <1>7 DEF HandleSendToSelf

LEMMA MintFlow ==
  ASSUME TypeOK, OrderInv, PlanInv, CallbackMintVaultToken
  PROVE  /\ OrderInv' /\ PlanInv' /\ UNCHANGED <<donated, now>>
         /\ Doing = "MintVaultToken" /\ Head(queue) = queue[1] /\ LastOf(queue) = queue[1]
         /\ ~Idle /\ ~Idle' /\ saved' = saved
         /\ SharesToMint \in Nat
         /\ Doing' = "Mint" /\ queue'[1].amount = SharesToMint
         /\ LastOf(queue') = queue'[1]
<1> DEFINE m == Mint(SharesToMint, Head(queue).recipient)
           messages == <<m>>
<1>1. /\ ~Idle /\ Head(queue).type = "MintVaultToken" /\ Continue(messages)
      /\ storage'.durationCounter = storage.durationCounter /\ CanMintVaultToken
  BY DEF CallbackMintVaultToken, Handles
<1>2. Kind(queue[1]) = "MintVaultToken" /\ Doing = "MintVaultToken" /\ Head(queue) = queue[1]
      /\ queue[1] \in Message
  BY <1>1, DoingIs
<1>3. /\ Head(queue).amount \in Nat /\ Head(queue).recipient \in Accounts
      /\ storage.totalStaked \in Nat /\ bank.supply \in Nat
  BY <1>1, <1>2, MessageFields DEF TypeOK, StorageType, BankType
<1>4. SharesToMint \in Nat
  <2>1. storage.totalStaked - Head(queue).amount \in Nat
    BY <1>1, <1>3 DEF CanMintVaultToken
  <2> QED
    BY <1>3, <2>1, CalculateVaultTokensType DEF SharesToMint
<1>5. m \in Plain /\ Kind(m) = "Mint" /\ m.amount = SharesToMint
  <2>1. m \in Message /\ m.type = "Mint" /\ m.amount = SharesToMint
    BY <1>3, <1>4, MessageConstructors DEF Mint
  <2> HIDE DEF m
  <2> QED
    BY <2>1, PlainIs, KindIs
<1>6. Len(queue) = 1 /\ LastOf(queue) = queue[1]
  BY <1>1, <1>2, LastIsAlone DEF LastKinds
<1>7. queue \in Seq(Message) /\ "Mint" \in LastKinds
  BY QueueType DEF LastKinds
<1> HIDE DEF m
<1>8. /\ InOrder(messages) /\ messages # <<>> /\ messages[1] = m /\ LastOf(messages) = m
      /\ messages \in Seq(Message) /\ messages \in Seq(Plain) /\ Len(messages) = 1
  BY <1>5, OneMessage DEF Plain
<1> HIDE DEF messages
<1>9. /\ OrderInv' /\ donated' = donated /\ ~Idle' /\ (~Idle' => saved' = saved)
      /\ Doing' = Kind(messages[1]) /\ queue' = messages
  BY <1>1, <1>5, <1>6, <1>7, <1>8, QueueAfter
<1>10. PlanInv' /\ now' = now
  BY <1>1, <1>8, PlanKept DEF Continue
<1> QED
  BY <1>1, <1>2, <1>4, <1>5, <1>6, <1>8, <1>9, <1>10 DEF LastOf

LEMMA UnlockFlow ==
  ASSUME TypeOK, OrderInv, PlanInv, CallbackUnlock
  PROVE  /\ OrderInv' /\ PlanInv' /\ UNCHANGED <<donated, now>>
         /\ Doing = "Unlock" /\ Head(queue) = queue[1]
         /\ queue[1].amount \in Nat /\ BurnValue(queue[1].amount) \in Nat
         /\ ~Idle /\ ~Idle' /\ saved' = saved
         /\ Doing' = "Burn" /\ queue'[1] = Burn(queue[1].amount)
         /\ queue'[2] = BeginUnlockMsg(storage.lockId, BurnValue(queue[1].amount))
         /\ storage.lockId \in Nat
         /\ LastOf(queue') = LastOf(queue)
<1> DEFINE m == Burn(queue[1].amount)
           n == BeginUnlockMsg(storage.lockId, BurnValue(queue[1].amount))
           messages == <<m, n>>
<1>1. ~Idle /\ Head(queue).type = "Unlock" /\ storage.lockId \in Nat
      /\ storage'.durationCounter = storage.durationCounter
  BY DEF CallbackUnlock, Handles, BurnVaultTokens, TypeOK, StorageType
<1>2. Kind(queue[1]) = "Unlock" /\ Doing = "Unlock" /\ Head(queue) = queue[1]
      /\ queue[1] \in Message
  BY <1>1, DoingIs
<1>3. queue[1].amount \in Nat /\ BurnValue(queue[1].amount) \in Nat
  BY <1>1, <1>2, MessageFields, BurnValueType
<1>4. Continue(messages)
  BY <1>2 DEF CallbackUnlock
<1>5. m \in Plain /\ Kind(m) = "Burn" /\ n \in Plain /\ Kind(n) = "BeginUnlocking"
  <2>1. m \in Message /\ m.type = "Burn" /\ n \in Message /\ n.type = "BeginUnlocking"
    BY <1>1, <1>3, MessageConstructors DEF Burn, BeginUnlockMsg
  <2> HIDE DEF m, n
  <2> QED
    BY <2>1, PlainIs, KindIs
<1>6. /\ \A kind : <<"Unlock", kind>> \in Follows => <<"BeginUnlocking", kind>> \in Follows
      /\ <<"Burn", "BeginUnlocking">> \in Follows /\ "Unlock" \notin LastKinds
  BY DEF Follows, LastKinds
<1> HIDE DEF m, n
<1>7. /\ InOrder(messages) /\ Len(messages) = 2 /\ messages # <<>>
      /\ messages[1] = m /\ messages[2] = n /\ LastOf(messages) = n
      /\ messages \in Seq(Plain)
  BY <1>5, <1>6, TwoMessages
<1> HIDE DEF messages
<1>8. /\ OrderInv' /\ PlanInv' /\ UNCHANGED <<donated, now>>
      /\ ~Idle' /\ saved' = saved
      /\ queue'[1] = messages[1] /\ Doing' = Kind(messages[1])
      /\ LastOf(queue') = LastOf(queue)
  BY <1>1, <1>2, <1>4, <1>5, <1>6, <1>7, SentFlow
<1>9. queue'[2] = messages[2]
  <2>1. queue' = messages \o Tail(queue) /\ Tail(queue) \in Seq(Message)
        /\ messages \in Seq(Message)
    BY <1>1, <1>4, <1>7, QueueType, QueueParts, SeqMonotonic DEF Continue, Plain
  <2>2. Len(Tail(queue)) \in Nat
    BY <2>1, LenProperties
  <2> QED
    BY <1>7, <2>1, <2>2, ConcatProperties, 2 \in 1..(2 + Len(Tail(queue)))
<1> QED
  BY <1>1, <1>2, <1>3, <1>5, <1>7, <1>8, <1>9 DEF m, n

(* The messages of a transaction, when it begins.                          *)
LEMMA BeginFlow ==
  ASSUME NEW messages, BeginTx(messages), messages # <<>>,
         messages \in Seq(Planned(bank.base[Vault], storage'.durationCounter)),
         InOrder(messages), Kind(LastOf(messages)) \in LastKinds
  PROVE  /\ OrderInv' /\ PlanInv' /\ UNCHANGED <<donated, now>>
         /\ Idle /\ ~Idle' /\ saved' = Snapshot /\ queue' = messages
         /\ Doing = "None" /\ Doing' = Kind(messages[1])
         /\ LastOf(queue') = LastOf(messages)
<1>1. /\ Idle /\ ~Idle' /\ saved' = Snapshot /\ queue' = messages
      /\ UNCHANGED <<donated, now>>
  BY DEF BeginTx, Idle
<1>2. OrderInv'
  BY <1>1 DEF OrderInv, InOrder, LastOf, Kind
<1>3. Planned(saved.bank.base[Vault], storage.durationCounter)'
        = Planned(bank.base[Vault], storage'.durationCounter)
  BY <1>1 DEF Planned, Message, Kind, Snapshot
<1>4. PlanInv'
  BY <1>1, <1>3 DEF PlanInv
<1> QED
  BY <1>1, <1>2, <1>4 DEF Doing, LastOf, Kind

LEMMA CompoundShape ==
  ASSUME TypeOK, NEW before \in Nat, NEW counter
  PROVE  /\ Compound(before) \in Seq(Planned(before, counter))
         /\ InOrder(Compound(before)) /\ Compound(before) # <<>>
         /\ Compound(before)[1] = SellRewards
         /\ LastOf(Compound(before)) = Stake(before)
         /\ Kind(SellRewards) = "SellRewards" /\ Kind(Stake(before)) = "Stake"
<1>1. /\ SellRewards \in Message /\ ProvideLiquidity \in Message /\ Stake(before) \in Message
  BY MessageConstructors
<1>2. /\ Kind(SellRewards) = "SellRewards" /\ Kind(ProvideLiquidity) = "ProvideLiquidity"
      /\ Kind(Stake(before)) = "Stake" /\ Stake(before).before = before
      /\ SellRewards.type = "SellRewards" /\ ProvideLiquidity.type = "ProvideLiquidity"
  BY DEF SellRewards, ProvideLiquidity, Stake, Kind
<1>3. /\ SellRewards \in Planned(before, counter)
      /\ ProvideLiquidity \in Planned(before, counter)
      /\ Stake(before) \in Planned(before, counter)
  BY <1>1, <1>2 DEF Planned
<1>4. /\ <<"SellRewards", "ProvideLiquidity">> \in Follows
      /\ <<"ProvideLiquidity", "Stake">> \in Follows
  BY DEF Follows
<1> DEFINE a == SellRewards
           b == ProvideLiquidity
           c == Stake(before)
           S == Planned(before, counter)
           messages == <<a, b, c>>
<1> HIDE DEF a, b, c, S
<1>5. messages \in Seq(S) /\ messages # <<>> /\ messages[1] = a /\ LastOf(messages) = c
  BY <1>3 DEF LastOf, a, b, c, S
<1>6. InOrder(messages)
  BY <1>2, <1>4 DEF InOrder, a, b, c
<1> QED
  BY <1>2, <1>5, <1>6 DEF a, b, c, S, Compound

LEMMA DepositFlow ==
  ASSUME TypeOK, NEW user \in Users, NEW recipient \in Accounts, NEW amount \in Nat,
         ExecuteDeposit(user, amount, recipient)
  PROVE  /\ OrderInv' /\ PlanInv' /\ UNCHANGED <<donated, now>>
         /\ Idle /\ ~Idle' /\ saved' = Snapshot /\ Doing = "None"
         /\ Doing' = "SellRewards"
         /\ LastOf(queue') = MintVaultToken(amount, recipient)
         /\ queue' \in Seq({m \in Message : m.type # "Unlock"})
<1> DEFINE before == bank.base[Vault]
           counter == storage'.durationCounter
           S == Planned(before, counter)
           m == MintVaultToken(amount, recipient)
           first == Compound(before)
           last == <<m>>
           all == first \o last
<1>1. /\ before \in Nat
  BY ConstantTypes DEF TypeOK, BankType
<1>2. /\ m \in Message /\ m.type = "MintVaultToken" /\ Kind(m) = "MintVaultToken"
  BY MessageConstructors DEF MintVaultToken, Kind
<1>3. BeginTx(all)
  BY DEF ExecuteDeposit
<1>4. <<"Stake", "MintVaultToken">> \in Follows /\ "MintVaultToken" \in LastKinds
  BY DEF Follows, LastKinds
<1> HIDE DEF before, counter, m
<1>5. m \in S
  BY <1>2 DEF Planned
<1>6. /\ first \in Seq(S) /\ InOrder(first) /\ first # <<>> /\ first[1] = SellRewards
      /\ LastOf(first) = Stake(before)
      /\ Kind(SellRewards) = "SellRewards" /\ Kind(Stake(before)) = "Stake"
  BY <1>1, CompoundShape
<1>7. first \in Seq({x \in Message : x.type # "Unlock"})
  <2>1. /\ SellRewards \in Message /\ ProvideLiquidity \in Message /\ Stake(before) \in Message
    BY <1>1, MessageConstructors
  <2>2. /\ SellRewards.type # "Unlock" /\ ProvideLiquidity.type # "Unlock"
        /\ Stake(before).type # "Unlock"
    BY DEF SellRewards, ProvideLiquidity, Stake
  <2> QED
    BY <2>1, <2>2 DEF Compound
<1> HIDE DEF S, first
<1>8. /\ last \in Seq(S) /\ InOrder(last) /\ last # <<>> /\ last[1] = m /\ LastOf(last) = m
      /\ last \in Seq({x \in Message : x.type # "Unlock"})
  BY <1>2, <1>5, OneMessage
<1> HIDE DEF last
<1>9. /\ all \in Seq(S) /\ InOrder(all) /\ all # <<>> /\ all[1] = SellRewards
      /\ LastOf(all) = m
      /\ all \in Seq({x \in Message : x.type # "Unlock"})
  BY <1>2, <1>4, <1>6, <1>7, <1>8, ConcatShape, ConcatProperties
<1> HIDE DEF all
<1>10. /\ OrderInv' /\ PlanInv' /\ UNCHANGED <<donated, now>>
       /\ Idle /\ ~Idle' /\ saved' = Snapshot /\ queue' = all
       /\ Doing = "None" /\ Doing' = Kind(all[1]) /\ LastOf(queue') = LastOf(all)
  BY <1>2, <1>3, <1>4, <1>9, BeginFlow DEF S, before, counter
<1> QED
  BY <1>6, <1>9, <1>10 DEF m

LEMMA UnlockBeginFlow ==
  ASSUME TypeOK, NEW user \in Users, NEW vaultTokens \in Nat,
         ExecuteUnlock(user, vaultTokens)
  PROVE  /\ OrderInv' /\ PlanInv' /\ UNCHANGED <<donated, now>>
         /\ Idle /\ ~Idle' /\ saved' = Snapshot /\ Doing = "None"
         /\ Doing' = "SellRewards"
         /\ LastOf(queue') = SaveClaim
         /\ queue' \in Seq({m \in Message : m.type = "Unlock" => m.amount = vaultTokens})
<1> DEFINE before == bank.base[Vault]
           counter == storage'.durationCounter
           S == Planned(before, counter)
           T == {m \in Message : m.type = "Unlock" => m.amount = vaultTokens}
           a == Unlock(user, vaultTokens)
           b == LockMsg(counter, 1)
           first == Compound(before)
           last == <<a, b, SaveClaim>>
           all == first \o last
<1>1. /\ before \in Nat /\ counter \in Nat /\ counter # VaultDuration
      /\ counter = storage.durationCounter + 1
  BY ConstantTypes DEF TypeOK, BankType, StorageType, ExecuteUnlock, VaultDuration
<1>2. /\ a \in Message /\ a.type = "Unlock" /\ Kind(a) = "Unlock" /\ a.amount = vaultTokens
      /\ SaveClaim \in Message /\ SaveClaim.type = "SaveClaim" /\ Kind(SaveClaim) = "SaveClaim"
  BY MessageConstructors DEF Unlock, SaveClaim, Kind
<1>3. /\ b \in Message /\ b.type = "LockTokens" /\ Kind(b) = "LockDummy"
      /\ b.duration = counter /\ b.amount = 1
  <2>1. b \in Message
    BY <1>1, MessageConstructors
  <2> QED
    BY <1>1, <2>1 DEF LockMsg, Kind
<1>4. BeginTx(all)
  BY <1>1 DEF ExecuteUnlock
<1>5. /\ <<"Stake", "Unlock">> \in Follows /\ "SaveClaim" \in LastKinds
      /\ <<"Unlock", "LockDummy">> \in Follows /\ <<"LockDummy", "SaveClaim">> \in Follows
  BY DEF Follows, LastKinds
<1> HIDE DEF before, counter, a, b
<1>6. a \in S /\ b \in S /\ SaveClaim \in S /\ a \in T /\ b \in T /\ SaveClaim \in T
  BY <1>2, <1>3 DEF Planned
<1>7. /\ first \in Seq(S) /\ InOrder(first) /\ first # <<>> /\ first[1] = SellRewards
      /\ LastOf(first) = Stake(before)
      /\ Kind(SellRewards) = "SellRewards" /\ Kind(Stake(before)) = "Stake"
  BY <1>1, CompoundShape
<1>8. first \in Seq(T)
  <2>1. /\ SellRewards \in Message /\ ProvideLiquidity \in Message /\ Stake(before) \in Message
    BY <1>1, MessageConstructors
  <2>2. /\ SellRewards.type # "Unlock" /\ ProvideLiquidity.type # "Unlock"
        /\ Stake(before).type # "Unlock"
    BY DEF SellRewards, ProvideLiquidity, Stake
  <2> QED
    BY <2>1, <2>2 DEF Compound
<1> HIDE DEF S, T, first
<1>9. /\ last \in Seq(S) /\ last \in Seq(T) /\ last # <<>> /\ last[1] = a
      /\ LastOf(last) = SaveClaim
  BY <1>6 DEF LastOf
<1>10. InOrder(last)
  BY <1>2, <1>3, <1>5 DEF InOrder
<1> HIDE DEF last
<1>11. /\ all \in Seq(S) /\ all \in Seq(T) /\ InOrder(all) /\ all # <<>>
       /\ all[1] = SellRewards /\ LastOf(all) = SaveClaim
  BY <1>2, <1>5, <1>7, <1>8, <1>9, <1>10, ConcatShape, ConcatProperties
<1> HIDE DEF all
<1>12. /\ OrderInv' /\ PlanInv' /\ UNCHANGED <<donated, now>>
       /\ Idle /\ ~Idle' /\ saved' = Snapshot /\ queue' = all
       /\ Doing = "None" /\ Doing' = Kind(all[1]) /\ LastOf(queue') = LastOf(all)
  BY <1>2, <1>4, <1>5, <1>11, BeginFlow DEF S, before, counter
<1> QED
  BY <1>7, <1>11, <1>12 DEF T

LEMMA WithdrawFlow ==
  ASSUME TypeOK, NEW user \in Users, NEW id, NEW recipient \in Accounts,
         ExecuteWithdrawUnlocked(user, id, recipient)
  PROVE  /\ OrderInv' /\ PlanInv' /\ UNCHANGED <<donated, now>>
         /\ Idle /\ ~Idle' /\ saved' = Snapshot /\ Doing = "None"
         /\ Doing' = "Send" /\ claims[id].amount \in Nat
         /\ LastOf(queue') = Send(claims[id].amount, recipient)
         /\ queue'[1] = Send(claims[id].amount, recipient)
<1> DEFINE m == Send(claims[id].amount, recipient)
           all == <<m>>
<1>1. claims[id].amount \in Nat
  BY ClaimTokensType DEF ExecuteWithdrawUnlocked, TypeOK
<1>2. m \in Message /\ m.type = "Send" /\ Kind(m) = "Send"
  BY <1>1, MessageConstructors DEF Send, Kind
<1>3. BeginTx(all) /\ "Send" \in LastKinds
  BY DEF ExecuteWithdrawUnlocked, LastKinds
<1> HIDE DEF m
<1>4. /\ all \in Seq(Planned(bank.base[Vault], storage'.durationCounter))
      /\ InOrder(all) /\ all # <<>> /\ all[1] = m /\ LastOf(all) = m
  BY <1>2, OneMessage DEF Planned
<1> HIDE DEF all
<1>5. /\ OrderInv' /\ PlanInv' /\ UNCHANGED <<donated, now>>
      /\ Idle /\ ~Idle' /\ saved' = Snapshot /\ queue' = all
      /\ Doing = "None" /\ Doing' = Kind(all[1]) /\ LastOf(queue') = LastOf(all)
  BY <1>2, <1>3, <1>4, BeginFlow
<1> QED
  BY <1>1, <1>2, <1>4, <1>5 DEF m

LEMMA ForceRedeemFlow ==
  ASSUME TypeOK, NEW user \in Users, NEW vaultTokens \in Nat, NEW recipient \in Accounts,
         ExecuteForceRedeem(user, vaultTokens, recipient)
  PROVE  LET baseTokens == BurnValue(vaultTokens)
         IN  /\ OrderInv' /\ PlanInv' /\ UNCHANGED <<donated, now>>
             /\ Idle /\ ~Idle' /\ saved' = Snapshot /\ Doing = "None"
             /\ Doing' = "Burn" /\ baseTokens \in Nat /\ storage.lockId \in Nat
             /\ queue'[1] = Burn(vaultTokens)
             /\ queue'[2] = ForceUnlockMsg(storage.lockId, baseTokens)
             /\ LastOf(queue') = Send(baseTokens, recipient)
<1> DEFINE baseTokens == BurnValue(vaultTokens)
           a == Burn(vaultTokens)
           b == ForceUnlockMsg(storage.lockId, baseTokens)
           c == Send(baseTokens, recipient)
           all == <<a, b, c>>
<1>1. baseTokens \in Nat /\ storage.lockId \in Nat
  BY BurnValueType DEF ExecuteForceRedeem, TypeOK, StorageType
<1>2. BeginTx(all)
  BY DEF ExecuteForceRedeem
<1>3. /\ a \in Message /\ Kind(a) = "Burn" /\ a.type = "Burn"
      /\ b \in Message /\ Kind(b) = "ForceUnlock" /\ b.type = "ForceUnlock"
      /\ c \in Message /\ Kind(c) = "Send" /\ c.type = "Send"
  BY <1>1, MessageConstructors DEF Burn, ForceUnlockMsg, Send, Kind
<1>4. /\ <<"Burn", "ForceUnlock">> \in Follows /\ <<"ForceUnlock", "Send">> \in Follows
      /\ "Send" \in LastKinds
  BY DEF Follows, LastKinds
<1> HIDE DEF a, b, c
<1>5. a \in Planned(bank.base[Vault], storage'.durationCounter)
      /\ b \in Planned(bank.base[Vault], storage'.durationCounter)
      /\ c \in Planned(bank.base[Vault], storage'.durationCounter)
  BY <1>3 DEF Planned
<1>6. /\ all \in Seq(Planned(bank.base[Vault], storage'.durationCounter))
      /\ all # <<>> /\ all[1] = a /\ all[2] = b /\ LastOf(all) = c
  BY <1>5 DEF LastOf
<1>7. InOrder(all)
  BY <1>3, <1>4 DEF InOrder
<1> HIDE DEF all
<1>8. /\ OrderInv' /\ PlanInv' /\ UNCHANGED <<donated, now>>
      /\ Idle /\ ~Idle' /\ saved' = Snapshot /\ queue' = all
      /\ Doing = "None" /\ Doing' = Kind(all[1]) /\ LastOf(queue') = LastOf(all)
  BY <1>2, <1>3, <1>4, <1>6, <1>7, BeginFlow
<1> QED
  BY <1>1, <1>3, <1>6, <1>8 DEF a, b, c

LEMMA ForceWithdrawFlow ==
  ASSUME TypeOK, NEW user \in Users, NEW id, NEW amount \in Nat, NEW recipient \in Accounts,
         ExecuteForceWithdrawUnlocking(user, id, amount, recipient)
  PROVE  /\ OrderInv' /\ PlanInv' /\ UNCHANGED <<donated, now>>
         /\ Idle /\ ~Idle' /\ saved' = Snapshot /\ Doing = "None"
         /\ id \in Nat
         /\ LastOf(queue') = Send(amount, recipient)
         /\ IF IsExpired(claims[id], now)
            THEN Doing' = "Send" /\ queue'[1] = Send(amount, recipient)
            ELSE Doing' = "ForceUnlock" /\ queue'[1] = ForceUnlockMsg(id, amount)
<1> DEFINE a == ForceUnlockMsg(id, amount)
           b == Send(amount, recipient)
           S == Planned(bank.base[Vault], storage'.durationCounter)
<1>1. id \in Nat
  BY ForceClaimType DEF ExecuteForceWithdrawUnlocking, TypeOK
<1>2. /\ a \in Message /\ Kind(a) = "ForceUnlock" /\ a.type = "ForceUnlock"
      /\ b \in Message /\ Kind(b) = "Send" /\ b.type = "Send"
  BY <1>1, MessageConstructors DEF ForceUnlockMsg, Send, Kind
<1>3. BeginTx((IF IsExpired(claims[id], now) THEN <<>> ELSE <<a>>) \o <<b>>)
  BY DEF ExecuteForceWithdrawUnlocking
<1>4. <<"ForceUnlock", "Send">> \in Follows /\ "Send" \in LastKinds
  BY DEF Follows, LastKinds
<1> HIDE DEF a, b
<1>5. a \in S /\ b \in S
  BY <1>2 DEF Planned
<1>6. CASE IsExpired(claims[id], now)
  <2> DEFINE all == <<b>>
  <2>1. BeginTx(all)
    BY <1>3, <1>5, <1>6, ConcatEmptySeq, <<b>> \in Seq(S)
  <2>2. all \in Seq(S) /\ InOrder(all) /\ all # <<>> /\ all[1] = b /\ LastOf(all) = b
    BY <1>5, OneMessage
  <2> HIDE DEF all
  <2>3. /\ OrderInv' /\ PlanInv' /\ UNCHANGED <<donated, now>>
        /\ Idle /\ ~Idle' /\ saved' = Snapshot /\ queue' = all
        /\ Doing = "None" /\ Doing' = Kind(all[1]) /\ LastOf(queue') = LastOf(all)
    BY <1>2, <1>4, <2>1, <2>2, BeginFlow
  <2> QED
    BY <1>1, <1>2, <1>6, <2>2, <2>3 DEF b
<1>7. CASE ~IsExpired(claims[id], now)
  <2> DEFINE all == <<a, b>>
  <2>1. BeginTx(all)
    BY <1>3, <1>7, PairIs
  <2>2. all \in Seq(S) /\ InOrder(all) /\ all # <<>> /\ all[1] = a /\ LastOf(all) = b
    BY <1>2, <1>4, <1>5, TwoMessages
  <2> HIDE DEF all
  <2>3. /\ OrderInv' /\ PlanInv' /\ UNCHANGED <<donated, now>>
        /\ Idle /\ ~Idle' /\ saved' = Snapshot /\ queue' = all
        /\ Doing = "None" /\ Doing' = Kind(all[1]) /\ LastOf(queue') = LastOf(all)
    BY <1>2, <1>4, <2>1, <2>2, BeginFlow
  <2> QED
    BY <1>1, <1>2, <1>7, <2>2, <2>3 DEF a, b
<1> QED
  BY <1>6, <1>7

(* A transaction that fails leaves no message; nothing else touches the    *)
(* queue between transactions.                                             *)
LEMMA RevertFlow ==
  ASSUME Revert
  PROVE  /\ OrderInv' /\ PlanInv' /\ Idle' /\ Doing' = "None"
         /\ UNCHANGED <<donated, now>> /\ saved' = NoTx
<1>1. queue' = <<>> /\ saved' = NoTx /\ UNCHANGED <<donated, now>>
  BY DEF Revert
<1>2. OrderInv' /\ PlanInv'
  BY <1>1 DEF OrderInv, PlanInv, InOrder, Idle
<1> QED
  BY <1>1, <1>2 DEF Idle, Doing

LEMMA QuietFlow ==
  ASSUME OrderInv, PlanInv, UNCHANGED <<queue, saved, storage>>
  PROVE  OrderInv' /\ PlanInv' /\ (Idle' <=> Idle) /\ Doing' = Doing
<1>1. OrderInv' /\ (Idle' <=> Idle) /\ Doing' = Doing
  BY DEF OrderInv, InOrder, LastOf, Idle, Doing, Kind
<1>2. Planned(saved.bank.base[Vault], storage.durationCounter)'
        = Planned(saved.bank.base[Vault], storage.durationCounter)
  BY DEF Planned, Message, Kind
<1> QED
  BY <1>1, <1>2 DEF PlanInv


----------------------------------------------------------------------------
(* The locks: the inductive invariant.                                     *)

(* The locks of a table: staked, unlocking, dummies.                       *)
Active(ls) ==
  {id \in DOMAIN ls : ls[id].duration = VaultDuration /\ ls[id].endTime = NotUnlocking}
Dummies(ls) == {id \in DOMAIN ls : ls[id].duration # VaultDuration}
Leaving(ls) == {id \in DOMAIN ls : ls[id].endTime # NotUnlocking}

Staked(ls, lockId, n) ==
  IF n = 0 THEN Active(ls) = {} ELSE Active(ls) = {lockId} /\ ls[lockId].amount = n

DummiesUpTo(ls, n) ==
  \A id \in Dummies(ls) :
    ls[id].amount = 1 /\ ls[id].endTime = NotUnlocking /\ ls[id].duration <= n

LeavingBelow(ls, n) == \A id \in Leaving(ls) : id < n

(* Claims have ids that were issued before the last one, and none has the  *)
(* id of the stake.                                                        *)
ClaimsBelow(cs, ls, n) == \A id \in DOMAIN cs : id < n /\ id \notin Active(ls)

(* A claim that is not matured names its own lock, if any; extra more      *)
(* tokens are in the lock that is being unlocked by force.                 *)
Names(cs, ls, forced, extra) ==
  \A id \in DOMAIN cs :
    id \in Leaving(ls) /\ cs[id].releaseAt > now =>
      /\ ls[id].amount = cs[id].amount + (IF id = forced THEN extra ELSE 0)
      /\ ls[id].endTime = cs[id].releaseAt

(* Between transactions.                                                   *)
Settled(s) ==
  /\ s.pendingClaim = NoClaim
  /\ Staked(s.locks, s.storage.lockId, s.storage.totalStaked)
  /\ DummiesUpTo(s.locks, s.storage.durationCounter)
  /\ LeavingBelow(s.locks, s.lastLockId)
  /\ ClaimsBelow(s.claims, s.locks, s.lastLockId)
  /\ Names(s.claims, s.locks, 0, 0)

Ends(kind) == ~Idle /\ LastOf(queue).type = kind

(* An unlock counts its dummy lock before it makes it.                     *)
DummyInv ==
  DummiesUpTo(locks, IF Ends("SaveClaim") /\ Doing # "SaveClaim"
                     THEN storage.durationCounter - 1 ELSE storage.durationCounter)

(* While n tokens are locked as the stake, and nothing is being unlocked.  *)
Resting(n) ==
  /\ Staked(locks, storage.lockId, n)
  /\ LeavingBelow(locks, lastLockId)
  /\ Names(claims, locks, 0, 0)

(* What was just unlocked for the pending claim has the last id, if any.   *)
Unlocked ==
  /\ lastLockId \notin Active(locks)
  /\ \A id \in Leaving(locks) :
       \/ id < lastLockId
       \/ /\ id = lastLockId
          /\ locks[id].amount = pendingClaim.amount
          /\ locks[id].endTime = pendingClaim.releaseAt

(* The pending claim has that id now.                                      *)
Named ==
  LET id == pendingClaim.id
  IN  /\ id < lastLockId /\ id \notin DOMAIN claims \cup Active(locks)
      /\ id \in Leaving(locks) =>
           /\ locks[id].amount = pendingClaim.amount
           /\ locks[id].endTime = pendingClaim.releaseAt

(* The pending claim is for the tokens that a message will unlock.         *)
PendingFor(m) ==
  /\ pendingClaim # NoClaim
  /\ pendingClaim.amount = m.amount /\ pendingClaim.releaseAt = now + LockupTime

CalmKinds ==
  {"None", "SellRewards", "PayTreasury", "Swap", "ProvideLiquidity", "JoinPool",
   "Stake", "MintVaultToken", "Unlock", "Mint", "Send"}

AtCalm == pendingClaim = NoClaim /\ Resting(storage.totalStaked)

AtLockTokens ==
  /\ pendingClaim = NoClaim
  /\ queue[1].amount \in 1..storage.totalStaked
  /\ Resting(storage.totalStaked - queue[1].amount)

(* m will unlock a part of the stake that is off the staked total already. *)
Unlocks(m) ==
  /\ m.id = storage.lockId
  /\ Resting(storage.totalStaked + m.amount)

AtBurn ==
  /\ Unlocks(queue[2])
  /\ IF queue[2].type = "BeginUnlocking" THEN PendingFor(queue[2])
                                         ELSE pendingClaim = NoClaim

AtBeginUnlocking == Unlocks(queue[1]) /\ PendingFor(queue[1])

AtLockDummy ==
  /\ pendingClaim # NoClaim
  /\ Staked(locks, storage.lockId, storage.totalStaked)
  /\ Names(claims, locks, 0, 0)
  /\ Unlocked

AtSaveClaim == pendingClaim # NoClaim /\ Resting(storage.totalStaked) /\ Named

AtForceUnlock ==
  LET m == queue[1]
      fromStake == IF m.id \in Active(locks) THEN m.amount ELSE 0
  IN  /\ pendingClaim = NoClaim
      /\ Staked(locks, storage.lockId, storage.totalStaked + fromStake)
      /\ LeavingBelow(locks, lastLockId)
      /\ Names(claims, locks, m.id, m.amount)

LocksNow ==
  /\ DummyInv
  /\ ClaimsBelow(claims, locks, lastLockId)
  /\ Doing \in CalmKinds => AtCalm
  /\ Doing = "LockTokens" => AtLockTokens
  /\ Doing = "Burn" => AtBurn
  /\ Doing = "BeginUnlocking" => AtBeginUnlocking
  /\ Doing = "LockDummy" => AtLockDummy
  /\ Doing = "SaveClaim" => AtSaveClaim
  /\ Doing = "ForceUnlock" => AtForceUnlock

SavedInv == ~Idle => Settled(saved)

FlowInv == TypeOK /\ OrderInv /\ PlanInv

LocksInv == FlowInv /\ SavedInv /\ LocksNow

----------------------------------------------------------------------------
(* The locks of a table after each change that the chain makes to it.      *)
LEMMA LockTypes ==
  ASSUME NEW ls, NEW last, IsLockup(ls, last)
  PROVE  /\ last \in Nat
         /\ \A id \in DOMAIN ls :
              /\ id \in 1..last /\ ls[id] \in Lock /\ ls[id].amount \in Nat
              /\ ls[id].duration \in Nat /\ ls[id].endTime \in Nat \cup {NotUnlocking}
  BY DEF IsLockup, Lock

LEMMA LockAdded ==
  ASSUME LockupTypeOK, NEW lock \in Lock, NEW ls, ls = WithLock(NewLockId, lock)
  PROVE  /\ NewLockId \notin DOMAIN locks
         /\ DOMAIN ls = DOMAIN locks \cup {NewLockId}
         /\ ls[NewLockId] = lock
         /\ \A id \in DOMAIN locks : ls[id] = locks[id]
         /\ Active(ls) = IF lock.duration = VaultDuration /\ lock.endTime = NotUnlocking
                         THEN Active(locks) \cup {NewLockId} ELSE Active(locks)
         /\ Dummies(ls) = IF lock.duration # VaultDuration
                          THEN Dummies(locks) \cup {NewLockId} ELSE Dummies(locks)
         /\ Leaving(ls) = IF lock.endTime # NotUnlocking
                          THEN Leaving(locks) \cup {NewLockId} ELSE Leaving(locks)
<1>1. NewLockId \notin DOMAIN locks
  BY DEF LockupTypeOK, IsLockup, NewLockId
<1>2. /\ DOMAIN ls = DOMAIN locks \cup {NewLockId} /\ ls[NewLockId] = lock
      /\ \A id \in DOMAIN locks : ls[id] = locks[id]
  BY <1>1 DEF WithLock
<1> DEFINE n == NewLockId
<1> HIDE DEF n
<1>3. Active(ls) = IF lock.duration = VaultDuration /\ lock.endTime = NotUnlocking
                   THEN Active(locks) \cup {n} ELSE Active(locks)
  BY <1>1, <1>2 DEF Active, n
<1>4. Dummies(ls) = IF lock.duration # VaultDuration
                    THEN Dummies(locks) \cup {n} ELSE Dummies(locks)
  BY <1>1, <1>2 DEF Dummies, n
<1>5. Leaving(ls) = IF lock.endTime # NotUnlocking
                    THEN Leaving(locks) \cup {n} ELSE Leaving(locks)
  BY <1>1, <1>2 DEF Leaving, n
<1> QED
  BY <1>1, <1>2, <1>3, <1>4, <1>5 DEF n

(* A lock changes, and keeps its duration.                                 *)
Changes(ls, new, id) ==
  /\ DOMAIN new = DOMAIN ls /\ id \in DOMAIN ls
  /\ \A i \in DOMAIN ls : i # id => new[i] = ls[i]
  /\ new[id].duration = ls[id].duration

LEMMA LockChanged ==
  ASSUME NEW ls, NEW new, NEW id, Changes(ls, new, id)
  PROVE  /\ Dummies(new) = Dummies(ls)
         /\ new[id].endTime = ls[id].endTime
              => Active(new) = Active(ls) /\ Leaving(new) = Leaving(ls)
         /\ new[id].endTime # NotUnlocking
              => Active(new) = Active(ls) \ {id} /\ Leaving(new) = Leaving(ls) \cup {id}
<1>1. Dummies(new) = Dummies(ls)
  BY DEF Changes, Dummies
<1>2. new[id].endTime = ls[id].endTime
        => Active(new) = Active(ls) /\ Leaving(new) = Leaving(ls)
  BY DEF Changes, Active, Leaving
<1>3. new[id].endTime # NotUnlocking
        => Active(new) = Active(ls) \ {id} /\ Leaving(new) = Leaving(ls) \cup {id}
  BY DEF Changes, Active, Leaving
<1> QED
  BY <1>1, <1>2, <1>3

LEMMA LockGone ==
  ASSUME NEW id, NEW ls, ls = WithoutLock(id)
  PROVE  /\ DOMAIN ls = DOMAIN locks \ {id}
         /\ \A i \in DOMAIN ls : ls[i] = locks[i]
         /\ Active(ls) = Active(locks) \ {id}
         /\ Dummies(ls) = Dummies(locks) \ {id}
         /\ Leaving(ls) = Leaving(locks) \ {id}
<1>1. DOMAIN ls = DOMAIN locks \ {id} /\ \A i \in DOMAIN ls : ls[i] = locks[i]
  BY DEF WithoutLock, Restrict
<1> QED
  BY <1>1 DEF Active, Dummies, Leaving

(* The stake and the rest of a table.                                      *)
LEMMA StakedIs ==
  ASSUME NEW ls, NEW last, IsLockup(ls, last), NEW lockId, NEW n \in Nat,
         Staked(ls, lockId, n)
  PROVE  /\ n = 0 => Active(ls) = {}
         /\ n # 0 => Active(ls) = {lockId} /\ ls[lockId].amount = n /\ lockId \in DOMAIN ls
         /\ \A id \in Active(ls) :
              /\ id = lockId /\ n # 0 /\ id \in DOMAIN ls /\ ls[id].amount = n
              /\ ls[id].duration = VaultDuration /\ ls[id].endTime = NotUnlocking
  BY DEF Staked, Active

LEMMA SetsAreApart ==
  ASSUME NEW ls, NEW last, IsLockup(ls, last)
  PROVE  /\ \A id \in DOMAIN ls : id \in Active(ls) \/ id \in Dummies(ls) \/ id \in Leaving(ls)
         /\ \A id \in Active(ls) :
              id \in DOMAIN ls /\ id \notin Dummies(ls) /\ id \notin Leaving(ls)
         /\ \A id \in Dummies(ls) : id \in DOMAIN ls
         /\ \A id \in Leaving(ls) : id \in DOMAIN ls
  BY DEF Active, Dummies, Leaving

----------------------------------------------------------------------------
(* The locks while messages pass that leave them alone.                    *)
LEMMA SavedKept ==
  ASSUME SavedInv, ~Idle, Idle' \/ saved' = saved, now' = now
  PROVE  SavedInv'
<1>1. ASSUME ~Idle' PROVE Settled(saved)'
  <2>1. Settled(saved) /\ saved' = saved
    BY <1>1 DEF SavedInv
  <2> QED
    BY <2>1 DEF Settled, Staked, DummiesUpTo, LeavingBelow, ClaimsBelow, Names, Active,
                Dummies, Leaving
<1> QED
  BY <1>1 DEF SavedInv

(* An unlock has its last message in common with the saved claim.          *)
LEMMA EndsIs ==
  ASSUME TypeOK, OrderInv
  PROVE  /\ Idle => ~Ends("SaveClaim")
         /\ Doing \in LastKinds => (Ends("SaveClaim") <=> Doing = "SaveClaim")
         /\ Doing = "LockDummy" => Ends("SaveClaim")
<1>1. Doing \in LastKinds => (Ends("SaveClaim") <=> Doing = "SaveClaim")
  <2> SUFFICES ASSUME Doing \in LastKinds
               PROVE  Ends("SaveClaim") <=> Doing = "SaveClaim"
    OBVIOUS
  <2>1. ~Idle
    BY DEF Doing, LastKinds
  <2> QED
    BY <2>1, LastIsAlone, DoingIs DEF Ends, LastKinds
<1>2. ASSUME Doing = "LockDummy" PROVE Ends("SaveClaim")
  <2> DEFINE k == Len(queue)
  <2>1. ~Idle /\ Doing = Kind(queue[1]) /\ queue \in Seq(Message)
    BY <1>2, DoingIs, QueueType DEF Doing
  <2>2. k \in Nat \ {0} /\ Kind(queue[k]) \in LastKinds /\ queue[k] \in Message
    BY <2>1, QueueParts DEF OrderInv, LastOf
  <2>3. /\ "LockDummy" \notin LastKinds
        /\ \A i \in 1..k : i < k => <<Kind(queue[i]), Kind(queue[i + 1])>> \in Follows
    BY DEF OrderInv, InOrder, LastKinds
  <2> HIDE DEF k
  <2>4. k # 1
    BY <1>2, <2>1, <2>2, <2>3
  <2>5. Kind(queue[2]) = "SaveClaim"
    <3>1. 1 \in 1..k /\ 1 < k /\ 1 + 1 = 2
      BY <2>2, <2>4
    <3>2. <<Kind(queue[1]), Kind(queue[2])>> \in Follows
      BY <2>3, <3>1
    <3> QED
      BY <1>2, <2>1, <3>2, FollowsIs
  <2>6. k = 2
    <3> SUFFICES ASSUME k # 2 PROVE FALSE
      OBVIOUS
    <3>1. 2 \in 1..k /\ 2 < k
      BY <2>2, <2>4
    <3>2. <<Kind(queue[2]), Kind(queue[2 + 1])>> \in Follows
      BY <2>3, <3>1
    <3> QED
      BY <2>5, <3>2, FollowsIs DEF LastKinds
  <2>7. queue[k].type = "SaveClaim"
    BY <2>2, <2>5, <2>6, KindIs
  <2> QED
    BY <2>1, <2>7 DEF Ends, LastOf, k
<1> QED
  BY <1>1, <1>2 DEF Ends

LEMMA EndsKept ==
  ASSUME ~Idle, ~Idle', LastOf(queue') = LastOf(queue)
  PROVE  Ends("SaveClaim")' <=> Ends("SaveClaim")
  BY DEF Ends, LastOf

LEMMA CalmStep ==
  ASSUME LocksInv, FlowInv', SavedInv', Doing \in CalmKinds, Doing' \in CalmKinds,
         UNCHANGED <<storage, lockupVars, claimsVars, now>>,
         Ends("SaveClaim")' <=> Ends("SaveClaim")
  PROVE  LocksInv'
<1>1. /\ UNCHANGED <<locks, lastLockId, claims, pendingClaim, now, storage>>
      /\ AtCalm /\ DummyInv /\ ClaimsBelow(claims, locks, lastLockId)
      /\ Doing # "SaveClaim" /\ Doing' # "SaveClaim"
  BY DEF LocksInv, LocksNow, CalmKinds, lockupVars, claimsVars
<1>2. AtCalm'
  BY <1>1 DEF AtCalm, Resting, Staked, LeavingBelow, Names, Active, Leaving
<1>3. DummyInv'
  <2>1. Dummies(locks)' = Dummies(locks)
    BY <1>1 DEF Dummies
  <2> QED
    BY <1>1, <2>1 DEF DummyInv, DummiesUpTo
<1>4. ClaimsBelow(claims, locks, lastLockId)'
  BY <1>1 DEF ClaimsBelow, Active
<1>5. LocksNow'
  BY <1>2, <1>3, <1>4 DEF LocksNow, CalmKinds
<1> QED
  BY <1>5 DEF LocksInv

(* The callbacks and messages that only move other tokens.                 *)
LEMMA FollowsCalm ==
  ASSUME NEW a, NEW b, <<a, b>> \in Follows,
         a \in {"PayTreasury", "Swap", "JoinPool"}
  PROVE  a \notin LastKinds /\ a \in CalmKinds /\ b \in CalmKinds
<1>1. a \notin LastKinds /\ b \in {"Swap", "ProvideLiquidity", "Stake"}
  BY FollowsIs
<1> QED
  BY <1>1 DEF CalmKinds

LEMMA RewardSteps ==
  ASSUME LocksInv, TypeOK',
         HandlePayTreasury \/ HandleSwap \/ HandleJoinPool \/ HandleMint \/ HandleSend
  PROVE  LocksInv'
<1>1. /\ ~Idle /\ Continue(<<>>) /\ UNCHANGED <<storage, lockupVars, claimsVars>>
      /\ Head(queue).type \in {"PayTreasury", "Swap", "JoinPool", "Mint", "Send"}
  BY DEF HandlePayTreasury, HandleSwap, HandleJoinPool, HandleMint, HandleSend, Handles
<1>2. TypeOK /\ OrderInv /\ PlanInv /\ SavedInv
  BY DEF LocksInv, FlowInv
<1>3. /\ OrderInv' /\ PlanInv' /\ now' = now /\ Doing = Head(queue).type
      /\ Doing \in LastKinds => Idle' /\ Doing' = "None"
      /\ Doing \notin LastKinds =>
           /\ ~Idle' /\ saved' = saved /\ <<Doing, Doing'>> \in Follows
           /\ LastOf(queue') = LastOf(queue)
  BY <1>1, <1>2, DoneFlow, DoingIs
<1>4. SavedInv'
  BY <1>1, <1>2, <1>3, SavedKept
<1>5. CASE Doing \in LastKinds
  <2>1. Doing \in {"Mint", "Send"} /\ Doing' = "None" /\ Idle'
    BY <1>1, <1>3, <1>5 DEF LastKinds
  <2>2. ~Ends("SaveClaim") /\ ~Ends("SaveClaim")'
    BY <1>2, <1>5, <2>1, EndsIs DEF Ends
  <2> QED
    BY <1>1, <1>2, <1>3, <1>4, <2>1, <2>2, CalmStep DEF FlowInv, CalmKinds
<1>6. CASE Doing \notin LastKinds
  <2>1. Doing \in {"PayTreasury", "Swap", "JoinPool"}
    BY <1>1, <1>3, <1>6 DEF LastKinds
  <2>2. Doing \in CalmKinds /\ Doing' \in CalmKinds
    BY <1>3, <1>6, <2>1, FollowsCalm
  <2>3. Ends("SaveClaim")' <=> Ends("SaveClaim")
    BY <1>1, <1>3, <1>6, EndsKept
  <2> QED
    BY <1>1, <1>2, <1>3, <1>4, <2>2, <2>3, CalmStep DEF FlowInv
<1> QED
  BY <1>5, <1>6

LEMMA SendToSelfStep ==
  ASSUME LocksInv, TypeOK', HandleSendToSelf
  PROVE  LocksInv'
<1>1. TypeOK /\ OrderInv /\ PlanInv /\ SavedInv
  BY DEF LocksInv, FlowInv
<1>2. /\ ~Idle /\ Idle' /\ Doing = "Send" /\ Doing' = "None" /\ OrderInv' /\ PlanInv'
      /\ UNCHANGED <<storage, lockupVars, claimsVars, now>>
  BY <1>1, SelfFlow
<1>3. SavedInv'
  BY <1>1, <1>2, SavedKept
<1>4. ~Ends("SaveClaim") /\ ~Ends("SaveClaim")'
  BY <1>1, <1>2, EndsIs DEF Ends, LastKinds
<1> QED
  BY <1>1, <1>2, <1>3, <1>4, CalmStep DEF FlowInv, CalmKinds

LEMMA CallbackSteps ==
  ASSUME LocksInv, TypeOK',
         CallbackSellRewards \/ CallbackProvideLiquidity \/ CallbackMintVaultToken
  PROVE  LocksInv'
<1>1. UNCHANGED <<storage, lockupVars, claimsVars>>
  BY DEF CallbackSellRewards, CallbackProvideLiquidity, CallbackMintVaultToken
<1>2. TypeOK /\ OrderInv /\ PlanInv /\ SavedInv
  BY DEF LocksInv, FlowInv
<1>3. CASE CallbackMintVaultToken
  <2>1. /\ OrderInv' /\ PlanInv' /\ now' = now /\ saved' = saved
        /\ ~Idle /\ ~Idle' /\ Doing = "MintVaultToken" /\ Doing' = "Mint"
        /\ LastOf(queue') = queue'[1]
    BY <1>2, <1>3, MintFlow
  <2>2. SavedInv'
    BY <1>2, <2>1, SavedKept
  <2>3. ~Ends("SaveClaim")
    BY <1>2, <2>1, EndsIs DEF LastKinds
  <2>4. ~Ends("SaveClaim")'
    <3>1. Kind(queue'[1]) = "Mint"
      BY <2>1 DEF Doing, Kind
    <3> QED
      BY <2>1, <3>1 DEF Ends, Kind, LastOf
  <2> QED
    BY <1>1, <1>2, <2>1, <2>2, <2>3, <2>4, CalmStep DEF FlowInv, CalmKinds
<1>4. CASE CallbackSellRewards \/ CallbackProvideLiquidity
  <2>1. /\ OrderInv' /\ PlanInv' /\ now' = now /\ saved' = saved
        /\ ~Idle /\ ~Idle' /\ LastOf(queue') = LastOf(queue)
        /\ Doing \in {"SellRewards", "ProvideLiquidity"}
        /\ Doing' \in {"PayTreasury", "Swap", "ProvideLiquidity", "JoinPool", "Stake"}
    <3>1. CASE CallbackSellRewards
      BY <1>2, <3>1, SaleFlow
    <3>2. CASE CallbackProvideLiquidity
      BY <1>2, <3>2, ProvideFlow
    <3> QED
      BY <1>4, <3>1, <3>2
  <2>2. SavedInv' /\ (Ends("SaveClaim")' <=> Ends("SaveClaim"))
    BY <1>2, <2>1, SavedKept, EndsKept
  <2> QED
    BY <1>1, <1>2, <2>1, <2>2, CalmStep DEF FlowInv, CalmKinds
<1> QED
  BY <1>3, <1>4

(* The messages of a redemption.                                           *)
LEMMA UnlockStep ==
  ASSUME LocksInv, TypeOK', CallbackUnlock
  PROVE  LocksInv'
<1> DEFINE base == BurnValue(queue[1].amount)
           m == BeginUnlockMsg(storage.lockId, base)
<1>1. TypeOK /\ OrderInv /\ PlanInv /\ SavedInv
  BY DEF LocksInv, FlowInv
<1>2. /\ OrderInv' /\ PlanInv' /\ now' = now /\ saved' = saved
      /\ ~Idle /\ ~Idle' /\ Doing = "Unlock" /\ Doing' = "Burn"
      /\ Head(queue) = queue[1] /\ base \in Nat
      /\ queue'[2] = m /\ LastOf(queue') = LastOf(queue)
  BY <1>1, UnlockFlow
<1>3. SavedInv' /\ (Ends("SaveClaim")' <=> Ends("SaveClaim"))
  BY <1>1, <1>2, SavedKept, EndsKept
<1>4. /\ UNCHANGED <<locks, lastLockId, claims>>
      /\ base <= storage.totalStaked
      /\ storage' = [storage EXCEPT !.totalStaked = @ - base]
      /\ pendingClaim' # NoClaim
      /\ pendingClaim'.amount = base /\ pendingClaim'.releaseAt = now + LockupTime
  <2>1. pendingClaim' = [owner |-> queue[1].owner, amount |-> base,
                         releaseAt |-> now + LockupTime, id |-> nextClaimId]
    BY <1>2 DEF CallbackUnlock, CreatePendingClaim
  <2>2. pendingClaim' # NoClaim
    <3>1. queue[1].owner \in Users
      BY <1>1, <1>2, DoingIs, MessageFields
    <3>2. pendingClaim' \in Claim
      BY <1>1, <1>2, <2>1, <3>1, ConstantTypes DEF Claim, TypeOK, TxTypeOK, ClaimsTypeOK
    <3> QED
      BY <3>2, ClaimsAssumption DEF ClaimsAssumption
  <2> QED
    BY <1>2, <2>1, <2>2 DEF CallbackUnlock, BurnVaultTokens, lockupVars, CreatePendingClaim
<1>5. storage.totalStaked \in Nat /\ storage \in StorageType
  BY <1>1 DEF TypeOK, StorageType
<1>6. m.amount = base /\ m.id = storage.lockId /\ m.type = "BeginUnlocking"
  BY DEF BeginUnlockMsg
<1> HIDE DEF base, m
<1>7. /\ storage'.lockId = storage.lockId
      /\ storage'.durationCounter = storage.durationCounter
      /\ storage'.totalStaked + base = storage.totalStaked
  BY <1>2, <1>4, <1>5 DEF StorageType
<1>8. AtCalm /\ DummyInv /\ ClaimsBelow(claims, locks, lastLockId)
  BY <1>2 DEF LocksInv, LocksNow, CalmKinds
<1>9. Unlocks(queue[2])'
  BY <1>2, <1>4, <1>6, <1>7, <1>8
  DEF AtCalm, Unlocks, Resting, Staked, LeavingBelow, Names, Active, Leaving
<1>10. PendingFor(queue[2])'
  BY <1>2, <1>4, <1>6 DEF PendingFor
<1>11. DummyInv'
  BY <1>2, <1>3, <1>4, <1>7, <1>8 DEF DummyInv, DummiesUpTo, Dummies
<1>12. ClaimsBelow(claims, locks, lastLockId)'
  BY <1>4, <1>8 DEF ClaimsBelow, Active
<1>13. LocksNow'
  BY <1>2, <1>6, <1>9, <1>10, <1>11, <1>12 DEF LocksNow, CalmKinds, AtBurn
<1> QED
  BY <1>2, <1>3, <1>13 DEF LocksInv, FlowInv

LEMMA BurnStep ==
  ASSUME LocksInv, TypeOK', HandleBurn
  PROVE  LocksInv'
<1> DEFINE m == queue[2]
<1>1. TypeOK /\ OrderInv /\ PlanInv /\ SavedInv
  BY DEF LocksInv, FlowInv
<1>2. ~Idle /\ Continue(<<>>) /\ UNCHANGED <<storage, lockupVars, claimsVars>>
      /\ Head(queue).type = "Burn"
  BY DEF HandleBurn, Handles
<1>3. Doing = "Burn" /\ Doing \notin LastKinds
  BY <1>1, <1>2, DoingIs DEF LastKinds
<1>4. /\ OrderInv' /\ PlanInv' /\ now' = now /\ ~Idle' /\ saved' = saved
      /\ <<Doing, Doing'>> \in Follows /\ queue'[1] = m /\ Doing' = Kind(m) /\ m \in Message
      /\ LastOf(queue') = LastOf(queue)
  BY <1>1, <1>2, <1>3, DoneFlow
<1>5. SavedInv' /\ (Ends("SaveClaim")' <=> Ends("SaveClaim"))
  BY <1>1, <1>2, <1>4, SavedKept, EndsKept
<1>6. UNCHANGED <<storage, locks, lastLockId, claims, pendingClaim>>
  BY <1>2 DEF lockupVars, claimsVars
<1>7. AtBurn /\ DummyInv /\ ClaimsBelow(claims, locks, lastLockId)
  BY <1>3 DEF LocksInv, LocksNow
<1>8. /\ Doing' \in {"BeginUnlocking", "ForceUnlock"} /\ m.type = Doing'
      /\ m.amount \in Nat
  BY <1>3, <1>4, FollowsIs, KindIs, MessageFields
<1>9. DummyInv'
  BY <1>3, <1>5, <1>6, <1>7, <1>8 DEF DummyInv, DummiesUpTo, Dummies
<1>10. ClaimsBelow(claims, locks, lastLockId)'
  BY <1>6, <1>7 DEF ClaimsBelow, Active
<1>11. CASE Doing' = "BeginUnlocking"
  <2>1. AtBeginUnlocking'
    BY <1>4, <1>6, <1>7, <1>8, <1>11
    DEF AtBurn, AtBeginUnlocking, Unlocks, PendingFor, Resting, Staked, LeavingBelow,
        Names, Active, Leaving
  <2>2. LocksNow'
    BY <1>9, <1>10, <1>11, <2>1 DEF LocksNow, CalmKinds
  <2> QED
    BY <1>4, <1>5, <2>2 DEF LocksInv, FlowInv
<1>12. CASE Doing' = "ForceUnlock"
  <2> DEFINE fromStake == IF m.id \in Active(locks) THEN m.amount ELSE 0
  <2>1. /\ pendingClaim = NoClaim /\ m.id = storage.lockId
        /\ Staked(locks, storage.lockId, storage.totalStaked + m.amount)
        /\ LeavingBelow(locks, lastLockId) /\ Names(claims, locks, 0, 0)
    BY <1>7, <1>8, <1>12 DEF AtBurn, Unlocks, Resting
  <2>2. storage.totalStaked \in Nat /\ IsLockup(locks, lastLockId) /\ IsClaimMap(claims)
    BY <1>1, QueueType DEF StorageType
  <2>3. m.amount # 0 => Active(locks) = {m.id}
    BY <1>8, <2>1, <2>2 DEF Staked
  <2>4. Staked(locks, storage.lockId, storage.totalStaked + fromStake)
    BY <1>8, <2>1, <2>3
  <2>5. Names(claims, locks, m.id, m.amount)
    <3>1. m.amount # 0 => m.id \notin Leaving(locks)
      BY <2>2, <2>3, SetsAreApart
    <3>2. \A id \in DOMAIN claims : claims[id].amount \in Nat
      BY <2>2 DEF IsClaimMap, Claim
    <3> QED
      BY <1>8, <2>1, <3>1, <3>2 DEF Names
  <2> HIDE DEF m
  <2>6. AtForceUnlock'
    BY <1>4, <1>6, <2>1, <2>4, <2>5
    DEF AtForceUnlock, Staked, LeavingBelow, Names, Active, Leaving
  <2>7. LocksNow'
    BY <1>9, <1>10, <1>12, <2>6 DEF LocksNow, CalmKinds
  <2> QED
    BY <1>4, <1>5, <2>7 DEF LocksInv, FlowInv
<1> QED
  BY <1>8, <1>11, <1>12

LEMMA StakeStep ==
  ASSUME LocksInv, TypeOK', CallbackStake
  PROVE  LocksInv'
<1> DEFINE amount == AmountToStake
<1>1. TypeOK /\ OrderInv /\ PlanInv /\ SavedInv
  BY DEF LocksInv, FlowInv
<1>2. /\ OrderInv' /\ PlanInv' /\ now' = now /\ saved' = saved
      /\ ~Idle /\ ~Idle' /\ Doing = "Stake"
      /\ LastOf(queue') = LastOf(queue) /\ amount \in Nat
      /\ IF amount = 0
         THEN Doing' \in {"MintVaultToken", "Unlock"}
         ELSE Doing' = "LockTokens" /\ queue'[1] = LockMsg(VaultDuration, amount)
  BY <1>1, StakeFlow
<1>3. SavedInv' /\ (Ends("SaveClaim")' <=> Ends("SaveClaim"))
  BY <1>1, <1>2, SavedKept, EndsKept
<1>4. /\ UNCHANGED <<locks, lastLockId, claims, pendingClaim>>
      /\ storage' = [storage EXCEPT !.totalStaked = @ + amount]
  BY DEF CallbackStake, lockupVars, claimsVars
<1> HIDE DEF amount
<1>5. /\ storage'.lockId = storage.lockId
      /\ storage'.durationCounter = storage.durationCounter
      /\ storage'.totalStaked = storage.totalStaked + amount
      /\ storage.totalStaked \in Nat
  BY <1>1, <1>4 DEF TypeOK, StorageType
<1>6. AtCalm /\ DummyInv /\ ClaimsBelow(claims, locks, lastLockId)
  BY <1>2 DEF LocksInv, LocksNow, CalmKinds
<1>7. DummyInv'
  BY <1>2, <1>3, <1>4, <1>5, <1>6 DEF DummyInv, DummiesUpTo, Dummies
<1>8. ClaimsBelow(claims, locks, lastLockId)'
  BY <1>4, <1>6 DEF ClaimsBelow, Active
<1>9. CASE amount = 0
  <2>1. AtCalm'
    BY <1>2, <1>4, <1>5, <1>6, <1>9
    DEF AtCalm, Resting, Staked, LeavingBelow, Names, Active, Leaving
  <2>2. LocksNow'
    BY <1>2, <1>7, <1>8, <1>9, <2>1 DEF LocksNow, CalmKinds
  <2> QED
    BY <1>2, <1>3, <2>2 DEF LocksInv, FlowInv
<1>10. CASE amount # 0
  <2>1. queue'[1].amount = amount
    BY <1>2, <1>10 DEF LockMsg
  <2>2. /\ amount \in 1..(storage.totalStaked + amount)
        /\ (storage.totalStaked + amount) - amount = storage.totalStaked
    BY <1>2, <1>5, <1>10
  <2>3. AtLockTokens'
    BY <1>2, <1>4, <1>5, <1>6, <2>1, <2>2
    DEF AtCalm, AtLockTokens, Resting, Staked, LeavingBelow, Names, Active, Leaving
  <2>4. LocksNow'
    BY <1>2, <1>7, <1>8, <1>10, <2>3 DEF LocksNow, CalmKinds
  <2> QED
    BY <1>2, <1>3, <2>4 DEF LocksInv, FlowInv
<1> QED
  BY <1>9, <1>10

(* The messages that lock and unlock.                                      *)
LEMMA LockStakeStep ==
  ASSUME LocksInv, TypeOK', HandleLockTokens, Doing = "LockTokens"
  PROVE  LocksInv'
<1> DEFINE amount == queue[1].amount
           lock == [amount |-> amount, duration |-> VaultDuration, endTime |-> NotUnlocking]
           rest == storage.totalStaked - amount
<1>1. TypeOK /\ OrderInv /\ PlanInv /\ SavedInv
  BY DEF LocksInv, FlowInv
<1>2. ~Idle /\ Continue(<<>>) /\ Head(queue) = queue[1] /\ queue[1].duration = VaultDuration
  BY <1>1, DoingIs, KindIs DEF HandleLockTokens, Handles
<1>3. PICK id \in 1..NewLockId :
        /\ LockTokens(VaultDuration, amount, id)
        /\ storage' = [storage EXCEPT !.lockId = id] /\ UNCHANGED claimsVars
  BY <1>2 DEF HandleLockTokens, ReplyLockTokens
<1>4. /\ storage.totalStaked \in Nat /\ IsLockup(locks, lastLockId) /\ IsClaimMap(claims)
      /\ storage'.lockId = id /\ storage'.totalStaked = storage.totalStaked
      /\ storage'.durationCounter = storage.durationCounter
      /\ UNCHANGED <<claims, pendingClaim>> /\ lastLockId \in Nat /\ LockupTypeOK
  BY <1>1, <1>3, QueueType, LockTypes DEF StorageType, claimsVars, LockupTypeOK
<1>5. /\ OrderInv' /\ PlanInv' /\ now' = now /\ ~Idle' /\ saved' = saved
      /\ <<Doing, Doing'>> \in Follows
      /\ LastOf(queue') = LastOf(queue)
  BY <1>1, <1>2, <1>4, DoneFlow DEF LastKinds
<1>6. SavedInv' /\ (Ends("SaveClaim")' <=> Ends("SaveClaim"))
  BY <1>1, <1>2, <1>5, SavedKept, EndsKept
<1>7. Doing' \in CalmKinds /\ Doing' # "SaveClaim"
  BY <1>5, FollowsIs DEF CalmKinds
<1>8. /\ AtLockTokens /\ DummyInv /\ ClaimsBelow(claims, locks, lastLockId)
      /\ pendingClaim = NoClaim /\ amount \in 1..storage.totalStaked
      /\ Staked(locks, storage.lockId, rest)
      /\ LeavingBelow(locks, lastLockId) /\ Names(claims, locks, 0, 0)
  BY DEF LocksInv, LocksNow, AtLockTokens, Resting
<1> HIDE DEF amount
<1>9. rest \in Nat /\ storage.totalStaked = rest + amount /\ amount \in Nat \ {0}
  BY <1>4, <1>8
<1> HIDE DEF rest
<1>10. lock \in Lock
  BY <1>9 DEF Lock, VaultDuration
(* The table afterwards.                                                   *)
<1>11. /\ Active(locks') = {id} /\ locks'[id].amount = rest + amount
       /\ Dummies(locks') = Dummies(locks) /\ Leaving(locks') = Leaving(locks)
       /\ \A i \in Dummies(locks) \cup Leaving(locks) : locks'[i] = locks[i]
       /\ lastLockId' \in Nat /\ lastLockId' >= lastLockId
       /\ id \in Active(locks) \/ id = NewLockId
  <2>1. CASE /\ id \in LocksToAddTo(VaultDuration)
             /\ locks' = [locks EXCEPT ![id].amount = @ + amount] /\ lastLockId' = lastLockId
    <3>1. id \in Active(locks) /\ id \in DOMAIN locks
      BY <2>1 DEF LocksToAddTo, Active, IsUnlocking
    <3>2. locks[id].amount = rest /\ Active(locks) = {id}
      BY <1>4, <1>8, <1>9, <3>1, StakedIs
    <3>3. /\ DOMAIN locks' = DOMAIN locks /\ locks'[id].amount = rest + amount
          /\ \A i \in DOMAIN locks : i # id => locks'[i] = locks[i]
          /\ locks'[id].duration = locks[id].duration
          /\ locks'[id].endTime = locks[id].endTime
      BY <1>4, <2>1, <3>1, <3>2, LockTypes DEF IsLockup, Lock
    <3>5. /\ Dummies(locks') = Dummies(locks)
          /\ Active(locks') = Active(locks) /\ Leaving(locks') = Leaving(locks)
      BY <3>1, <3>3, LockChanged DEF Changes
    <3>6. id \notin Dummies(locks) /\ id \notin Leaving(locks)
      BY <1>4, <3>1, SetsAreApart
    <3>4. \A i \in Dummies(locks) \cup Leaving(locks) : i \in DOMAIN locks
      BY <1>4, SetsAreApart
    <3>7. \A i \in Dummies(locks) \cup Leaving(locks) : locks'[i] = locks[i]
      BY <3>3, <3>4, <3>6
    <3>8. lastLockId' \in Nat /\ lastLockId' >= lastLockId
      BY <1>4, <2>1
    <3> QED
      BY <3>1, <3>2, <3>3, <3>5, <3>7, <3>8
  <2>2. CASE /\ LocksToAddTo(VaultDuration) = {} /\ id = NewLockId
             /\ locks' = WithLock(id, lock) /\ lastLockId' = id
    <3>1. Active(locks) = {}
      BY <2>2 DEF LocksToAddTo, Active, IsUnlocking
    <3>2. rest = 0
      BY <1>4, <1>8, <1>9, <3>1, StakedIs
    <3>3. /\ lock.duration = VaultDuration /\ lock.endTime = NotUnlocking
          /\ lock.amount = amount
      OBVIOUS
    <3> HIDE DEF lock
    <3>7. locks' = WithLock(NewLockId, lock)
      BY <2>2
    <3>8. /\ locks'[NewLockId] = lock
          /\ \A i \in DOMAIN locks : locks'[i] = locks[i]
          /\ Active(locks') = Active(locks) \cup {NewLockId}
          /\ Dummies(locks') = Dummies(locks) /\ Leaving(locks') = Leaving(locks)
      BY <1>4, <1>10, <3>3, <3>7, LockAdded
    <3>4. /\ locks'[id] = lock
          /\ \A i \in DOMAIN locks : locks'[i] = locks[i]
          /\ Active(locks') = Active(locks) \cup {id}
          /\ Dummies(locks') = Dummies(locks) /\ Leaving(locks') = Leaving(locks)
      BY <2>2, <3>8
    <3>5. lastLockId' \in Nat /\ lastLockId' >= lastLockId
      BY <1>4, <2>2 DEF NewLockId
    <3> QED
      BY <1>4, <1>9, <2>2, <3>1, <3>2, <3>3, <3>4, <3>5, SetsAreApart
  <2> QED
    BY <1>3, <2>1, <2>2 DEF LockTokens
<1>12. AtCalm'
  <2>1. Staked(locks', id, rest + amount)
    BY <1>9, <1>11 DEF Staked
  <2>2. LeavingBelow(locks', lastLockId')
    <3>1. \A i \in Leaving(locks) : i \in Nat /\ i < lastLockId
      BY <1>4, <1>8, LockTypes, SetsAreApart DEF LeavingBelow
    <3> QED
      BY <1>4, <1>11, <3>1 DEF LeavingBelow
  <2>3. Names(claims, locks', 0, 0)
    BY <1>8, <1>11 DEF Names
  <2> QED
    BY <1>4, <1>5, <1>8, <1>9, <2>1, <2>2, <2>3
    DEF AtCalm, Resting, Staked, LeavingBelow, Names, Active, Leaving
<1>13. DummyInv'
  BY <1>4, <1>6, <1>7, <1>8, <1>11 DEF DummyInv, DummiesUpTo, Dummies
<1>14. ClaimsBelow(claims, locks, lastLockId)'
  <2>1. ASSUME NEW i \in DOMAIN claims PROVE i < lastLockId' /\ i \notin {id}
    <3>1. i \in Nat /\ i < lastLockId /\ i \notin Active(locks)
      BY <1>4, <1>8 DEF ClaimsBelow, IsClaimMap
    <3> QED
      BY <1>4, <1>11, <3>1 DEF NewLockId
  <2> QED
    BY <1>4, <1>11, <2>1 DEF ClaimsBelow, Active
<1>15. LocksNow'
  BY <1>7, <1>12, <1>13, <1>14 DEF LocksNow, CalmKinds
<1> QED
  BY <1>5, <1>6, <1>15 DEF LocksInv, FlowInv

LEMMA LockDummyStep ==
  ASSUME LocksInv, TypeOK', HandleLockTokens, Doing = "LockDummy"
  PROVE  LocksInv'
<1> DEFINE counter == storage.durationCounter
           lock == [amount |-> 1, duration |-> counter, endTime |-> NotUnlocking]
           n == NewLockId
<1>1. TypeOK /\ OrderInv /\ PlanInv /\ SavedInv
  BY DEF LocksInv, FlowInv
<1>2. ~Idle /\ Continue(<<>>) /\ Head(queue) = queue[1] /\ queue[1].duration # VaultDuration
      /\ queue[1] \in Message /\ Kind(queue[1]) = "LockDummy"
  BY <1>1, DoingIs, KindIs DEF HandleLockTokens, Handles
<1>3. queue[1].duration = counter /\ queue[1].amount = 1
  <2>1. queue \in Seq(Planned(saved.bank.base[Vault], counter))
    BY <1>1, <1>2 DEF PlanInv
  <2>2. queue[1] \in Planned(saved.bank.base[Vault], counter)
    BY <1>2, <2>1, QueueParts
  <2> QED
    BY <1>2, <2>2 DEF Planned
<1>4. PICK id \in 1..n :
        /\ LockTokens(counter, 1, id)
        /\ storage' = storage /\ SetPendingClaimId(id - 1)
  BY <1>2, <1>3 DEF HandleLockTokens, ReplyTempWorkaroundLockTokens
<1>5. /\ storage.totalStaked \in Nat /\ counter \in Nat
      /\ IsLockup(locks, lastLockId) /\ IsClaimMap(claims)
      /\ lastLockId \in Nat /\ LockupTypeOK /\ pendingClaim \in Claim \cup {NoClaim}
  BY <1>1, QueueType, LockTypes DEF StorageType, LockupTypeOK
<1>6. /\ OrderInv' /\ PlanInv' /\ now' = now /\ ~Idle' /\ saved' = saved
      /\ Doing' = "SaveClaim"
  <2>1. /\ OrderInv' /\ PlanInv' /\ now' = now /\ ~Idle' /\ saved' = saved
        /\ <<Doing, Doing'>> \in Follows
    BY <1>1, <1>2, <1>4, DoneFlow DEF LastKinds
  <2> QED
    BY <2>1, FollowsIs
<1>7. SavedInv' /\ Ends("SaveClaim")
  BY <1>1, <1>2, <1>6, SavedKept, EndsIs
<1>8. /\ ClaimsBelow(claims, locks, lastLockId)
      /\ pendingClaim # NoClaim /\ Staked(locks, storage.lockId, storage.totalStaked)
      /\ Names(claims, locks, 0, 0) /\ Unlocked
      /\ DummiesUpTo(locks, counter - 1)
  BY <1>7 DEF LocksInv, LocksNow, AtLockDummy, DummyInv
<1> HIDE DEF counter
<1>9. lock \in Lock /\ counter # VaultDuration
  BY <1>2, <1>3, <1>5 DEF Lock
(* No dummy lock has had the duration yet.                                 *)
<1>10. LocksToAddTo(counter) = {}
  <2> SUFFICES ASSUME NEW i \in LocksToAddTo(counter) PROVE FALSE
    OBVIOUS
  <2>1. i \in DOMAIN locks /\ locks[i].duration = counter
    BY DEF LocksToAddTo
  <2>2. i \in Dummies(locks)
    BY <1>9, <2>1 DEF Dummies
  <2>3. counter <= counter - 1
    BY <1>8, <2>1, <2>2 DEF DummiesUpTo
  <2> QED
    BY <1>5, <2>3
<1>11. id = n /\ locks' = WithLock(n, lock) /\ lastLockId' = n
  BY <1>4, <1>10 DEF LockTokens
<1>12. /\ lock.duration = counter /\ lock.endTime = NotUnlocking /\ lock.amount = 1
  OBVIOUS
<1> HIDE DEF lock
<1>13. /\ n \notin DOMAIN locks
       /\ locks'[n] = lock
       /\ \A i \in DOMAIN locks : locks'[i] = locks[i]
       /\ Active(locks') = Active(locks)
       /\ Dummies(locks') = Dummies(locks) \cup {n} /\ Leaving(locks') = Leaving(locks)
  BY <1>5, <1>9, <1>11, <1>12, LockAdded
<1>14. n = lastLockId + 1 /\ n \in Nat /\ lastLockId < n /\ n - 1 = lastLockId
  BY <1>5 DEF NewLockId
<1>15. pendingClaim' # NoClaim /\ UNCHANGED claims
       /\ pendingClaim'.id = lastLockId /\ pendingClaim'.amount = pendingClaim.amount
       /\ pendingClaim'.releaseAt = pendingClaim.releaseAt
  <2>1. pendingClaim' = [pendingClaim EXCEPT !.id = lastLockId] /\ UNCHANGED claims
    BY <1>4, <1>11, <1>14 DEF SetPendingClaimId
  <2>2. pendingClaim \in Claim
    BY <1>5, <1>8
  <2>3. pendingClaim' \in Claim
    BY <1>5, <2>1, <2>2 DEF Claim
  <2> QED
    BY <2>1, <2>2, <2>3, ClaimsAssumption DEF Claim, ClaimsAssumption
<1> HIDE DEF n
<1>16. \A i \in DOMAIN locks : i \in Nat /\ i <= lastLockId
  BY <1>5, LockTypes
<1>17. LeavingBelow(locks', n)
  BY <1>5, <1>13, <1>14, <1>16, SetsAreApart DEF LeavingBelow
<1>18. \A i \in DOMAIN claims : i \in Nat /\ i < lastLockId /\ i \notin Active(locks)
  BY <1>5, <1>8 DEF ClaimsBelow, IsClaimMap
<1>19. \A i \in Active(locks) \cup Leaving(locks) : i \in DOMAIN locks
  BY <1>5, SetsAreApart
<1>20. AtSaveClaim'
  <2>1. Staked(locks', storage.lockId, storage.totalStaked)
    BY <1>8, <1>13, <1>19 DEF Staked
  <2>2. Names(claims, locks', 0, 0)
    BY <1>8, <1>13, <1>19 DEF Names
  <2>3. Resting(storage.totalStaked)'
    BY <1>4, <1>6, <1>11, <1>15, <1>17, <2>1, <2>2
    DEF Resting, Staked, LeavingBelow, Names, Active, Leaving
  <2>4. lastLockId \notin DOMAIN claims /\ lastLockId \notin Active(locks)
    BY <1>5, <1>8, <1>18 DEF Unlocked
  <2>5. lastLockId \in Leaving(locks) =>
          /\ locks[lastLockId].amount = pendingClaim.amount
          /\ locks[lastLockId].endTime = pendingClaim.releaseAt
    BY <1>5, <1>8 DEF Unlocked
  <2>6. Named'
    BY <1>11, <1>13, <1>14, <1>15, <1>19, <2>4, <2>5 DEF Named, Active, Leaving
  <2> QED
    BY <1>15, <2>3, <2>6 DEF AtSaveClaim
<1>21. DummyInv'
  <2>1. \A i \in Dummies(locks) : i \in DOMAIN locks /\ locks[i].duration \in Nat
    BY <1>5, LockTypes, SetsAreApart
  <2>2. DummiesUpTo(locks', counter)
    BY <1>5, <1>8, <1>12, <1>13, <2>1 DEF DummiesUpTo
  <2> QED
    BY <1>4, <1>6, <2>2 DEF DummyInv, DummiesUpTo, Dummies, counter
<1>22. ClaimsBelow(claims, locks, lastLockId)'
  BY <1>5, <1>11, <1>13, <1>14, <1>15, <1>18 DEF ClaimsBelow, Active
<1>23. LocksNow'
  BY <1>6, <1>20, <1>21, <1>22 DEF LocksNow, CalmKinds
<1> QED
  BY <1>6, <1>7, <1>23 DEF LocksInv, FlowInv

LEMMA BeginUnlockingStep ==
  ASSUME LocksInv, TypeOK', HandleBeginUnlocking
  PROVE  LocksInv'
<1> DEFINE m == queue[1]
           id == m.id
           amount == m.amount
           total == storage.totalStaked
           endTime == now + LockupTime
           part == [amount |-> amount, duration |-> locks[id].duration, endTime |-> endTime]
<1>1. TypeOK /\ OrderInv /\ PlanInv /\ SavedInv
  BY DEF LocksInv, FlowInv
<1>2. /\ ~Idle /\ Continue(<<>>) /\ Head(queue) = queue[1] /\ Doing = "BeginUnlocking"
      /\ BeginUnlocking(id, amount, endTime)
      /\ UNCHANGED <<storage, claims, pendingClaim>>
  BY <1>1, DoingIs DEF HandleBeginUnlocking, Handles, claimsVars
<1>3. /\ OrderInv' /\ PlanInv' /\ now' = now /\ ~Idle' /\ saved' = saved
      /\ Doing' = "LockDummy" /\ LastOf(queue') = LastOf(queue)
  <2>1. /\ OrderInv' /\ PlanInv' /\ now' = now /\ ~Idle' /\ saved' = saved
        /\ <<Doing, Doing'>> \in Follows /\ LastOf(queue') = LastOf(queue)
    BY <1>1, <1>2, DoneFlow DEF LastKinds
  <2> QED
    BY <1>2, <2>1, FollowsIs
<1>4. SavedInv' /\ (Ends("SaveClaim")' <=> Ends("SaveClaim"))
  BY <1>1, <1>2, <1>3, SavedKept, EndsKept
<1>5. /\ total \in Nat /\ IsLockup(locks, lastLockId) /\ IsClaimMap(claims)
      /\ lastLockId \in Nat /\ LockupTypeOK /\ endTime \in Nat /\ amount \in Nat
  BY <1>1, <1>2, QueueType, LockTypes, DoingIs, MessageFields, ConstantTypes
  DEF StorageType, LockupTypeOK
<1>6. /\ DummyInv /\ ClaimsBelow(claims, locks, lastLockId)
      /\ id = storage.lockId /\ Staked(locks, id, total + amount)
      /\ LeavingBelow(locks, lastLockId) /\ Names(claims, locks, 0, 0)
      /\ pendingClaim # NoClaim
      /\ pendingClaim.amount = amount /\ pendingClaim.releaseAt = endTime
  BY <1>2 DEF LocksInv, LocksNow, AtBeginUnlocking, Unlocks, Resting, PendingFor
<1>7. id \in DOMAIN locks /\ amount \in 1..locks[id].amount
  BY <1>2 DEF BeginUnlocking, CanBeginUnlocking
<1>20. locks[id].amount \in Nat /\ locks[id] \in Lock
  BY <1>5, <1>7, LockTypes
<1> HIDE DEF endTime, total, id, amount
<1> DEFINE all == total + amount
<1>8. all \in Nat /\ all # 0
  BY <1>5, <1>7, LockTypes
<1> HIDE DEF all
<1>9. /\ Active(locks) = {id} /\ locks[id].amount = total + amount
      /\ locks[id].duration = VaultDuration /\ locks[id].endTime = NotUnlocking
  <2>1. Staked(locks, id, all)
    BY <1>6 DEF all
  <2>2. Active(locks) = {id} /\ locks[id].amount = all
    BY <1>5, <1>8, <2>1, StakedIs
  <2> QED
    BY <2>2 DEF all, Active
<1>10. /\ id \notin Dummies(locks) /\ id \notin Leaving(locks)
       /\ \A i \in Dummies(locks) \cup Leaving(locks) : i \in DOMAIN locks
  BY <1>5, <1>9, SetsAreApart
<1>11. endTime # NotUnlocking
  BY <1>5 DEF NotUnlocking
(* The table afterwards: x is the id of the tokens that leave.             *)
<1>12. PICK x : x = IF amount < locks[id].amount THEN NewLockId ELSE id
  OBVIOUS
<1>13. /\ Staked(locks', id, total)
       /\ Active(locks') \subseteq {id}
       /\ Dummies(locks') = Dummies(locks) /\ Leaving(locks') = Leaving(locks) \cup {x}
       /\ \A i \in Dummies(locks) \cup Leaving(locks) : i # x /\ locks'[i] = locks[i]
       /\ locks'[x].amount = amount /\ locks'[x].endTime = endTime
       /\ x \notin Active(locks') /\ x \notin DOMAIN claims
       /\ lastLockId' \in Nat /\ lastLockId' >= lastLockId
       /\ x \in Nat /\ x <= lastLockId'
       /\ x # lastLockId' => lastLockId' = lastLockId
       /\ id = lastLockId' => x = id
  <2>1. CASE amount < locks[id].amount
    <3> DEFINE new == WithLock(NewLockId, part)
    <3>1. x = NewLockId /\ lastLockId' = NewLockId /\ locks' = [new EXCEPT ![id].amount = @ - amount]
      <4>1. amount # locks[id].amount
        BY <1>5, <1>20, <2>1
      <4>2. x = NewLockId
        BY <1>12, <2>1
      <4> QED
        BY <1>2, <2>1, <4>1, <4>2 DEF BeginUnlocking
    <3>2. part \in Lock /\ part.duration = VaultDuration /\ part.endTime = endTime
          /\ part.amount = amount
      BY <1>5, <1>9 DEF Lock, VaultDuration
    <3>3. part.endTime # NotUnlocking
      BY <1>11, <3>2
    <3> HIDE DEF part
    <3>4. /\ x \notin DOMAIN locks /\ DOMAIN new = DOMAIN locks \cup {x}
          /\ new[x] = part /\ \A i \in DOMAIN locks : new[i] = locks[i]
          /\ Active(new) = Active(locks) /\ Dummies(new) = Dummies(locks)
          /\ Leaving(new) = Leaving(locks) \cup {x}
      <4>1. new = WithLock(NewLockId, part)
        OBVIOUS
      <4> HIDE DEF new
      <4>2. /\ NewLockId \notin DOMAIN locks /\ DOMAIN new = DOMAIN locks \cup {NewLockId}
            /\ new[NewLockId] = part /\ \A i \in DOMAIN locks : new[i] = locks[i]
        BY <1>5, <3>2, <4>1, LockAdded
      <4>3. Active(new) = Active(locks) /\ Dummies(new) = Dummies(locks)
        BY <1>5, <3>2, <3>3, <4>1, LockAdded
      <4>4. Leaving(new) = Leaving(locks) \cup {NewLockId}
        BY <1>5, <3>2, <3>3, <4>1, LockAdded
      <4> QED
        BY <3>1, <4>2, <4>3, <4>4
    <3>5. IsLockup(new, NewLockId)
      BY <1>5, <3>2, WithLockType
    <3> HIDE DEF new
    <3>6. /\ DOMAIN locks' = DOMAIN new /\ id \in DOMAIN new
          /\ \A i \in DOMAIN new : i # id => locks'[i] = new[i]
          /\ locks'[id].duration = new[id].duration /\ locks'[id].endTime = new[id].endTime
          /\ locks'[id].amount = new[id].amount - amount
      BY <1>7, <3>1, <3>4, <3>5 DEF IsLockup, Lock
    <3>7. /\ Active(locks') = Active(new) /\ Dummies(locks') = Dummies(new)
          /\ Leaving(locks') = Leaving(new)
      BY <3>6, LockChanged DEF Changes
    <3>8. x # id /\ x = lastLockId + 1 /\ x \notin DOMAIN claims
      BY <1>5, <1>6, <1>7, <3>1, <3>4 DEF NewLockId, ClaimsBelow, IsClaimMap
    <3>9. locks'[id].amount = total /\ total # 0
      BY <1>5, <1>7, <1>9, <2>1, <3>4, <3>6, (total + amount) - amount = total
    <3>10. Active(locks') = {id} /\ Staked(locks', id, total)
      BY <1>9, <3>4, <3>7, <3>9 DEF Staked
    <3>11. \A i \in Dummies(locks) \cup Leaving(locks) : i # x /\ locks'[i] = locks[i]
      BY <1>10, <3>4, <3>6
    <3>12. locks'[x].amount = amount /\ locks'[x].endTime = endTime
      BY <3>2, <3>4, <3>6, <3>8
    <3>13. /\ lastLockId' \in Nat /\ lastLockId' >= lastLockId
           /\ x \in Nat /\ x <= lastLockId' /\ x = lastLockId'
           /\ id # lastLockId'
      BY <1>5, <3>1, <3>8
    <3> QED
      BY <3>4, <3>7, <3>8, <3>10, <3>11, <3>12, <3>13
  <2>2. CASE amount = locks[id].amount
    <3>1. x = id /\ lastLockId' = lastLockId /\ locks' = [locks EXCEPT ![id].endTime = endTime]
      <4>1. ~(amount < locks[id].amount)
        BY <1>5, <1>20, <2>2
      <4> QED
        BY <1>2, <1>12, <4>1 DEF BeginUnlocking
    <3>2. /\ DOMAIN locks' = DOMAIN locks
          /\ \A i \in DOMAIN locks : i # id => locks'[i] = locks[i]
          /\ locks'[id].duration = locks[id].duration /\ locks'[id].endTime = endTime
          /\ locks'[id].amount = locks[id].amount
      BY <1>5, <1>7, <3>1 DEF IsLockup, Lock
    <3>3. /\ Dummies(locks') = Dummies(locks)
          /\ Active(locks') = Active(locks) \ {id}
          /\ Leaving(locks') = Leaving(locks) \cup {id}
      BY <1>7, <1>11, <3>2, LockChanged DEF Changes
    <3>4. total = 0
      BY <1>5, <1>9, <2>2
    <3>5. Active(locks') = {} /\ Staked(locks', id, total)
      BY <1>9, <3>3, <3>4 DEF Staked
    <3>6. id \in Nat /\ id <= lastLockId
      BY <1>5, <1>7, LockTypes
    <3>7. id \notin DOMAIN claims
      BY <1>6, <1>9 DEF ClaimsBelow
    <3>8. \A i \in Dummies(locks) \cup Leaving(locks) : i # x /\ locks'[i] = locks[i]
      BY <1>10, <3>1, <3>2
    <3>9. /\ Leaving(locks') = Leaving(locks) \cup {x}
          /\ locks'[x].amount = amount /\ locks'[x].endTime = endTime
          /\ x \notin Active(locks')
      BY <2>2, <3>1, <3>2, <3>3
    <3>10. /\ lastLockId' \in Nat /\ lastLockId' >= lastLockId
           /\ x \in Nat /\ x <= lastLockId'
      BY <1>5, <3>1, <3>6
    <3> QED
      BY <3>1, <3>3, <3>5, <3>7, <3>8, <3>9, <3>10
  <2> QED
    BY <1>2, <2>1, <2>2 DEF BeginUnlocking
<1>14. \A i \in Leaving(locks) : i \in Nat /\ i < lastLockId
  BY <1>5, <1>6, <1>10, LockTypes DEF LeavingBelow
<1>15. \A i \in DOMAIN claims : i \in Nat /\ i < lastLockId /\ i # id
  BY <1>5, <1>6, <1>9 DEF ClaimsBelow, IsClaimMap
<1>16. AtLockDummy'
  <2>1. Staked(locks, storage.lockId, storage.totalStaked)'
    BY <1>2, <1>6, <1>13 DEF Staked, Active, total
  <2>2. Names(claims, locks', 0, 0)
    BY <1>6, <1>13 DEF Names
  <2>3. Names(claims, locks, 0, 0)'
    BY <1>2, <1>3, <2>2 DEF Names, Leaving
  <2>4. \A i \in Leaving(locks') :
           \/ i < lastLockId'
           \/ i = lastLockId' /\ locks'[i].amount = amount /\ locks'[i].endTime = endTime
    <3> TAKE i \in Leaving(locks')
    <3>1. CASE i = x
      BY <1>5, <1>13, <3>1
    <3>2. CASE i \in Leaving(locks)
      BY <1>5, <1>13, <1>14, <3>2
    <3> QED
      BY <1>13, <3>1, <3>2
  <2>5. lastLockId' \notin Active(locks')
    BY <1>13
  <2>6. Unlocked'
    BY <1>2, <1>6, <2>4, <2>5 DEF Unlocked, Active, Leaving
  <2> QED
    BY <1>2, <1>6, <2>1, <2>3, <2>6 DEF AtLockDummy
<1>17. DummyInv'
  <2>1. \A i \in Dummies(locks) : locks'[i] = locks[i]
    BY <1>13
  <2> QED
    BY <1>2, <1>3, <1>4, <1>6, <1>13, <2>1 DEF DummyInv, DummiesUpTo, Dummies
<1>18. ClaimsBelow(claims, locks, lastLockId)'
  <2>1. \A i \in DOMAIN claims : i < lastLockId' /\ i \notin Active(locks')
    BY <1>5, <1>13, <1>15
  <2> QED
    BY <1>2, <2>1 DEF ClaimsBelow, Active
<1>19. LocksNow'
  BY <1>3, <1>16, <1>17, <1>18 DEF LocksNow, CalmKinds
<1> QED
  BY <1>3, <1>4, <1>19 DEF LocksInv, FlowInv

LEMMA SaveClaimStep ==
  ASSUME LocksInv, TypeOK', CallbackSaveClaim
  PROVE  LocksInv'
<1> DEFINE new == pendingClaim.id
<1>1. TypeOK /\ OrderInv /\ PlanInv /\ SavedInv
  BY DEF LocksInv, FlowInv
<1>2. /\ ~Idle /\ Continue(<<>>) /\ Doing = "SaveClaim"
      /\ UNCHANGED <<storage, locks, lastLockId>> /\ pendingClaim' = NoClaim
      /\ DOMAIN claims' = DOMAIN claims \cup {new}
      /\ \A id \in DOMAIN claims : id # new => claims'[id] = claims[id]
      /\ claims'[new] = pendingClaim
  BY <1>1, DoingIs DEF CallbackSaveClaim, CommitPendingClaim, Handles, lockupVars
<1>3. OrderInv' /\ PlanInv' /\ now' = now /\ Idle' /\ Doing' = "None"
  BY <1>1, <1>2, DoneFlow DEF LastKinds
<1>4. SavedInv' /\ ~Ends("SaveClaim")'
  BY <1>1, <1>2, <1>3, SavedKept DEF Ends
<1>5. /\ DummyInv /\ ClaimsBelow(claims, locks, lastLockId)
      /\ Resting(storage.totalStaked) /\ Named /\ pendingClaim # NoClaim
  BY <1>2 DEF LocksInv, LocksNow, AtSaveClaim
<1>6. pendingClaim \in Claim
  BY <1>1, <1>5, QueueType
<1>7. AtCalm'
  <2>1. Names(claims, locks, 0, 0)'
    <3> SUFFICES ASSUME NEW id \in DOMAIN claims', id \in Leaving(locks), claims'[id].releaseAt > now
                 PROVE  /\ locks[id].amount = claims'[id].amount + 0
                        /\ locks[id].endTime = claims'[id].releaseAt
      BY <1>2, <1>3 DEF Names, Leaving
    <3>1. CASE id = new
      <4>1. locks[id].amount = pendingClaim.amount /\ locks[id].endTime = pendingClaim.releaseAt
        BY <1>5, <3>1 DEF Named
      <4> QED
        BY <1>2, <1>6, <3>1, <4>1 DEF Claim
    <3>2. CASE id # new
      BY <1>2, <1>5, <3>2 DEF Resting, Names
    <3> QED
      BY <3>1, <3>2
  <2> QED
    BY <1>2, <1>5, <2>1 DEF AtCalm, Resting, Staked, LeavingBelow, Active, Leaving
<1>8. DummyInv'
  BY <1>2, <1>3, <1>4, <1>5 DEF DummyInv, DummiesUpTo, Dummies
<1>9. ClaimsBelow(claims, locks, lastLockId)'
  BY <1>2, <1>5 DEF ClaimsBelow, Named, Active
<1>10. LocksNow'
  BY <1>3, <1>7, <1>8, <1>9 DEF LocksNow, CalmKinds
<1> QED
  BY <1>3, <1>4, <1>10 DEF LocksInv, FlowInv

LEMMA ForceUnlockStep ==
  ASSUME LocksInv, TypeOK', HandleForceUnlock
  PROVE  LocksInv'
<1> DEFINE id == queue[1].id
           amount == queue[1].amount
           total == storage.totalStaked
           fromStake == IF id \in Active(locks) THEN amount ELSE 0
<1>1. TypeOK /\ OrderInv /\ PlanInv /\ SavedInv
  BY DEF LocksInv, FlowInv
<1>2. /\ ~Idle /\ Continue(<<>>) /\ Doing = "ForceUnlock"
      /\ ForceUnlock(id, amount)
      /\ UNCHANGED <<storage, claims, pendingClaim>>
  BY <1>1, DoingIs DEF HandleForceUnlock, Handles, claimsVars
<1>3. /\ OrderInv' /\ PlanInv' /\ now' = now /\ ~Idle' /\ saved' = saved
      /\ Doing' = "Send" /\ LastOf(queue') = LastOf(queue)
  <2>1. /\ OrderInv' /\ PlanInv' /\ now' = now /\ ~Idle' /\ saved' = saved
        /\ <<Doing, Doing'>> \in Follows /\ LastOf(queue') = LastOf(queue)
    BY <1>1, <1>2, DoneFlow DEF LastKinds
  <2> QED
    BY <1>2, <2>1, FollowsIs
<1>4. SavedInv' /\ (Ends("SaveClaim")' <=> Ends("SaveClaim"))
  BY <1>1, <1>2, <1>3, SavedKept, EndsKept
<1>5. /\ total \in Nat /\ IsLockup(locks, lastLockId) /\ IsClaimMap(claims)
      /\ lastLockId \in Nat /\ amount \in Nat
  BY <1>1, <1>2, QueueType, LockTypes, DoingIs, MessageFields DEF StorageType
<1>6. /\ DummyInv /\ ClaimsBelow(claims, locks, lastLockId)
      /\ pendingClaim = NoClaim
      /\ Staked(locks, storage.lockId, total + fromStake)
      /\ LeavingBelow(locks, lastLockId)
      /\ Names(claims, locks, id, amount)
  BY <1>2 DEF LocksInv, LocksNow, AtForceUnlock
<1>7. id \in DOMAIN locks /\ amount \in 1..locks[id].amount /\ locks[id] \in Lock
  BY <1>2, <1>5, LockTypes DEF ForceUnlock, CanForceUnlock
<1>8. PICK k : k = IF Ends("SaveClaim") /\ Doing # "SaveClaim"
                   THEN storage.durationCounter - 1 ELSE storage.durationCounter
  OBVIOUS
<1>9. DummiesUpTo(locks, k)
  BY <1>6, <1>8 DEF DummyInv
<1>10. fromStake \in Nat /\ total + fromStake \in Nat
  BY <1>5
<1>11. /\ \A i \in Active(locks) :
             i = storage.lockId /\ locks[i].amount = total + fromStake
       /\ total + fromStake # 0 => Active(locks) = {storage.lockId}
       /\ total + fromStake = 0 => Active(locks) = {}
  <2> DEFINE n == total + fromStake
  <2>1. Staked(locks, storage.lockId, n) /\ n \in Nat
    BY <1>6, <1>10
  <2> HIDE DEF n
  <2>2. /\ \A i \in Active(locks) : i = storage.lockId /\ locks[i].amount = n
        /\ n # 0 => Active(locks) = {storage.lockId}
        /\ n = 0 => Active(locks) = {}
    BY <1>5, <2>1, StakedIs
  <2> QED
    BY <2>2 DEF n
<1>12. id \in Dummies(locks) => locks[id].amount = 1
  BY <1>9 DEF DummiesUpTo
<1>13. /\ \A i \in Active(locks) \cup Dummies(locks) \cup Leaving(locks) : i \in DOMAIN locks
  BY <1>5, SetsAreApart
<1> HIDE DEF id, amount, total
<1>14. locks[id].amount \in Nat
  BY <1>7 DEF Lock
(* The table afterwards.                                                   *)
<1>15. /\ Staked(locks', storage.lockId, total)
       /\ Active(locks') \subseteq Active(locks) /\ Leaving(locks') \subseteq Leaving(locks)
       /\ Dummies(locks') \subseteq Dummies(locks)
       /\ \A i \in DOMAIN locks' :
            /\ i \in DOMAIN locks
            /\ i # id => locks'[i] = locks[i]
            /\ i = id => /\ locks'[i].amount = locks[i].amount - amount
                         /\ locks'[i].endTime = locks[i].endTime
       /\ id \notin Dummies(locks')
       /\ lastLockId' \in Nat /\ lastLockId' >= lastLockId
  <2>1. CASE amount < locks[id].amount
    <3>1. locks' = [locks EXCEPT ![id].amount = @ - amount] /\ lastLockId' = NewLockId
      <4>1. amount # locks[id].amount
        BY <1>5, <1>14, <2>1
      <4> QED
        BY <1>2, <4>1 DEF ForceUnlock
    <3>2. /\ DOMAIN locks' = DOMAIN locks
          /\ \A i \in DOMAIN locks : i # id => locks'[i] = locks[i]
          /\ locks'[id].duration = locks[id].duration
          /\ locks'[id].endTime = locks[id].endTime
          /\ locks'[id].amount = locks[id].amount - amount
      BY <1>5, <1>7, <3>1 DEF IsLockup, Lock
    <3>3. /\ Active(locks') = Active(locks) /\ Dummies(locks') = Dummies(locks)
          /\ Leaving(locks') = Leaving(locks)
      BY <1>7, <3>2, LockChanged DEF Changes
    <3>4. id \notin Dummies(locks)
      BY <1>5, <1>7, <1>12, <2>1
    <3>5. Staked(locks', storage.lockId, total)
      <4>1. CASE id \in Active(locks)
        <5>1. fromStake = amount /\ id = storage.lockId /\ locks[id].amount = total + amount
          BY <1>11, <4>1
        <5>2. locks'[id].amount = total /\ total # 0 /\ total + amount # 0
          BY <1>5, <1>7, <2>1, <3>2, <5>1, (total + amount) - amount = total
        <5> QED
          BY <1>11, <3>3, <5>1, <5>2 DEF Staked
      <4>2. CASE id \notin Active(locks)
        <5>1. fromStake = 0 /\ total + fromStake = total
          BY <1>5, <4>2
        <5>2. total # 0 => Active(locks) = {storage.lockId} /\ storage.lockId # id
          BY <1>11, <4>2, <5>1
        <5> QED
          BY <1>11, <1>13, <3>2, <3>3, <5>1, <5>2 DEF Staked
      <4> QED
        BY <4>1, <4>2
    <3>6. lastLockId' \in Nat /\ lastLockId' >= lastLockId
      BY <1>5, <3>1 DEF NewLockId
    <3> QED
      BY <3>2, <3>3, <3>4, <3>5, <3>6
  <2>2. CASE amount = locks[id].amount
    <3>1. locks' = WithoutLock(id) /\ lastLockId' = lastLockId
      <4>1. ~(amount < locks[id].amount)
        BY <1>5, <1>14, <2>2
      <4> QED
        BY <1>2, <4>1 DEF ForceUnlock
    <3>2. /\ DOMAIN locks' = DOMAIN locks \ {id}
          /\ \A i \in DOMAIN locks' : locks'[i] = locks[i]
          /\ Active(locks') = Active(locks) \ {id}
          /\ Dummies(locks') = Dummies(locks) \ {id}
          /\ Leaving(locks') = Leaving(locks) \ {id}
      BY <3>1, LockGone
    <3>3. Staked(locks', storage.lockId, total)
      <4>1. CASE id \in Active(locks)
        <5>1. fromStake = amount /\ id = storage.lockId /\ locks[id].amount = total + amount
          BY <1>11, <4>1
        <5>2. total = 0 /\ total + amount # 0
          BY <1>5, <1>7, <2>2, <5>1
        <5> QED
          BY <1>11, <3>2, <5>1, <5>2 DEF Staked
      <4>2. CASE id \notin Active(locks)
        <5>1. fromStake = 0 /\ total + fromStake = total
          BY <1>5, <4>2
        <5>2. total # 0 => Active(locks) = {storage.lockId} /\ storage.lockId # id
          BY <1>11, <4>2, <5>1
        <5>3. total # 0 => locks[storage.lockId].amount = total
          BY <1>11, <5>1, <5>2
        <5>4. total # 0 => locks'[storage.lockId] = locks[storage.lockId]
          BY <1>13, <3>2, <5>2
        <5>5. Active(locks') = Active(locks)
          BY <3>2, <4>2
        <5> QED
          BY <1>11, <5>1, <5>2, <5>3, <5>4, <5>5 DEF Staked
      <4> QED
        BY <4>1, <4>2
    <3>4. lastLockId' \in Nat /\ lastLockId' >= lastLockId
      BY <1>5, <3>1
    <3> QED
      BY <3>2, <3>3, <3>4
  <2> QED
    BY <1>2, <2>1, <2>2 DEF ForceUnlock
<1>16. AtCalm'
  <2>1. LeavingBelow(locks', lastLockId')
    <3>1. \A i \in Leaving(locks) : i \in Nat /\ i < lastLockId
      BY <1>5, <1>6, <1>13, LockTypes DEF LeavingBelow
    <3> QED
      BY <1>5, <1>15, <3>1 DEF LeavingBelow
  <2>2. Names(claims, locks', 0, 0)
    <3> SUFFICES ASSUME NEW i \in DOMAIN claims, i \in Leaving(locks'), claims[i].releaseAt > now
                 PROVE  /\ locks'[i].amount = claims[i].amount + 0
                        /\ locks'[i].endTime = claims[i].releaseAt
      BY DEF Names
    <3>1. /\ i \in Leaving(locks) /\ i \in DOMAIN locks' /\ claims[i].amount \in Nat
          /\ locks[i].endTime = claims[i].releaseAt
          /\ locks[i].amount = claims[i].amount + (IF i = id THEN amount ELSE 0)
      BY <1>5, <1>6, <1>15 DEF Names, IsClaimMap, Claim, Leaving
    <3>2. CASE i = id
      BY <1>5, <1>15, <3>1, <3>2, (claims[i].amount + amount) - amount = claims[i].amount
    <3>3. CASE i # id
      BY <1>15, <3>1, <3>3
    <3> QED
      BY <3>2, <3>3
  <2> QED
    BY <1>2, <1>3, <1>6, <1>15, <2>1, <2>2
    DEF AtCalm, Resting, Staked, LeavingBelow, Names, Active, Leaving, total
<1>17. DummyInv'
  <2>1. DummiesUpTo(locks', k)
    <3>1. \A i \in Dummies(locks') : i \in Dummies(locks) /\ locks'[i] = locks[i]
      BY <1>15 DEF Dummies
    <3> QED
      BY <1>9, <3>1 DEF DummiesUpTo
  <2>2. k = (IF Ends("SaveClaim") /\ Doing # "SaveClaim"
             THEN storage.durationCounter - 1 ELSE storage.durationCounter)'
    BY <1>2, <1>3, <1>4, <1>8
  <2> QED
    BY <2>1, <2>2 DEF DummyInv, DummiesUpTo, Dummies
<1>18. ClaimsBelow(claims, locks, lastLockId)'
  <2>1. \A i \in DOMAIN claims : i \in Nat /\ i < lastLockId /\ i \notin Active(locks)
    BY <1>5, <1>6 DEF ClaimsBelow, IsClaimMap
  <2>2. \A i \in DOMAIN claims : i < lastLockId' /\ i \notin Active(locks')
    BY <1>5, <1>15, <2>1
  <2> QED
    BY <1>2, <2>2 DEF ClaimsBelow, Active
<1>19. LocksNow'
  BY <1>3, <1>16, <1>17, <1>18 DEF LocksNow, CalmKinds
<1> QED
  BY <1>3, <1>4, <1>19 DEF LocksInv, FlowInv

----------------------------------------------------------------------------
(* Where transactions begin and end.                                       *)
LEMMA AtRest ==
  ASSUME LocksInv, Idle
  PROVE  /\ TypeOK /\ AtCalm /\ ClaimsBelow(claims, locks, lastLockId)
         /\ DummiesUpTo(locks, storage.durationCounter)
         /\ Doing = "None" /\ Doing \in CalmKinds /\ ~Ends("SaveClaim")
         /\ Settled(Snapshot)
<1>1. /\ TypeOK /\ Doing = "None" /\ Doing \in CalmKinds /\ ~Ends("SaveClaim")
      /\ ClaimsBelow(claims, locks, lastLockId) /\ AtCalm /\ DummyInv
  BY DEF LocksInv, FlowInv, LocksNow, Doing, CalmKinds, Ends
<1>2. DummiesUpTo(locks, storage.durationCounter)
  BY <1>1 DEF DummyInv
<1>3. Settled(Snapshot)
  BY <1>1, <1>2 DEF Settled, Snapshot, AtCalm, Resting
<1> QED
  BY <1>1, <1>2, <1>3

LEMMA BegunSaved ==
  ASSUME LocksInv, Idle, saved' = Snapshot, now' = now
  PROVE  SavedInv'
<1>1. Settled(Snapshot) /\ saved' = Snapshot
  BY AtRest
<1>2. Settled(saved)'
  BY <1>1 DEF Settled, Staked, DummiesUpTo, LeavingBelow, ClaimsBelow, Names, Active,
              Dummies, Leaving
<1> QED
  BY <1>2 DEF SavedInv

LEMMA RevertStep ==
  ASSUME LocksInv, TypeOK', ~Idle, Revert
  PROVE  LocksInv'
<1>1. Settled(saved)
  BY DEF LocksInv, SavedInv
<1>2. OrderInv' /\ PlanInv' /\ Idle' /\ Doing' = "None" /\ now' = now
  BY RevertFlow
<1>3. /\ storage' = saved.storage /\ locks' = saved.locks /\ lastLockId' = saved.lastLockId
      /\ claims' = saved.claims /\ pendingClaim' = saved.pendingClaim
  BY DEF Revert
<1>4. AtCalm'
  BY <1>1, <1>2, <1>3
  DEF Settled, AtCalm, Resting, Staked, LeavingBelow, Names, Active, Leaving
<1>5. ~Ends("SaveClaim")' /\ SavedInv'
  BY <1>2 DEF Ends, SavedInv
<1>6. DummyInv'
  BY <1>1, <1>3, <1>5 DEF Settled, DummyInv, DummiesUpTo, Dummies
<1>7. ClaimsBelow(claims, locks, lastLockId)'
  BY <1>1, <1>3 DEF Settled, ClaimsBelow, Active
<1>8. LocksNow'
  BY <1>2, <1>4, <1>6, <1>7 DEF LocksNow, CalmKinds
<1> QED
  BY <1>2, <1>5, <1>8 DEF LocksInv, FlowInv

LEMMA DepositStep ==
  ASSUME LocksInv, TypeOK', NEW user \in Users, NEW recipient \in Accounts, NEW amount \in Nat,
         ExecuteDeposit(user, amount, recipient)
  PROVE  LocksInv'
<1>1. TypeOK
  BY DEF LocksInv, FlowInv
<1>2. /\ OrderInv' /\ PlanInv' /\ now' = now /\ Idle /\ ~Idle' /\ saved' = Snapshot
      /\ Doing' = "SellRewards" /\ LastOf(queue') = MintVaultToken(amount, recipient)
  BY <1>1, DepositFlow
<1>3. SavedInv'
  BY <1>2, BegunSaved
<1>4. ~Ends("SaveClaim") /\ Doing \in CalmKinds
  BY <1>2, AtRest
<1>5. ~Ends("SaveClaim")'
  BY <1>2 DEF Ends, MintVaultToken, LastOf
<1>6. UNCHANGED <<storage, lockupVars, claimsVars>>
  BY DEF ExecuteDeposit
<1> QED
  BY <1>2, <1>3, <1>4, <1>5, <1>6, CalmStep DEF FlowInv, CalmKinds

LEMMA ExecuteUnlockStep ==
  ASSUME LocksInv, TypeOK', NEW user \in Users, NEW vaultTokens \in Nat,
         ExecuteUnlock(user, vaultTokens)
  PROVE  LocksInv'
<1>1. TypeOK
  BY DEF LocksInv, FlowInv
<1>2. /\ OrderInv' /\ PlanInv' /\ now' = now /\ Idle /\ ~Idle' /\ saved' = Snapshot
      /\ Doing' = "SellRewards" /\ LastOf(queue') = SaveClaim
  BY <1>1, UnlockBeginFlow
<1>3. /\ UNCHANGED <<locks, lastLockId, claims, pendingClaim>>
      /\ storage'.lockId = storage.lockId /\ storage'.totalStaked = storage.totalStaked
      /\ storage'.durationCounter = storage.durationCounter + 1
      /\ storage.durationCounter \in Nat
  BY <1>1 DEF ExecuteUnlock, lockupVars, claimsVars, TypeOK, StorageType
<1>4. /\ AtCalm /\ ClaimsBelow(claims, locks, lastLockId)
      /\ DummiesUpTo(locks, storage.durationCounter)
  BY <1>2, AtRest
<1>5. SavedInv'
  BY <1>2, BegunSaved
<1>6. Ends("SaveClaim")'
  BY <1>2 DEF Ends, SaveClaim, LastOf
<1>7. DummyInv'
  <2>1. storage'.durationCounter - 1 = storage.durationCounter
    BY <1>3
  <2> QED
    BY <1>2, <1>3, <1>4, <1>6, <2>1 DEF DummyInv, DummiesUpTo, Dummies
<1>8. AtCalm'
  BY <1>2, <1>3, <1>4
  DEF AtCalm, Resting, Staked, LeavingBelow, Names, Active, Leaving
<1>9. ClaimsBelow(claims, locks, lastLockId)'
  BY <1>3, <1>4 DEF ClaimsBelow, Active
<1>10. LocksNow'
  BY <1>2, <1>7, <1>8, <1>9 DEF LocksNow, CalmKinds
<1> QED
  BY <1>2, <1>5, <1>10 DEF LocksInv, FlowInv

LEMMA WithdrawStep ==
  ASSUME LocksInv, TypeOK', NEW user \in Users, NEW id, NEW recipient \in Accounts,
         ExecuteWithdrawUnlocked(user, id, recipient)
  PROVE  LocksInv'
<1>1. TypeOK
  BY DEF LocksInv, FlowInv
<1>2. /\ OrderInv' /\ PlanInv' /\ now' = now /\ Idle /\ ~Idle' /\ saved' = Snapshot
      /\ Doing' = "Send" /\ claims[id].amount \in Nat
      /\ LastOf(queue') = Send(claims[id].amount, recipient)
  BY <1>1, WithdrawFlow
<1>3. /\ UNCHANGED <<storage, locks, lastLockId, pendingClaim>>
      /\ DOMAIN claims' \subseteq DOMAIN claims
      /\ \A i \in DOMAIN claims' : claims'[i] = claims[i]
  BY DEF ExecuteWithdrawUnlocked, ClaimTokens, lockupVars, Restrict
<1>4. /\ AtCalm /\ ClaimsBelow(claims, locks, lastLockId)
      /\ DummiesUpTo(locks, storage.durationCounter)
  BY <1>2, AtRest
<1>5. SavedInv'
  BY <1>2, BegunSaved
<1>6. ~Ends("SaveClaim")'
  BY <1>2 DEF Ends, Send, LastOf
<1>7. DummyInv'
  BY <1>2, <1>3, <1>4, <1>6 DEF DummyInv, DummiesUpTo, Dummies
<1>8. AtCalm'
  BY <1>2, <1>3, <1>4
  DEF AtCalm, Resting, Staked, LeavingBelow, Names, Active, Leaving
<1>9. ClaimsBelow(claims, locks, lastLockId)'
  BY <1>3, <1>4 DEF ClaimsBelow, Active
<1>10. LocksNow'
  BY <1>2, <1>7, <1>8, <1>9 DEF LocksNow, CalmKinds
<1> QED
  BY <1>2, <1>5, <1>10 DEF LocksInv, FlowInv

LEMMA ForceRedeemStep ==
  ASSUME LocksInv, TypeOK', NEW user \in Users, NEW vaultTokens \in Nat,
         NEW recipient \in Accounts, ExecuteForceRedeem(user, vaultTokens, recipient)
  PROVE  LocksInv'
<1> DEFINE base == BurnValue(vaultTokens)
<1>1. TypeOK
  BY DEF LocksInv, FlowInv
<1>2. /\ OrderInv' /\ PlanInv' /\ now' = now /\ Idle /\ ~Idle' /\ saved' = Snapshot
      /\ Doing' = "Burn" /\ base \in Nat
      /\ queue'[2] = ForceUnlockMsg(storage.lockId, base)
      /\ LastOf(queue') = Send(base, recipient)
  BY <1>1, ForceRedeemFlow
<1>3. /\ UNCHANGED <<locks, lastLockId, claims, pendingClaim>>
      /\ storage'.lockId = storage.lockId
      /\ storage'.totalStaked + base = storage.totalStaked
      /\ storage'.durationCounter = storage.durationCounter
  <2>1. /\ storage' = [storage EXCEPT !.totalStaked = @ - base]
        /\ storage \in StorageType /\ storage.totalStaked \in Nat
        /\ UNCHANGED <<locks, lastLockId, claims, pendingClaim>>
    BY <1>1 DEF ExecuteForceRedeem, BurnVaultTokens, lockupVars, claimsVars, TypeOK,
                StorageType
  <2> HIDE DEF base
  <2>2. (storage.totalStaked - base) + base = storage.totalStaked
    BY <1>2, <2>1
  <2> QED
    BY <2>1, <2>2 DEF StorageType
<1>4. /\ AtCalm /\ ClaimsBelow(claims, locks, lastLockId)
      /\ DummiesUpTo(locks, storage.durationCounter)
  BY <1>2, AtRest
<1>5. SavedInv'
  BY <1>2, BegunSaved
<1>6. ~Ends("SaveClaim")'
  BY <1>2 DEF Ends, Send, LastOf
<1> HIDE DEF base
<1>7. DummyInv'
  BY <1>2, <1>3, <1>4, <1>6 DEF DummyInv, DummiesUpTo, Dummies
<1>8. queue'[2].id = storage.lockId /\ queue'[2].amount = base
      /\ queue'[2].type # "BeginUnlocking"
  BY <1>2 DEF ForceUnlockMsg
<1>9. AtBurn'
  BY <1>2, <1>3, <1>4, <1>8
  DEF AtCalm, AtBurn, Unlocks, Resting, Staked, LeavingBelow, Names, Active, Leaving
<1>10. ClaimsBelow(claims, locks, lastLockId)'
  BY <1>3, <1>4 DEF ClaimsBelow, Active
<1>11. LocksNow'
  BY <1>2, <1>7, <1>9, <1>10 DEF LocksNow, CalmKinds
<1> QED
  BY <1>2, <1>5, <1>11 DEF LocksInv, FlowInv

(* A claim becomes smaller before the tokens are taken out of its lock.    *)
LEMMA ForceWithdrawStep ==
  ASSUME LocksInv, TypeOK', NEW user \in Users, NEW id, NEW amount \in Nat,
         NEW recipient \in Accounts,
         ExecuteForceWithdrawUnlocking(user, id, amount, recipient)
  PROVE  LocksInv'
<1>1. TypeOK /\ IsClaimMap(claims) /\ IsLockup(locks, lastLockId)
      /\ storage.totalStaked \in Nat
  BY QueueType DEF LocksInv, FlowInv, StorageType
<1>2. /\ OrderInv' /\ PlanInv' /\ now' = now /\ Idle /\ ~Idle' /\ saved' = Snapshot
      /\ LastOf(queue') = Send(amount, recipient)
      /\ IF IsExpired(claims[id], now)
         THEN Doing' = "Send" /\ queue'[1] = Send(amount, recipient)
         ELSE Doing' = "ForceUnlock" /\ queue'[1] = ForceUnlockMsg(id, amount)
  BY <1>1, ForceWithdrawFlow
<1>3. /\ UNCHANGED <<storage, locks, lastLockId, pendingClaim>> /\ id \in DOMAIN claims
      /\ DOMAIN claims' \subseteq DOMAIN claims
      /\ \A i \in DOMAIN claims' :
           /\ claims'[i].releaseAt = claims[i].releaseAt
           /\ i # id => claims'[i] = claims[i]
           /\ i = id => claims'[i].amount = claims[i].amount - amount
  <2>1. /\ UNCHANGED <<storage, locks, lastLockId, pendingClaim>> /\ id \in DOMAIN claims
        /\ claims' = IF amount < claims[id].amount
                     THEN [claims EXCEPT ![id].amount = @ - amount]
                     ELSE Restrict(claims, DOMAIN claims \ {id})
    BY DEF ExecuteForceWithdrawUnlocking, ForceClaim, lockupVars
  <2>2. CASE amount < claims[id].amount
    BY <1>1, <2>1, <2>2 DEF IsClaimMap, Claim
  <2>3. CASE ~(amount < claims[id].amount)
    BY <2>1, <2>3 DEF Restrict
  <2> QED
    BY <2>1, <2>2, <2>3
<1>4. /\ AtCalm /\ ClaimsBelow(claims, locks, lastLockId)
      /\ DummiesUpTo(locks, storage.durationCounter)
  BY <1>2, AtRest
<1>5. SavedInv'
  BY <1>2, BegunSaved
<1>6. ~Ends("SaveClaim")'
  BY <1>2 DEF Ends, Send, LastOf
<1>7. DummyInv'
  BY <1>2, <1>3, <1>4, <1>6 DEF DummyInv, DummiesUpTo, Dummies
<1>8. ClaimsBelow(claims, locks, lastLockId)'
  BY <1>3, <1>4 DEF ClaimsBelow, Active
<1>9. Names(claims, locks, 0, 0) /\ \A i \in DOMAIN claims : claims[i].amount \in Nat
  BY <1>1, <1>4 DEF AtCalm, Resting, IsClaimMap, Claim
<1>10. CASE IsExpired(claims[id], now)
  <2>1. claims[id].releaseAt \in Nat /\ ~(claims[id].releaseAt > now)
    BY <1>1, <1>3, <1>10, QueueType DEF IsExpired, IsClaimMap, Claim
  <2>2. Names(claims', locks, 0, 0)
    BY <1>3, <1>9, <2>1 DEF Names
  <2>3. AtCalm'
    BY <1>2, <1>3, <1>4, <2>2
    DEF AtCalm, Resting, Staked, LeavingBelow, Names, Active, Leaving
  <2>4. LocksNow'
    BY <1>2, <1>7, <1>8, <1>10, <2>3 DEF LocksNow, CalmKinds
  <2> QED
    BY <1>2, <1>5, <2>4 DEF LocksInv, FlowInv
<1>11. CASE ~IsExpired(claims[id], now)
  <2>1. queue'[1].id = id /\ queue'[1].amount = amount
    BY <1>2, <1>11 DEF ForceUnlockMsg
  <2>2. id \notin Active(locks)
    BY <1>3, <1>4 DEF ClaimsBelow
  <2>3. Names(claims', locks, id, amount)
    <3> SUFFICES ASSUME NEW i \in DOMAIN claims', i \in Leaving(locks), claims'[i].releaseAt > now
                 PROVE  /\ locks[i].amount = claims'[i].amount + (IF i = id THEN amount ELSE 0)
                        /\ locks[i].endTime = claims'[i].releaseAt
      BY DEF Names
    <3>1. /\ i \in DOMAIN claims /\ claims'[i].releaseAt = claims[i].releaseAt
          /\ claims[i].amount \in Nat
          /\ locks[i].amount = claims[i].amount + 0 /\ locks[i].endTime = claims[i].releaseAt
      BY <1>3, <1>9 DEF Names
    <3>2. CASE i = id
      BY <1>3, <3>1, <3>2, (claims[i].amount - amount) + amount = claims[i].amount
    <3>3. CASE i # id
      BY <1>3, <3>1, <3>3
    <3> QED
      BY <3>2, <3>3
  <2>4. storage.totalStaked + 0 = storage.totalStaked
    BY <1>1
  <2>5. AtForceUnlock'
    BY <1>2, <1>3, <1>4, <2>1, <2>2, <2>3, <2>4
    DEF AtCalm, AtForceUnlock, Resting, Staked, LeavingBelow, Names, Active, Leaving
  <2>6. LocksNow'
    BY <1>2, <1>7, <1>8, <1>11, <2>5 DEF LocksNow, CalmKinds
  <2> QED
    BY <1>2, <1>5, <2>6 DEF LocksInv, FlowInv
<1> QED
  BY <1>10, <1>11

(* Between transactions: fewer locks, later, and ids issued to others.     *)
LEMMA QuietStep ==
  ASSUME LocksInv, TypeOK', Idle, UNCHANGED <<queue, saved, storage, claimsVars>>,
         now' \in Nat, now' >= now, lastLockId' >= lastLockId,
         locks' = locks \/ \E id \in Leaving(locks) : locks' = WithoutLock(id)
  PROVE  LocksInv'
<1>1. TypeOK /\ OrderInv /\ PlanInv
  BY DEF LocksInv, FlowInv
<1>2. OrderInv' /\ PlanInv' /\ Idle' /\ Doing' = Doing
  BY <1>1, QuietFlow
<1>3. /\ AtCalm /\ ClaimsBelow(claims, locks, lastLockId) /\ Doing = "None"
      /\ DummiesUpTo(locks, storage.durationCounter)
  BY AtRest
<1>4. /\ IsLockup(locks, lastLockId) /\ IsClaimMap(claims) /\ now \in Nat
      /\ lastLockId \in Nat /\ lastLockId' \in Nat /\ storage.totalStaked \in Nat
      /\ UNCHANGED <<claims, pendingClaim>>
  BY <1>1, QueueType, LockTypes
  DEF claimsVars, TypeOK, LockupTypeOK, IsLockup, StorageType
<1>5. /\ Active(locks') = Active(locks)
      /\ Dummies(locks') \subseteq Dummies(locks) /\ Leaving(locks') \subseteq Leaving(locks)
      /\ \A i \in DOMAIN locks' : locks'[i] = locks[i]
      /\ \A i \in Active(locks) : i \in DOMAIN locks'
      /\ \A i \in Dummies(locks') \cup Leaving(locks') : i \in DOMAIN locks'
  <2>1. CASE locks' = locks
    BY <2>1 DEF Active, Dummies, Leaving
  <2>2. CASE \E id \in Leaving(locks) : locks' = WithoutLock(id)
    <3>0. PICK id \in Leaving(locks) : locks' = WithoutLock(id)
      BY <2>2
    <3>1. id \notin Active(locks) /\ \A i \in Active(locks) : i \in DOMAIN locks
      BY <1>4, <3>0, SetsAreApart
    <3>2. /\ DOMAIN locks' = DOMAIN locks \ {id}
          /\ \A i \in DOMAIN locks' : locks'[i] = locks[i]
          /\ Active(locks') = Active(locks) \ {id}
          /\ Dummies(locks') = Dummies(locks) \ {id}
          /\ Leaving(locks') = Leaving(locks) \ {id}
      BY <3>0, LockGone
    <3>3. \A i \in Dummies(locks') \cup Leaving(locks') : i \in DOMAIN locks'
      BY DEF Dummies, Leaving
    <3> QED
      BY <3>1, <3>2, <3>3
  <2> QED
    BY <2>1, <2>2
<1>6. AtCalm'
  <2>1. Staked(locks', storage.lockId, storage.totalStaked)
    BY <1>3, <1>4, <1>5 DEF AtCalm, Resting, Staked
  <2>2. LeavingBelow(locks', lastLockId')
    <3>1. \A i \in Leaving(locks) : i \in Nat /\ i < lastLockId
      BY <1>3, <1>4, SetsAreApart, LockTypes DEF AtCalm, Resting, LeavingBelow
    <3> QED
      BY <1>4, <1>5, <3>1 DEF LeavingBelow
  <2>3. Names(claims, locks, 0, 0)'
    <3> SUFFICES ASSUME NEW i \in DOMAIN claims, i \in Leaving(locks'), claims[i].releaseAt > now'
                 PROVE  /\ locks'[i].amount = claims[i].amount + 0
                        /\ locks'[i].endTime = claims[i].releaseAt
      BY <1>4 DEF Names, Leaving
    <3>1. claims[i].releaseAt \in Nat
      BY <1>4 DEF IsClaimMap, Claim
    <3>2. i \in Leaving(locks) /\ claims[i].releaseAt > now /\ locks'[i] = locks[i]
      BY <1>4, <1>5, <3>1
    <3> QED
      BY <1>3, <3>2 DEF AtCalm, Resting, Names
  <2> QED
    BY <1>3, <1>4, <2>1, <2>2, <2>3
    DEF AtCalm, Resting, Staked, LeavingBelow, Active, Leaving
<1>7. DummyInv'
  <2>1. ~Ends("SaveClaim")'
    BY <1>2 DEF Ends
  <2>2. \A i \in Dummies(locks') : i \in Dummies(locks) /\ locks'[i] = locks[i]
    BY <1>5
  <2> QED
    BY <1>3, <2>1, <2>2 DEF DummyInv, DummiesUpTo, Dummies
<1>8. ClaimsBelow(claims, locks, lastLockId)'
  <2>1. \A i \in DOMAIN claims : i \in Nat /\ i < lastLockId /\ i \notin Active(locks)
    BY <1>3, <1>4 DEF ClaimsBelow, IsClaimMap
  <2>2. \A i \in DOMAIN claims : i < lastLockId' /\ i \notin Active(locks')
    BY <1>4, <1>5, <2>1
  <2> QED
    BY <1>4, <2>2 DEF ClaimsBelow, Active
<1>9. LocksNow'
  BY <1>2, <1>3, <1>6, <1>7, <1>8 DEF LocksNow, CalmKinds
<1>10. SavedInv'
  BY <1>2 DEF SavedInv
<1> QED
  BY <1>2, <1>9, <1>10 DEF LocksInv, FlowInv

LEMMA EnvironmentStep ==
  ASSUME LocksInv, TypeOK', Environment
  PROVE  LocksInv'
<1>1. now \in Nat /\ lastLockId \in Nat /\ now >= now /\ lastLockId >= lastLockId
  <2>1. now \in Nat /\ lastLockId \in Nat
    BY DEF LocksInv, FlowInv, TypeOK, TxTypeOK, LockupTypeOK, IsLockup
  <2> QED
    BY <2>1
<1>2. CASE NextBlock
  <2>1. /\ Idle /\ UNCHANGED <<queue, saved, storage, claimsVars, locks, lastLockId>>
        /\ now' = now + 1
    BY <1>2 DEF NextBlock, lockupVars
  <2>2. now' \in Nat /\ now' >= now
    BY <1>1, <2>1
  <2> QED
    BY <1>1, <2>1, <2>2, QuietStep
<1>3. ASSUME NEW id \in DOMAIN locks, LockReturned(id)
      PROVE  LocksInv'
  <2>1. /\ Idle /\ UNCHANGED <<queue, saved, storage, claimsVars, lastLockId, now>>
        /\ locks' = WithoutLock(id) /\ id \in Leaving(locks)
    BY <1>3 DEF LockReturned, ReturnLock, IsMatured, IsUnlocking, Leaving
  <2> QED
    BY <1>1, <2>1, QuietStep
<1>4. CASE RewardsDistributed
  <2>1. /\ Idle /\ UNCHANGED <<queue, saved, storage, claimsVars, locks, lastLockId, now>>
    BY <1>4 DEF RewardsDistributed, lockupVars
  <2> QED
    BY <1>1, <2>1, QuietStep
<1>5. CASE SomeoneElseLocks
  <2>1. /\ Idle /\ UNCHANGED <<queue, saved, storage, claimsVars, locks, now>>
        /\ lastLockId' = lastLockId + 1
    BY <1>5 DEF SomeoneElseLocks, ForeignLock, NewLockId
  <2>2. lastLockId' >= lastLockId
    BY <1>1, <2>1
  <2> QED
    BY <1>1, <2>1, <2>2, QuietStep
<1>6. ASSUME NEW user \in Users, NEW amount \in 1..bank.base[user], Donate(user, amount)
      PROVE  LocksInv'
  <2>1. /\ Idle /\ UNCHANGED <<queue, saved, storage, claimsVars, locks, lastLockId, now>>
    BY <1>6 DEF Donate, lockupVars
  <2> QED
    BY <1>1, <2>1, QuietStep
<1> QED
  BY <1>2, <1>3, <1>4, <1>5, <1>6 DEF Environment

LEMMA UserStep ==
  ASSUME LocksInv, TypeOK', UserTx
  PROVE  LocksInv'
<1>1. TypeOK
  BY DEF LocksInv, FlowInv
<1>2. \A user \in Users : bank.base[user] \in Nat /\ bank.shares[user] \in Nat
  BY <1>1, ConstantTypes DEF TypeOK, BankType
<1>3. \A id \in DOMAIN claims : claims[id].amount \in Nat
  BY <1>1 DEF TypeOK, ClaimsTypeOK, IsClaimMap, Claim
<1>4. \A user \in Users : \A vaultTokens \in 1..bank.shares[user] :
        ExecuteUnlock(user, vaultTokens) => LocksInv'
  BY <1>2, ExecuteUnlockStep
<1>5. ASSUME NEW user \in Users, NEW recipient \in {user} \cup Recipients
      PROVE  /\ \A amount \in 1..bank.base[user] :
                  ExecuteDeposit(user, amount, recipient) => LocksInv'
             /\ \A id \in DOMAIN claims :
                  ExecuteWithdrawUnlocked(user, id, recipient) => LocksInv'
             /\ \A vaultTokens \in 1..bank.shares[user] :
                  ExecuteForceRedeem(user, vaultTokens, recipient) => LocksInv'
             /\ \A id \in DOMAIN claims : \A amount \in 0..claims[id].amount :
                  ExecuteForceWithdrawUnlocking(user, id, amount, recipient) => LocksInv'
  <2>1. recipient \in Accounts
    BY ConstantTypes
  <2>2. \A amount \in 1..bank.base[user] :
          ExecuteDeposit(user, amount, recipient) => LocksInv'
    BY <1>2, <2>1, DepositStep
  <2>3. \A id \in DOMAIN claims :
          ExecuteWithdrawUnlocked(user, id, recipient) => LocksInv'
    BY <2>1, WithdrawStep
  <2>4. \A vaultTokens \in 1..bank.shares[user] :
          ExecuteForceRedeem(user, vaultTokens, recipient) => LocksInv'
    BY <1>2, <2>1, ForceRedeemStep
  <2>5. \A id \in DOMAIN claims : \A amount \in 0..claims[id].amount :
          ExecuteForceWithdrawUnlocking(user, id, amount, recipient) => LocksInv'
    BY <1>3, <2>1, ForceWithdrawStep
  <2> QED
    BY <2>2, <2>3, <2>4, <2>5
<1> QED
  BY <1>4, <1>5 DEF UserTx

LEMMA MessageStep ==
  ASSUME LocksInv, TypeOK', HandleMessage
  PROVE  LocksInv'
<1>1. CASE FailedMessage
  BY <1>1, RevertStep DEF FailedMessage
<1>2. CASE HandleLockTokens
  <2>1. ~Idle /\ Head(queue).type = "LockTokens" /\ TypeOK
    BY <1>2 DEF HandleLockTokens, Handles, LocksInv, FlowInv
  <2>2. Doing \in {"LockTokens", "LockDummy"}
    BY <2>1, DoingIs, KindIs
  <2> QED
    BY <1>2, <2>2, LockStakeStep, LockDummyStep
<1>3. CASE ~FailedMessage /\ ~HandleLockTokens
  BY <1>3, CallbackSteps, StakeStep, UnlockStep, SaveClaimStep, RewardSteps, SendToSelfStep,
     BurnStep, BeginUnlockingStep, ForceUnlockStep
  DEF HandleMessage
<1> QED
  BY <1>1, <1>2, <1>3

LEMMA LocksNext ==
  ASSUME LocksInv, [Next]_vars
  PROVE  LocksInv'
<1>1. TypeOK'
  BY NextType DEF LocksInv, FlowInv
<1>2. CASE ExternalFailure
  BY <1>1, <1>2, RevertStep DEF ExternalFailure, Handles
<1>3. CASE UNCHANGED vars
  <2>1. UNCHANGED <<storage, locks, lastLockId, claims, pendingClaim, now, queue, saved>>
    BY <1>3 DEF vars, lockupVars, claimsVars
  <2>2. FlowInv'
    BY <1>1, <2>1, QuietFlow DEF LocksInv, FlowInv
  <2>3. /\ Doing' = Doing /\ (Ends("SaveClaim")' <=> Ends("SaveClaim"))
    BY <2>1 DEF Doing, Idle, Kind, Ends, LastOf
  <2>4. SavedInv'
    BY <2>1 DEF LocksInv, SavedInv, Idle, Settled, Staked, DummiesUpTo, LeavingBelow,
                ClaimsBelow, Names, Active, Dummies, Leaving
  <2>5. DummyInv' /\ ClaimsBelow(claims, locks, lastLockId)'
    BY <2>1, <2>3 DEF LocksInv, LocksNow, DummyInv, DummiesUpTo, Dummies, ClaimsBelow, Active
  <2>6. \A m : Unlocks(m)' <=> Unlocks(m)
    BY <2>1 DEF Unlocks, Resting, Staked, LeavingBelow, Names, Active, Leaving
  <2>7. /\ AtCalm => AtCalm'
        /\ AtLockTokens => AtLockTokens'
        /\ AtLockDummy => AtLockDummy'
        /\ AtSaveClaim => AtSaveClaim'
    BY <2>1
    DEF AtCalm, AtLockTokens, AtLockDummy, AtSaveClaim, Unlocked, Named, Resting, Staked,
        LeavingBelow, Names, Active, Leaving
  <2>8. /\ AtBurn => AtBurn'
        /\ AtBeginUnlocking => AtBeginUnlocking'
        /\ AtForceUnlock => AtForceUnlock'
    BY <2>1
    DEF AtBurn, AtBeginUnlocking, AtForceUnlock, Unlocks, PendingFor, Resting, Staked,
        LeavingBelow, Names, Active, Leaving
  <2>9. LocksNow'
    BY <2>3, <2>5, <2>7, <2>8 DEF LocksInv, LocksNow
  <2> QED
    BY <2>2, <2>4, <2>9 DEF LocksInv
<1> QED
  BY <1>1, <1>2, <1>3, MessageStep, UserStep, EnvironmentStep DEF Next

LEMMA LocksInit == Init => LocksInv
<1> SUFFICES ASSUME Init PROVE LocksInv
  OBVIOUS
<1>1. TypeOK /\ Idle /\ Doing = "None"
  BY InitType DEF Init, Idle, Doing
<1>2. queue = <<>> /\ locks = [id \in {} |-> 0] /\ claims = [id \in {} |-> NoClaim]
      /\ storage.totalStaked = 0 /\ pendingClaim = NoClaim
  BY DEF Init, LockupInit, ClaimsInit
<1>3. OrderInv /\ PlanInv /\ SavedInv
  BY <1>1, <1>2 DEF OrderInv, InOrder, PlanInv, SavedInv
<1>4. Active(locks) = {} /\ Dummies(locks) = {} /\ Leaving(locks) = {} /\ DOMAIN claims = {}
  BY <1>2 DEF Active, Dummies, Leaving
<1>5. LocksNow
  BY <1>1, <1>2, <1>4
  DEF LocksNow, CalmKinds, AtCalm, Resting, Staked, DummyInv, DummiesUpTo, LeavingBelow,
      ClaimsBelow, Names
<1> QED
  BY <1>1, <1>3, <1>5 DEF LocksInv, FlowInv

LEMMA LocksInvariant == Spec => []LocksInv
<1>1. LocksInv /\ [Next]_vars => LocksInv'
  BY LocksNext
<1> QED
  BY <1>1, LocksInit, PTL DEF Spec

(* Between transactions exactly the staked total is locked under the stored*)
(* lock id (the state that the reply handler of MsgLockTokens writes).     *)
THEOREM StakeHeld == Spec => []StakeIsLocked
<1>1. LocksInv => StakeIsLocked
  <2> SUFFICES ASSUME LocksInv, Idle
               PROVE  LET staked == OwnLocks \ UnlockingLocks
                      IN  IF storage.totalStaked = 0
                          THEN staked = {}
                          ELSE /\ staked = {storage.lockId}
                               /\ locks[storage.lockId].amount = storage.totalStaked
    BY DEF StakeIsLocked
  <2>1. OwnLocks \ UnlockingLocks = Active(locks)
    BY DEF OwnLocks, UnlockingLocks, IsUnlocking, Active
  <2>2. Staked(locks, storage.lockId, storage.totalStaked)
    BY AtRest DEF AtCalm, Resting
  <2> QED
    BY <2>1, <2>2 DEF Staked
<1> QED
  BY <1>1, LocksInvariant, PTL

(* A dummy lock never gets the tokens of a second unlock.                  *)
THEOREM DummyLocksHoldOne == Spec => []DummyLocksAreNew
<1>1. LocksInv => DummyLocksAreNew
  <2> SUFFICES ASSUME LocksInv, Idle, NEW id \in DummyLocks
               PROVE  /\ locks[id].amount = 1 /\ ~IsUnlocking(id)
                      /\ locks[id].duration <= storage.durationCounter
    BY DEF DummyLocksAreNew
  <2>1. id \in Dummies(locks)
    BY DEF DummyLocks, OwnLocks, Dummies
  <2>2. DummiesUpTo(locks, storage.durationCounter)
    BY AtRest
  <2> QED
    BY <2>1, <2>2 DEF DummiesUpTo, IsUnlocking
<1> QED
  BY <1>1, LocksInvariant, PTL

(* A claim that is not matured never names the lock of another claim.      *)
THEOREM ClaimsNameTheirLocks == Spec => []ClaimNamesOwnLock
<1>1. LocksInv => ClaimNamesOwnLock
  <2> SUFFICES ASSUME LocksInv, Idle, NEW id \in (DOMAIN claims \ MaturedClaims) \cap UnlockingLocks
               PROVE  /\ locks[id].amount = claims[id].amount
                      /\ locks[id].endTime = claims[id].releaseAt
    BY DEF ClaimNamesOwnLock
  <2>1. IsClaimMap(claims) /\ now \in Nat /\ Names(claims, locks, 0, 0)
    BY AtRest, QueueType DEF AtCalm, Resting
  <2>2. /\ id \in DOMAIN claims /\ id \in Leaving(locks)
        /\ claims[id].releaseAt \in Nat /\ claims[id].amount \in Nat
        /\ claims[id].releaseAt > now
    BY <2>1 DEF MaturedClaims, IsExpired, UnlockingLocks, IsUnlocking, Leaving, IsClaimMap,
                Claim
  <2> QED
    BY <2>1, <2>2 DEF Names
<1> QED
  BY <1>1, LocksInvariant, PTL

(* Every transaction that opens a claim saves it or is undone.             *)
THEOREM PendingClaimIsCommitted == Spec => []NoPendingClaimLeft
<1>1. LocksInv => NoPendingClaimLeft
  BY AtRest DEF NoPendingClaimLeft, AtCalm
<1> QED
  BY <1>1, LocksInvariant, PTL
============================================================================
