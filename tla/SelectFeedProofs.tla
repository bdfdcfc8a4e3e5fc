-------------------------- MODULE SelectFeedProofs --------------------------
(***************************************************************************)
(* Proofs about SelectFeed: the distributor in it takes only steps of      *)
(* Distributor, so that what is proved of Distributor holds here, and the  *)
(* ledger of the publisher never counts less than a client has asked for,  *)
(* if it had not asked again when the publisher came.                      *)
(***************************************************************************)
EXTENDS SelectFeed, DistributorProofs, SequenceTheorems, FiniteSetTheorems,
        FunctionTheorems

-----------------------------------------------------------------------------
(* The invariants.                                                         *)

Forwards == {"add", "remove"} \X Interactors \X FeedKeys
Publications == ({"image"} \X Interactors \X FeedKeys) \cup ({"delta"} \X FeedKeys)

ProgramTypeOK ==
    /\ demand \in [Interactors -> [FeedTopics -> Nat]]
    /\ forwarded \in Seq(Forwards)
    /\ ledger \in [FeedKeys -> [Interactors -> Nat]]
    /\ published \in Seq(Publications)

\* How often a message is on its way.
Times(messages, m) == Cardinality({i \in 1 .. Len(messages) : messages[i] = m})

\* For a topic a client has never asked for while it had it: if it is not closed
\* it is subscribed to what it has asked for, the count of its subscription is less
\* than its demand, and it has an authorization only where it is still subscribed.
AskedOnce(c, ft) ==
    /\ demand[c][ft] <= 1
    /\ phase[c] # "closed" =>
        /\ demand[c][ft] > 0 => IsSubscribed(c, ft)
        /\ authorizations[c][ft] # None => IsSubscribed(c, ft)
        /\ IsSubscribed(c, ft) => subscriptions[c][ft].count < demand[c][ft]

DemandInv ==
    \A c \in Interactors, ft \in FeedTopics : <<c, ft>> \notin repeated => AskedOnce(c, ft)

\* A publisher that is not heard of has nothing on its way to it, and the
\* ledger of one that is will cover the demand with what is on its way.
Covered(c, ft) ==
    ledger[ft][c] + Times(forwarded, <<"add", c, ft>>)
        >= demand[c][ft] + Times(forwarded, <<"remove", c, ft>>)

LedgerInv ==
    /\ ~Hears => forwarded = <<>>
    /\ Hears => \A c \in Interactors, ft \in FeedKeys :
            phase[c] # "closed" /\ <<c, ft>> \notin recounted => Covered(c, ft)

-----------------------------------------------------------------------------
(* How often a message is in a sequence.                                   *)

LEMMA TimesType ==
    ASSUME NEW S, NEW s \in Seq(S), NEW m
    PROVE  /\ IsFiniteSet({i \in 1 .. Len(s) : s[i] = m})
           /\ Times(s, m) \in Nat
<1>1. Len(s) \in Nat
  BY LenProperties
<1>2. IsFiniteSet(1 .. Len(s))
  BY <1>1, FS_Interval
<1>3. {i \in 1 .. Len(s) : s[i] = m} \in SUBSET (1 .. Len(s))
  OBVIOUS
<1> HIDE DEF Times
<1>4. IsFiniteSet({i \in 1 .. Len(s) : s[i] = m})
  BY <1>2, <1>3, FS_Subset
<1> QED
  BY <1>4, FS_CardinalityType DEF Times

LEMMA TimesConcat ==
    ASSUME NEW S, NEW s \in Seq(S), NEW t \in Seq(S), NEW m
    PROVE  Times(s \o t, m) = Times(s, m) + Times(t, m)
<1> DEFINE first == {i \in 1 .. Len(s) : s[i] = m}
           second == {i \in 1 .. Len(t) : t[i] = m}
           moved == {i \in Len(s) + 1 .. Len(s) + Len(t) : t[i - Len(s)] = m}
           shift == [i \in second |-> i + Len(s)]
<1>1. /\ Len(s) \in Nat /\ Len(t) \in Nat
      /\ Len(s \o t) = Len(s) + Len(t)
      /\ \A i \in 1 .. Len(s) + Len(t) :
            (s \o t)[i] = IF i <= Len(s) THEN s[i] ELSE t[i - Len(s)]
  BY LenProperties, ConcatProperties
<1>2. IsFiniteSet(first) /\ IsFiniteSet(second)
  BY TimesType
<1>3. ExistsBijection(second, moved)
  <2>1. shift \in [second -> moved]
    BY <1>1
  <2>2. \A a, b \in second : shift[a] = shift[b] => a = b
    BY <1>1
  <2>3. \A j \in moved : \E i \in second : shift[i] = j
    <3> SUFFICES ASSUME NEW j \in moved PROVE \E i \in second : shift[i] = j
      OBVIOUS
    <3>1. j - Len(s) \in second /\ shift[j - Len(s)] = j
      BY <1>1
    <3> QED
      BY <3>1
  <2> HIDE DEF shift, second, moved
  <2>4. shift \in Bijection(second, moved)
    BY <2>1, <2>2, <2>3, Fun_IsInj, Fun_IsSurj, Fun_IsBij
  <2> QED
    BY <2>4, Fun_ExistsBij
<1>4. IsFiniteSet(moved) /\ Cardinality(moved) = Cardinality(second)
  <2> HIDE DEF moved, second
  <2> QED
    BY <1>2, <1>3, FS_Bijection
<1>5. {i \in 1 .. Len(s \o t) : (s \o t)[i] = m} = first \cup moved
  BY <1>1
<1>6. first \cap moved = {}
  BY <1>1
<1> HIDE DEF first, second, moved
<1>7. Cardinality(first \cup moved) = Cardinality(first) + Cardinality(second)
  <2>1. Cardinality(first \cup moved)
            = Cardinality(first) + Cardinality(moved) - Cardinality(first \cap moved)
    BY <1>2, <1>4, FS_Union
  <2>2. Cardinality(first) \in Nat /\ Cardinality(second) \in Nat
    BY <1>2, FS_CardinalityType
  <2>3. Cardinality(first \cap moved) = 0
    BY <1>6, FS_EmptySet
  <2> QED
    BY <2>1, <2>2, <2>3, <1>4
<1> QED
  BY <1>5, <1>7 DEF Times, first, second

LEMMA TimesOne ==
    ASSUME NEW x, NEW m
    PROVE  Times(<<x>>, m) = IF x = m THEN 1 ELSE 0
<1>1. CASE x = m
  <2>1. {i \in 1 .. Len(<<x>>) : <<x>>[i] = m} = {1}
    BY <1>1
  <2> QED
    BY <2>1, <1>1, FS_Singleton DEF Times
<1>2. CASE x # m
  <2>1. {i \in 1 .. Len(<<x>>) : <<x>>[i] = m} = {}
    BY <1>2
  <2> QED
    BY <2>1, <1>2, FS_EmptySet DEF Times
<1> QED
  BY <1>1, <1>2

LEMMA TimesNone ==
    ASSUME NEW S, NEW s \in Seq(S), NEW m, \A i \in 1 .. Len(s) : s[i] # m
    PROVE  Times(s, m) = 0
<1>1. {i \in 1 .. Len(s) : s[i] = m} = {}
  OBVIOUS
<1> QED
  BY <1>1, FS_EmptySet DEF Times

LEMMA TimesSome ==
    ASSUME NEW S, NEW s \in Seq(S), NEW i \in 1 .. Len(s)
    PROVE  Times(s, s[i]) >= 1
<1>1. {j \in 1 .. Len(s) : s[j] = s[i]} # {}
  OBVIOUS
<1>2. Times(s, s[i]) # 0 /\ Times(s, s[i]) \in Nat
  <2>1. IsFiniteSet({j \in 1 .. Len(s) : s[j] = s[i]})
    BY TimesType
  <2> QED
    BY <1>1, <2>1, TimesType, FS_EmptySet DEF Times
<1> QED
  BY <1>2

LEMMA TimesTail ==
    ASSUME NEW S, NEW s \in Seq(S), s # <<>>, NEW m
    PROVE  Times(s, m) = Times(Tail(s), m) + IF Head(s) = m THEN 1 ELSE 0
<1>1. Head(s) \in S /\ Tail(s) \in Seq(S)
  BY HeadTailProperties
<1>2. s = <<Head(s)>> \o Tail(s)
  OBVIOUS
<1>3. <<Head(s)>> \in Seq(S)
  BY <1>1
<1>4. Times(s, m) = Times(<<Head(s)>>, m) + Times(Tail(s), m)
  <2> DEFINE h == <<Head(s)>>
             t == Tail(s)
  <2>1. h \in Seq(S) /\ t \in Seq(S) /\ s = h \o t
    BY <1>1, <1>2, <1>3
  <2> HIDE DEF h, t
  <2>2. Times(h \o t, m) = Times(h, m) + Times(t, m)
    BY <2>1, TimesConcat
  <2>3. Times(s, m) = Times(h, m) + Times(t, m)
    BY <2>1, <2>2
  <2> QED
    BY <2>3 DEF h, t
<1>5. Times(Tail(s), m) \in Nat
  BY <1>1, TimesType
<1> QED
  BY <1>4, <1>5, TimesOne

-----------------------------------------------------------------------------
(* What is forwarded.                                                      *)

\* An enumeration of a finite set is a sequence of all its elements.
LEMMA Enumerates ==
    ASSUME NEW S, IsFiniteSet(S), NEW e \in SetToSeqs(S)
    PROVE  /\ e \in Seq(S)
           /\ \A x \in S : \E i \in 1 .. Len(e) : e[i] = x
<1> DEFINE n == Cardinality(S)
<1>1. n \in Nat
  BY FS_CardinalityType
<1>2. e \in [1 .. n -> S] /\ \A i, j \in 1 .. n : i # j => e[i] # e[j]
  BY DEF SetToSeqs
<1>3. IsFiniteSet(1 .. n) /\ Cardinality(1 .. n) = n
  <2> HIDE DEF n
  <2> QED
    BY <1>1, FS_Interval
<1>4. e \in Injection(1 .. n, S)
  <2> HIDE DEF n
  <2> QED
    BY <1>2, Fun_IsInj
<1>5. e \in Surjection(1 .. n, S)
  BY <1>3, <1>4, FS_Injection
<1> HIDE DEF n
<1>6. e \in Seq(S) /\ Len(e) = n
  BY <1>1, <1>2
<1> QED
  BY <1>5, <1>6, Fun_SurjectionProperties

LEMMA FeedKeysFinite ==
    /\ FeedKeys \subseteq FeedTopics
    /\ \A S \in SUBSET FeedTopics : IsFiniteSet(S)
    /\ \A S \in SUBSET Keys : IsFiniteSet(S)
<1>1. IsFiniteSet(Keys)
  BY SelectFeedAssumption, FS_Product DEF Keys
<1> QED
  BY <1>1, SelectFeedAssumption, FS_Subset DEF FeedKeys

\* The removals for a client that is closed are messages about this client.
LEMMA RemovalsType ==
    ASSUME NEW c \in Interactors,
           NEW topics \in SetToSeqs(FindByInteractor(c) \cap FeedKeys)
    PROVE  LET removals == [i \in DOMAIN topics |-> <<"remove", c, topics[i]>>]
           IN  /\ removals \in Seq(Forwards)
               /\ \A i \in 1 .. Len(removals) : removals[i][2] = c
<1> DEFINE removals == [i \in DOMAIN topics |-> <<"remove", c, topics[i]>>]
<1>1. topics \in Seq(FeedKeys)
  <2>1. FindByInteractor(c) \cap FeedKeys \in SUBSET FeedTopics
    BY FeedKeysFinite
  <2>2. topics \in Seq(FindByInteractor(c) \cap FeedKeys)
    BY <2>1, FeedKeysFinite, Enumerates
  <2> QED
    BY <2>2, SeqMonotonic
<1>2. /\ Len(topics) \in Nat /\ DOMAIN topics = 1 .. Len(topics)
      /\ \A i \in 1 .. Len(topics) : topics[i] \in FeedKeys
  BY <1>1, LenProperties, ElementOfSeq
<1>3. removals \in [1 .. Len(topics) -> Forwards]
  BY <1>2 DEF Forwards
<1>4. \A i \in 1 .. Len(topics) : removals[i][2] = c
  BY <1>2
<1> HIDE DEF removals
<1>5. removals \in Seq(Forwards) /\ Len(removals) = Len(topics)
  BY <1>2, <1>3
<1>6. removals \in Seq(Forwards) /\ \A i \in 1 .. Len(removals) : removals[i][2] = c
  BY <1>4, <1>5
<1> QED
  BY <1>6 DEF removals

\* The adds for a new request name every subscription of the feed.
LEMMA AddsType ==
    ASSUME NEW existing \in SetToSeqs(SubscribersToFeed(Feed))
    PROVE  LET adds == [i \in DOMAIN existing |-> <<"add", existing[i][1], existing[i][2]>>]
           IN  /\ adds \in Seq(Forwards)
               /\ \A i \in 1 .. Len(adds) : adds[i][1] = "add"
               /\ \A c \in Interactors, ft \in FeedKeys : IsSubscribed(c, ft) =>
                    \E i \in 1 .. Len(adds) : adds[i] = <<"add", c, ft>>
<1> DEFINE adds == [i \in DOMAIN existing |-> <<"add", existing[i][1], existing[i][2]>>]
           Of == Interactors \X FeedKeys
<1>1. /\ SubscribersToFeed(Feed) \in SUBSET Keys
      /\ SubscribersToFeed(Feed) \subseteq Of
  BY DEF SubscribersToFeed, Keys, FeedKeys
<1>2. /\ existing \in Seq(SubscribersToFeed(Feed))
      /\ \A x \in SubscribersToFeed(Feed) : \E i \in 1 .. Len(existing) : existing[i] = x
  <2>1. IsFiniteSet(SubscribersToFeed(Feed))
    BY <1>1, FeedKeysFinite
  <2> QED
    BY <2>1, Enumerates
<1>3. existing \in Seq(Of)
  BY <1>1, <1>2, SeqMonotonic
<1>4. /\ Len(existing) \in Nat /\ DOMAIN existing = 1 .. Len(existing)
      /\ \A i \in 1 .. Len(existing) : existing[i] \in Of
  BY <1>3, LenProperties, ElementOfSeq
<1>5. \A i \in 1 .. Len(existing) : adds[i] = <<"add", existing[i][1], existing[i][2]>>
  BY <1>4
<1>6. adds \in [1 .. Len(existing) -> Forwards]
  <2>1. \A i \in 1 .. Len(existing) : <<"add", existing[i][1], existing[i][2]>> \in Forwards
    BY <1>4 DEF Forwards
  <2> QED
    BY <1>4, <2>1
<1> HIDE DEF adds
<1>7. adds \in Seq(Forwards) /\ Len(adds) = Len(existing)
  BY <1>4, <1>6
<1>8. ASSUME NEW c \in Interactors, NEW ft \in FeedKeys, IsSubscribed(c, ft)
      PROVE  \E i \in 1 .. Len(adds) : adds[i] = <<"add", c, ft>>
  <2>1. <<c, ft>> \in SubscribersToFeed(Feed)
    BY <1>8 DEF SubscribersToFeed, Keys, FeedKeys
  <2>2. PICK i \in 1 .. Len(existing) : existing[i] = <<c, ft>>
    BY <1>2, <2>1
  <2>3. adds[i] = <<"add", c, ft>>
    <3>1. existing[i][1] = c /\ existing[i][2] = ft
      BY <2>2
    <3> QED
      BY <1>5, <3>1
  <2> QED
    BY <1>7, <2>3
<1>9. \A i \in 1 .. Len(adds) : adds[i][1] = "add"
  BY <1>5, <1>7
<1> QED
  BY <1>7, <1>8, <1>9 DEF adds

-----------------------------------------------------------------------------
(* The distributor takes only its own steps.                               *)

LEMMA ProgramTypeStep ==
    ASSUME ProgramTypeOK, [SelectFeedNext]_selectFeedVars
    PROVE  ProgramTypeOK'
<1> USE FeedKeysFinite
<1>0. ASSUME NEW messages \in Seq(Forwards), Forward(messages)
      PROVE  forwarded' \in Seq(Forwards)
  BY <1>0, ConcatProperties DEF Forward, ProgramTypeOK
<1>1. ASSUME NEW c \in Interactors, Arrive(c) PROVE ProgramTypeOK'
  BY <1>1 DEF Arrive, ProgramTypeOK, program, requests
<1>2. ASSUME NEW c \in Interactors, Leave(c) PROVE ProgramTypeOK'
  <2>1. PICK topics \in SetToSeqs(FindByInteractor(c) \cap FeedKeys) :
            Forward([i \in DOMAIN topics |-> <<"remove", c, topics[i]>>])
    BY <1>2 DEF Leave
  <2>2. forwarded' \in Seq(Forwards)
    BY <2>1, <1>0, RemovalsType
  <2>3. demand' \in [Interactors -> [FeedTopics -> Nat]]
    BY <1>2 DEF Leave, ProgramTypeOK
  <2> QED
    BY <1>2, <2>2, <2>3 DEF Leave, ProgramTypeOK, program
<1>3. CASE PublisherLeaves
  BY <1>3, EmptySeq DEF PublisherLeaves, ProgramTypeOK, requests
<1>4. ASSUME NEW c \in Interactors, NEW ft \in FeedTopics, Ask(c, ft) PROVE ProgramTypeOK'
  <2>1. (IF ft \in FeedKeys THEN << <<"add", c, ft>> >> ELSE <<>>) \in Seq(Forwards)
    <3>1. ft \in FeedKeys => <<"add", c, ft>> \in Forwards
      BY DEF Forwards
    <3> QED
      BY <3>1, EmptySeq
  <2>2. forwarded' \in Seq(Forwards)
    BY <1>4, <2>1, <1>0 DEF Ask
  <2>3. demand' \in [Interactors -> [FeedTopics -> Nat]]
    <3>1. demand[c][ft] + 1 \in Nat
      BY DEF ProgramTypeOK
    <3> QED
      BY <1>4, <3>1, UpdateType DEF Ask, ProgramTypeOK
  <2> QED
    BY <1>4, <2>2, <2>3 DEF Ask, ProgramTypeOK, program
<1>5. ASSUME NEW c \in Interactors, NEW ft \in FeedTopics, GiveBack(c, ft) PROVE ProgramTypeOK'
  <2>1. (IF ft \in FeedKeys THEN << <<"remove", c, ft>> >> ELSE <<>>) \in Seq(Forwards)
    <3>1. ft \in FeedKeys => <<"remove", c, ft>> \in Forwards
      BY DEF Forwards
    <3> QED
      BY <3>1, EmptySeq
  <2>2. forwarded' \in Seq(Forwards)
    BY <1>5, <2>1, <1>0 DEF GiveBack
  <2>3. demand' \in [Interactors -> [FeedTopics -> Nat]]
    <3>1. demand[c][ft] - 1 \in Nat
      BY <1>5 DEF ProgramTypeOK, GiveBack
    <3> QED
      BY <1>5, <3>1, UpdateType DEF GiveBack, ProgramTypeOK
  <2> QED
    BY <1>5, <2>2, <2>3 DEF GiveBack, ProgramTypeOK, program
<1>6. ASSUME NEW ft \in FeedKeys, HandleExchangeData(ft) PROVE ProgramTypeOK'
  <2>1. <<"delta", ft>> \in Publications
    BY DEF Publications
  <2> QED
    BY <1>6, <2>1, AppendProperties DEF HandleExchangeData, ProgramTypeOK, requests
<1>7. CASE RequestNotifications
  <2>1. PICK existing \in SetToSeqs(SubscribersToFeed(Feed)) :
            forwarded' = IF Live(Publisher)
                THEN forwarded \o
                        [i \in DOMAIN existing |-> <<"add", existing[i][1], existing[i][2]>>]
                ELSE forwarded
    BY <1>7 DEF RequestNotifications
  <2>2. forwarded' \in Seq(Forwards)
    BY <2>1, AddsType, ConcatProperties DEF ProgramTypeOK
  <2> QED
    BY <1>7, <2>2 DEF RequestNotifications, ProgramTypeOK, program
<1>8. CASE HandleForwardedSubscription
  <2>1. Head(forwarded) \in Forwards /\ Tail(forwarded) \in Seq(Forwards)
    BY <1>8, HeadTailProperties DEF HandleForwardedSubscription, ProgramTypeOK
  <2>2. PICK c \in Interactors, ft \in FeedKeys :
            AddSubscriptionOf(c, ft) \/ RemoveSubscription(c, ft)
    BY <1>8, <2>1 DEF HandleForwardedSubscription, Forwards
  <2>3. published' \in Seq(Publications)
    <3>1. <<"image", c, ft>> \in Publications
      BY DEF Publications
    <3>2. published' = published \/ published' = Append(published, <<"image", c, ft>>)
      BY <2>2 DEF AddSubscriptionOf, RemoveSubscription
    <3>3. published \in Seq(Publications)
      BY DEF ProgramTypeOK
    <3>4. Append(published, <<"image", c, ft>>) \in Seq(Publications)
      BY <3>1, <3>3, AppendProperties
    <3> QED
      BY <3>2, <3>3, <3>4
  <2>4. ledger' \in [FeedKeys -> [Interactors -> Nat]]
    <3>1. PICK n \in Nat : ledger' = [ledger EXCEPT ![ft][c] = n]
      <4>1. ledger[ft][c] \in Nat
        BY DEF ProgramTypeOK
      <4> QED
        BY <2>2, <4>1 DEF AddSubscriptionOf, RemoveSubscription, ProgramTypeOK
    <3> QED
      BY <3>1 DEF ProgramTypeOK
  <2> QED
    BY <1>8, <2>1, <2>3, <2>4 DEF HandleForwardedSubscription, ProgramTypeOK, requests
<1>9. CASE HandlerStep
  <2>1. /\ published # <<>> /\ published' = Tail(published)
        /\ UNCHANGED <<demand, forwarded, ledger>>
    BY <1>9 DEF HandlerStep, HandleImage, HandleDelta, requests
  <2>2. Tail(published) \in Seq(Publications)
    BY <2>1, HeadTailProperties DEF ProgramTypeOK
  <2> QED
    BY <2>1, <2>2 DEF ProgramTypeOK
<1>10. CASE LoopEnds
  BY <1>10 DEF LoopEnds, program, requests, ProgramTypeOK
<1>11. CASE UNCHANGED selectFeedVars
  BY <1>11 DEF selectFeedVars, program, requests, ProgramTypeOK
<1> QED
  BY <1>1, <1>2, <1>3, <1>4, <1>5, <1>6, <1>7, <1>8, <1>9, <1>10, <1>11
     DEF SelectFeedNext, ProgramStep

LEMMA DistributorStep ==
    ASSUME ProgramTypeOK, [SelectFeedNext]_selectFeedVars
    PROVE  [Next]_vars
<1> USE FeedKeysFinite, SelectFeedAssumption
<1>1. ASSUME NEW c \in Interactors, Arrive(c) \/ Leave(c) PROVE Next
  BY <1>1 DEF Arrive, Leave, Next
<1>2. CASE PublisherLeaves \/ LoopEnds
  BY <1>2 DEF PublisherLeaves, LoopEnds, Next
<1>3. ASSUME NEW c \in Interactors, NEW ft \in FeedTopics, Ask(c, ft) \/ GiveBack(c, ft)
      PROVE  Next
  BY <1>3 DEF Ask, GiveBack, Next
<1>4. CASE RequestNotifications
  BY <1>4 DEF RequestNotifications, Next
<1>5. CASE HandleImage
  <2>1. Head(published) \in Publications
    BY <1>5, HeadTailProperties DEF HandleImage, ProgramTypeOK
  <2>2. PICK c \in Interactors, ft \in FeedKeys : Head(published) = <<"image", c, ft>>
    BY <1>5, <2>1 DEF HandleImage, Publications
  <2>3. SendUnicastData(Publisher, c, ft, Data) \/ UNCHANGED vars
    BY <1>5, <2>2 DEF HandleImage
  <2> QED
    BY <2>3 DEF Next, OnData
<1>6. CASE HandleDelta
  <2>1. Head(published) \in Publications
    BY <1>6, HeadTailProperties DEF HandleDelta, ProgramTypeOK
  <2>2. PICK ft \in FeedKeys : Head(published) = <<"delta", ft>>
    BY <1>6, <2>1 DEF HandleDelta, Publications
  <2>3. SendMulticastData(Publisher, ft, Data)
    BY <1>6, <2>2 DEF HandleDelta
  <2> QED
    BY <2>3 DEF Next, OnData
<1>7. ASSUME NEW ft \in FeedKeys, HandleExchangeData(ft) PROVE UNCHANGED vars
  BY <1>7 DEF HandleExchangeData
<1>8. CASE HandleForwardedSubscription
  BY <1>8 DEF HandleForwardedSubscription
<1>9. CASE UNCHANGED selectFeedVars
  BY <1>9 DEF selectFeedVars
<1> QED
  BY <1>1, <1>2, <1>3, <1>4, <1>5, <1>6, <1>7, <1>8, <1>9
     DEF SelectFeedNext, ProgramStep, HandlerStep

LEMMA ProgramTypeHolds == SelectFeedSpec => []ProgramTypeOK
<1>1. SelectFeedInit => ProgramTypeOK
  BY EmptySeq, FeedKeysFinite DEF SelectFeedInit, ProgramTypeOK
<1>2. ProgramTypeOK /\ [SelectFeedNext]_selectFeedVars => ProgramTypeOK'
  BY ProgramTypeStep
<1> QED
  BY <1>1, <1>2, PTL DEF SelectFeedSpec

\* The events the distributor handles with the select feed are those of
\* Distributor: what is proved of it holds with this publisher and its clients.
THEOREM ImplementsDistributor == SelectFeedSpec => Spec
<1>1. SelectFeedInit => Init
  BY DEF SelectFeedInit
<1>2. ProgramTypeOK /\ [SelectFeedNext]_selectFeedVars => [Next]_vars
  BY DistributorStep
<1> QED
  BY <1>1, <1>2, ProgramTypeHolds, PTL DEF SelectFeedSpec, Spec

-----------------------------------------------------------------------------
(* Demand and subscriptions.                                               *)

\* A step that leaves them alone, and opens nobody who is closed.
LEMMA DemandUnchanged ==
    ASSUME DemandInv, UNCHANGED <<demand, repeated, subscriptions, authorizations>>,
           \A c \in Interactors : phase'[c] # "closed" => phase[c] # "closed"
    PROVE  DemandInv'
BY DEF DemandInv, AskedOnce, IsSubscribed

LEMMA AddedCount ==
    ASSUME NEW state \in SubscriptionState, NEW r \in Authorization
    PROVE  /\ AddSubscriptionState(state, r, FALSE) \in SubscriptionState
           /\ AddSubscriptionState(state, r, FALSE).count = state.count + 1
           /\ state.count \in Int
BY ConstantsAssumption DEF AddSubscriptionState, SubscriptionState

LEMMA RemovedCount ==
    ASSUME NEW state \in SubscriptionState, state.count < 1
    PROVE  /\ RemoveSubscriptionState(state) \in SubscriptionState
           /\ RemoveSubscriptionState(state).count = state.count - 1
           /\ state.count \in Int
<1>1. state.count \in Int /\ state.count - 1 # 0 /\ state # None
  BY ConstantsAssumption DEF SubscriptionState
<1>2. RemoveSubscriptionState(state) = [state EXCEPT !.count = state.count - 1]
  BY <1>1 DEF RemoveSubscriptionState
<1> QED
  BY <1>1, <1>2 DEF SubscriptionState

LEMMA UnrequiredAdds ==
    ASSUME NEW c \in Interactors, NEW ft \in FeedTopics,
           AcceptAuthorization(c, ft, NotRequired)
    PROVE  AddSubscription(c, ft, NotRequired, TRUE)
<1>1. ~Denies(NotRequired)
  BY DEF Denies, NotRequired
<1> QED
  BY <1>1 DEF AcceptAuthorization, OnAuthorizationResponse, IsInitial

\* The first request for a topic makes a subscription of count 0, a later one
\* finds it at less than 0.
LEMMA AskDemand ==
    ASSUME TypeOK, ProgramTypeOK, DemandInv,
           NEW c \in Interactors, NEW ft \in FeedTopics, Ask(c, ft)
    PROVE  DemandInv'
<1>1. /\ demand' = [demand EXCEPT ![c][ft] = @ + 1]
      /\ repeated \subseteq repeated'
      /\ <<c, ft>> \notin repeated' => demand[c][ft] = 0 /\ demand'[c][ft] = 1
      /\ phase' = phase
  <2>1. demand[c][ft] \in Nat
    BY DEF ProgramTypeOK
  <2>2. /\ demand' = [demand EXCEPT ![c][ft] = @ + 1]
        /\ repeated' = IF demand[c][ft] > 0 THEN repeated \cup {<<c, ft>>} ELSE repeated
    BY DEF Ask
  <2>3. <<c, ft>> \notin repeated' => demand[c][ft] = 0
    BY <2>1, <2>2
  <2>4. demand'[c][ft] = demand[c][ft] + 1
    BY <2>2 DEF ProgramTypeOK
  <2>5. phase' = phase
    BY DEF Ask, RequestSubscription, SubscribeAuthorized, SubscribeUnrequired,
            SubscribeAsk, AcceptAuthorization, lifecycle
  <2> QED
    BY <2>2, <2>3, <2>4, <2>5
<1>2. \A d \in Interactors, gt \in FeedTopics : <<d, gt>> # <<c, ft>> =>
        /\ demand'[d][gt] = demand[d][gt]
        /\ subscriptions'[d][gt] = subscriptions[d][gt]
        /\ authorizations'[d][gt] = authorizations[d][gt]
  <2> SUFFICES ASSUME NEW d \in Interactors, NEW gt \in FeedTopics, <<d, gt>> # <<c, ft>>
               PROVE  /\ demand'[d][gt] = demand[d][gt]
                      /\ subscriptions'[d][gt] = subscriptions[d][gt]
                      /\ authorizations'[d][gt] = authorizations[d][gt]
    OBVIOUS
  <2>1. demand'[d][gt] = demand[d][gt]
    BY <1>1 DEF ProgramTypeOK
  <2>2. \E r \in Authorization \cup {None}, b \in BOOLEAN : AddSubscription(c, ft, r, b)
    <3>1. TRUE \in BOOLEAN /\ FALSE \in BOOLEAN
      OBVIOUS
    <3>2. SubscribeAuthorized(c, ft) => AddSubscription(c, ft, authorizations[c][ft], FALSE)
      BY DEF SubscribeAuthorized
    <3>3. SubscribeUnrequired(c, ft) => AddSubscription(c, ft, NotRequired, TRUE)
      BY UnrequiredAdds DEF SubscribeUnrequired
    <3>4. authorizations[c][ft] \in Authorization \cup {None}
      BY DEF TypeOK
    <3> QED
      BY <3>1, <3>2, <3>3, <3>4, NotRequiredType, SelectFeedAssumption
         DEF Ask, RequestSubscription, SubscribeAsk
  <2>3. subscriptions'[d][gt] = subscriptions[d][gt]
    BY <2>2 DEF AddSubscription, TypeOK
  <2>4. \/ authorizations' = authorizations
        \/ authorizations' = [authorizations EXCEPT ![c][ft] = NotRequired]
    BY SelectFeedAssumption DEF Ask, RequestSubscription, SubscribeAuthorized,
            SubscribeUnrequired, SubscribeAsk, AcceptAuthorization
  <2>5. authorizations'[d][gt] = authorizations[d][gt]
    BY <2>4 DEF TypeOK
  <2> QED
    BY <2>1, <2>3, <2>5
<1>3. subscriptions[c][ft] \in SubscriptionState \cup {None}
  BY DEF TypeOK
<1>4. phase[c] # "closed" /\ <<c, ft>> \notin repeated' =>
        IsSubscribed(c, ft)' /\ subscriptions'[c][ft].count < 1
  <2> SUFFICES ASSUME phase[c] # "closed", <<c, ft>> \notin repeated'
               PROVE  IsSubscribed(c, ft)' /\ subscriptions'[c][ft].count < 1
    OBVIOUS
  <2>1. /\ authorizations[c][ft] # None => IsSubscribed(c, ft)
        /\ IsSubscribed(c, ft) => subscriptions[c][ft].count < 0
    BY <1>1 DEF DemandInv, AskedOnce
  <2>2. CASE SubscribeAuthorized(c, ft)
    <3> DEFINE state == subscriptions[c][ft]
    <3>1. state \in SubscriptionState /\ state.count < 0
      BY <1>3, <2>1, <2>2 DEF SubscribeAuthorized, IsSubscribed
    <3>2. subscriptions'[c][ft] = AddSubscriptionState(state, authorizations[c][ft], FALSE)
      BY <2>2 DEF SubscribeAuthorized, AddSubscription, TypeOK
    <3>3. authorizations[c][ft] \in Authorization
      BY <2>2 DEF SubscribeAuthorized, TypeOK
    <3> HIDE DEF state
    <3>4. /\ subscriptions'[c][ft] \in SubscriptionState
          /\ subscriptions'[c][ft].count = state.count + 1 /\ state.count \in Int
      BY <3>1, <3>2, <3>3, AddedCount
    <3> QED
      BY <3>1, <3>4, ConstantsAssumption DEF IsSubscribed
  <2>3. CASE SubscribeUnrequired(c, ft)
    <3>1. AddSubscription(c, ft, NotRequired, TRUE)
      BY <2>3, UnrequiredAdds DEF SubscribeUnrequired
    <3>2. subscriptions'[c][ft] = AddSubscriptionState(subscriptions[c][ft], NotRequired, TRUE)
      BY <3>1 DEF AddSubscription, TypeOK
    <3>3. subscriptions'[c][ft] \in SubscriptionState
      <4>1. TRUE \in BOOLEAN
        OBVIOUS
      <4> QED
        BY <1>3, <3>2, <4>1, NotRequiredType, AddSubscriptionStateType
    <3>4. subscriptions'[c][ft].count < 1
      BY <1>3, <2>1, <3>2 DEF AddSubscriptionState, IsSubscribed, SubscriptionState
    <3> QED
      BY <3>3, <3>4, ConstantsAssumption DEF IsSubscribed
  <2> QED
    BY <2>2, <2>3, SelectFeedAssumption DEF Ask, RequestSubscription, SubscribeAsk
<1> SUFFICES ASSUME NEW d \in Interactors, NEW gt \in FeedTopics, <<d, gt>> \notin repeated'
             PROVE  AskedOnce(d, gt)'
  BY DEF DemandInv
<1>5. CASE <<d, gt>> = <<c, ft>>
  BY <1>1, <1>4, <1>5 DEF AskedOnce
<1>6. CASE <<d, gt>> # <<c, ft>>
  BY <1>1, <1>2, <1>6 DEF DemandInv, AskedOnce, IsSubscribed
<1> QED
  BY <1>5, <1>6

\* What is given back lowers the count below 0, and the entry stays.
LEMMA GiveBackDemand ==
    ASSUME TypeOK, ProgramTypeOK, DemandInv,
           NEW c \in Interactors, NEW ft \in FeedTopics, GiveBack(c, ft)
    PROVE  DemandInv'
<1>1. /\ demand' = [demand EXCEPT ![c][ft] = @ - 1]
      /\ <<c, ft>> \notin repeated => demand[c][ft] = 1 /\ demand'[c][ft] = 0
      /\ UNCHANGED <<phase, authorizations, repeated>>
  <2>1. /\ demand' = [demand EXCEPT ![c][ft] = @ - 1] /\ demand[c][ft] > 0
        /\ UNCHANGED <<phase, authorizations, repeated>>
    BY DEF GiveBack, Unsubscribe, lifecycle
  <2>2. <<c, ft>> \notin repeated => demand[c][ft] <= 1
    BY DEF DemandInv, AskedOnce
  <2>3. demand[c][ft] \in Nat /\ demand'[c][ft] = demand[c][ft] - 1
    BY <2>1 DEF ProgramTypeOK
  <2> QED
    BY <2>1, <2>2, <2>3
<1>2. subscriptions' = [subscriptions EXCEPT ![c][ft] = RemoveSubscriptionState(@)]
  BY DEF GiveBack, Unsubscribe
<1>3. \A d \in Interactors, gt \in FeedTopics : <<d, gt>> # <<c, ft>> =>
        /\ demand'[d][gt] = demand[d][gt]
        /\ subscriptions'[d][gt] = subscriptions[d][gt]
  BY <1>1, <1>2 DEF TypeOK, ProgramTypeOK
<1>4. phase[c] # "closed" /\ <<c, ft>> \notin repeated =>
        /\ IsSubscribed(c, ft) => IsSubscribed(c, ft)'
        /\ IsSubscribed(c, ft)' => subscriptions'[c][ft].count < 0
  <2> SUFFICES ASSUME phase[c] # "closed", <<c, ft>> \notin repeated
               PROVE  IsSubscribed(c, ft)' /\ subscriptions'[c][ft].count < 0
    OBVIOUS
  <2>1. IsSubscribed(c, ft) /\ subscriptions[c][ft].count < 1
    BY <1>1 DEF DemandInv, AskedOnce
  <2>2. subscriptions[c][ft] \in SubscriptionState
    BY <2>1 DEF TypeOK, IsSubscribed
  <2>3. subscriptions'[c][ft] = RemoveSubscriptionState(subscriptions[c][ft])
    BY <1>2 DEF TypeOK
  <2>4. /\ subscriptions'[c][ft] \in SubscriptionState
        /\ subscriptions'[c][ft].count = subscriptions[c][ft].count - 1
        /\ subscriptions[c][ft].count \in Int
    BY <2>1, <2>2, <2>3, RemovedCount
  <2> QED
    BY <2>1, <2>4, ConstantsAssumption DEF IsSubscribed
<1> SUFFICES ASSUME NEW d \in Interactors, NEW gt \in FeedTopics, <<d, gt>> \notin repeated'
             PROVE  AskedOnce(d, gt)'
  BY DEF DemandInv
<1>5. CASE <<d, gt>> = <<c, ft>>
  BY <1>1, <1>4, <1>5 DEF DemandInv, AskedOnce
<1>6. CASE <<d, gt>> # <<c, ft>>
  BY <1>1, <1>3, <1>6 DEF DemandInv, AskedOnce, IsSubscribed
<1> QED
  BY <1>5, <1>6

\* A client that is closed has nothing left to answer for.
LEMMA CloseDemand ==
    ASSUME TypeOK, ProgramTypeOK, DemandInv, NEW c \in Interactors, CloseInteractor(c),
           repeated' = repeated,
           demand' = demand \/ demand' = [demand EXCEPT ![c] = [ft \in FeedTopics |-> 0]]
    PROVE  DemandInv'
<1> SUFFICES ASSUME NEW d \in Interactors, NEW gt \in FeedTopics, <<d, gt>> \notin repeated
             PROVE  AskedOnce(d, gt)'
  BY DEF DemandInv
<1>1. phase' = [phase EXCEPT ![c] = "closed"] /\ authorizations' = authorizations
  BY DEF CloseInteractor
<1>2. demand'[d][gt] <= 1
  <2>1. demand'[d][gt] = demand[d][gt] \/ demand'[d][gt] = 0
    BY DEF ProgramTypeOK
  <2> QED
    BY <2>1 DEF DemandInv, AskedOnce
<1>3. CASE d = c
  BY <1>1, <1>2, <1>3 DEF AskedOnce, TypeOK
<1>4. CASE d # c
  <2>1. subscriptions'[d][gt] = subscriptions[d][gt]
    BY <1>4 DEF CloseInteractor, TypeOK
  <2>2. demand'[d][gt] = demand[d][gt] /\ phase'[d] = phase[d]
    BY <1>1, <1>4 DEF ProgramTypeOK, TypeOK
  <2> QED
    BY <1>1, <2>1, <2>2 DEF DemandInv, AskedOnce, IsSubscribed
<1> QED
  BY <1>3, <1>4

-----------------------------------------------------------------------------
(* The ledger and what is on its way to it.                                *)

\* Both sides of Covered are numbers.
LEMMA CoveredType ==
    ASSUME ProgramTypeOK, NEW c \in Interactors, NEW ft \in FeedKeys
    PROVE  /\ ledger[ft][c] \in Nat /\ demand[c][ft] \in Nat
           /\ \A m : Times(forwarded, m) \in Nat
BY TimesType, FeedKeysFinite DEF ProgramTypeOK

\* A step that leaves demand, ledger and what is on its way alone.
LEMMA LedgerUnchanged ==
    ASSUME LedgerInv, UNCHANGED <<demand, recounted, ledger, forwarded>>, Hears' = Hears,
           \A c \in Interactors : phase'[c] # "closed" => phase[c] # "closed"
    PROVE  LedgerInv'
BY DEF LedgerInv, Covered

LEMMA HearsUnchanged ==
    ASSUME UNCHANGED <<phase, notifiables>>
    PROVE  Hears' = Hears
BY DEF Hears, LiveNotifiables, Live

\* A publisher has no request of notifications before it has connected.
LEMMA ArriveLedger ==
    ASSUME TypeOK, NewsInv, LedgerInv, NEW c \in Interactors, Arrive(c)
    PROVE  LedgerInv'
<1>1. /\ phase' = [phase EXCEPT ![c] = "live"] /\ phase[c] = "new"
      /\ UNCHANGED <<notifiables, demand, recounted, ledger, forwarded>>
  BY DEF Arrive, Connect, program, requests
<1>2. Publisher = c => Publisher \notin notifiables[Feed]
  BY <1>1, SelectFeedAssumption DEF NewsInv, NotifiableHasConnected
<1>3. Hears' = Hears
  BY <1>1, <1>2, SelectFeedAssumption DEF Hears, LiveNotifiables, Live, TypeOK
<1>4. \A d \in Interactors : phase'[d] # "closed" => phase[d] # "closed"
  BY <1>1 DEF TypeOK
<1> QED
  BY <1>1, <1>3, <1>4, LedgerUnchanged

\* What a step that forwards one message adds to what is on its way.
LEMMA ForwardOne ==
    ASSUME ProgramTypeOK, Hears, NEW m \in Forwards, Forward(<<m>>)
    PROVE  \A x : Times(forwarded', x) = Times(forwarded, x) + IF m = x THEN 1 ELSE 0
<1>1. <<m>> \in Seq(Forwards) /\ forwarded \in Seq(Forwards)
  BY DEF ProgramTypeOK
<1>2. forwarded' = forwarded \o <<m>>
  BY DEF Forward
<1> SUFFICES ASSUME NEW x
             PROVE  Times(forwarded', x) = Times(forwarded, x) + IF m = x THEN 1 ELSE 0
  OBVIOUS
<1>3. Times(forwarded \o <<m>>, x) = Times(forwarded, x) + Times(<<m>>, x)
  BY <1>1, TimesConcat
<1> QED
  BY <1>2, <1>3, TimesOne

LEMMA BothSides ==
    ASSUME NEW l \in Nat, NEW a \in Nat, NEW n \in Nat, NEW r \in Nat, l + a >= n + r
    PROVE  /\ l + (a + 1) >= (n + 1) + (r + 0)
           /\ l + (a + 0) >= (n - 1) + (r + 1)
OBVIOUS

\* A client asks, or gives back, and with its demand changes by one what is on
\* its way to a publisher that hears of it.
LEMMA DemandLedger ==
    ASSUME ProgramTypeOK, LedgerInv, NEW c \in Interactors, NEW ft \in FeedTopics,
           UNCHANGED <<phase, notifiables, recounted, ledger>>,
           \/ /\ demand' = [demand EXCEPT ![c][ft] = @ + 1]
              /\ Forward(IF ft \in FeedKeys THEN << <<"add", c, ft>> >> ELSE <<>>)
           \/ /\ demand[c][ft] > 0
              /\ demand' = [demand EXCEPT ![c][ft] = @ - 1]
              /\ Forward(IF ft \in FeedKeys THEN << <<"remove", c, ft>> >> ELSE <<>>)
    PROVE  LedgerInv'
<1>1. Hears' = Hears
  BY HearsUnchanged
<1>2. CASE ~Hears
  <2>1. forwarded' = forwarded
    BY <1>2 DEF Forward
  <2> QED
    BY <1>1, <1>2, <2>1 DEF LedgerInv
<1>3. CASE Hears
  <2> SUFFICES ASSUME NEW d \in Interactors, NEW gt \in FeedKeys,
                      phase'[d] # "closed", <<d, gt>> \notin recounted
               PROVE  Covered(d, gt)'
    BY <1>1, <1>3 DEF LedgerInv
  <2>1. ledger[gt][d] + Times(forwarded, <<"add", d, gt>>)
            >= demand[d][gt] + Times(forwarded, <<"remove", d, gt>>)
    BY <1>3 DEF LedgerInv, Covered
  <2>2. /\ gt \in FeedTopics /\ demand[d][gt] \in Nat /\ ledger[gt][d] \in Nat
        /\ Times(forwarded, <<"add", d, gt>>) \in Nat
        /\ Times(forwarded, <<"remove", d, gt>>) \in Nat
    BY CoveredType, FeedKeysFinite
  <2>3. PICK n : demand' = [demand EXCEPT ![c][ft] = n]
    OBVIOUS
  <2>4. <<d, gt>> # <<c, ft>> => demand'[d][gt] = demand[d][gt]
    BY <2>2, <2>3 DEF ProgramTypeOK
  <2>5. CASE ft \notin FeedKeys
    <3>1. forwarded' = forwarded
      BY <1>3, <2>5, ConcatEmptySeq DEF Forward, ProgramTypeOK
    <3> QED
      BY <2>1, <2>4, <2>5, <3>1 DEF Covered
  <2>6. CASE ft \in FeedKeys /\ <<d, gt>> # <<c, ft>>
    <3>1. demand'[d][gt] = demand[d][gt]
      BY <2>4, <2>6
    <3>2. PICK kind \in {"add", "remove"} : Forward(<< <<kind, c, ft>> >>)
      BY <2>6
    <3>3. <<kind, c, ft>> \in Forwards
      BY <2>6 DEF Forwards
    <3>4. /\ <<kind, c, ft>> # <<"add", d, gt>>
          /\ <<kind, c, ft>> # <<"remove", d, gt>>
      BY <2>6
    <3>5. /\ Times(forwarded', <<"add", d, gt>>) = Times(forwarded, <<"add", d, gt>>) + 0
          /\ Times(forwarded', <<"remove", d, gt>>) = Times(forwarded, <<"remove", d, gt>>) + 0
      BY <1>3, <3>2, <3>3, <3>4, ForwardOne
    <3> QED
      BY <2>1, <2>2, <3>1, <3>5 DEF Covered
  <2>7. CASE ft \in FeedKeys /\ <<d, gt>> = <<c, ft>>
    <3>1. CASE /\ demand' = [demand EXCEPT ![c][ft] = @ + 1]
               /\ Forward(<< <<"add", c, ft>> >>)
      <4>1. demand'[d][gt] = demand[d][gt] + 1
        BY <2>2, <2>7, <3>1 DEF ProgramTypeOK
      <4>2. <<"add", c, ft>> \in Forwards
        BY <2>7 DEF Forwards
      <4>3. <<"add", c, ft>> = <<"add", d, gt>> /\ <<"add", c, ft>> # <<"remove", d, gt>>
        BY <2>7
      <4>4. /\ Times(forwarded', <<"add", d, gt>>) = Times(forwarded, <<"add", d, gt>>) + 1
            /\ Times(forwarded', <<"remove", d, gt>>) = Times(forwarded, <<"remove", d, gt>>) + 0
        BY <1>3, <3>1, <4>2, <4>3, ForwardOne
      <4>5. ledger'[gt][d] = ledger[gt][d]
        OBVIOUS
      <4>6. ledger[gt][d] + (Times(forwarded, <<"add", d, gt>>) + 1)
                >= (demand[d][gt] + 1) + (Times(forwarded, <<"remove", d, gt>>) + 0)
        BY <2>1, <2>2, BothSides
      <4> QED
        BY <4>1, <4>4, <4>5, <4>6 DEF Covered
    <3>2. CASE /\ demand[c][ft] > 0
               /\ demand' = [demand EXCEPT ![c][ft] = @ - 1]
               /\ Forward(<< <<"remove", c, ft>> >>)
      <4>1. demand'[d][gt] = demand[d][gt] - 1
        BY <2>2, <2>7, <3>2 DEF ProgramTypeOK
      <4>2. <<"remove", c, ft>> \in Forwards
        BY <2>7 DEF Forwards
      <4>3. <<"remove", c, ft>> # <<"add", d, gt>> /\ <<"remove", c, ft>> = <<"remove", d, gt>>
        BY <2>7
      <4>4. /\ Times(forwarded', <<"add", d, gt>>) = Times(forwarded, <<"add", d, gt>>) + 0
            /\ Times(forwarded', <<"remove", d, gt>>) = Times(forwarded, <<"remove", d, gt>>) + 1
        BY <1>3, <3>2, <4>2, <4>3, ForwardOne
      <4>5. ledger'[gt][d] = ledger[gt][d]
        OBVIOUS
      <4>6. ledger[gt][d] + (Times(forwarded, <<"add", d, gt>>) + 0)
                >= (demand[d][gt] - 1) + (Times(forwarded, <<"remove", d, gt>>) + 1)
        BY <2>1, <2>2, BothSides
      <4> QED
        BY <4>1, <4>4, <4>5, <4>6 DEF Covered
    <3> QED
      BY <2>7, <3>1, <3>2
  <2> QED
    BY <2>5, <2>6, <2>7
<1> QED
  BY <1>2, <1>3

\* The removals for a client that is closed leave what is due to others.
LEMMA LeaveLedger ==
    ASSUME TypeOK, ProgramTypeOK, LedgerInv, NEW c \in Interactors, Leave(c)
    PROVE  LedgerInv'
<1>1. /\ c # Publisher /\ CloseInteractor(c)
      /\ demand' = [demand EXCEPT ![c] = [ft \in FeedTopics |-> 0]]
      /\ UNCHANGED <<recounted, ledger>>
  BY DEF Leave, ReadError, WriteError, program
<1>2. /\ phase' = [phase EXCEPT ![c] = "closed"]
      /\ notifiables' = [f \in Feeds |-> notifiables[f] \ {c}]
  BY <1>1 DEF CloseInteractor, RemoveInteractor
<1>3. Hears' = Hears
  BY <1>1, <1>2, SelectFeedAssumption DEF Hears, LiveNotifiables, Live, TypeOK
<1>4. PICK topics \in SetToSeqs(FindByInteractor(c) \cap FeedKeys) :
        Forward([i \in DOMAIN topics |-> <<"remove", c, topics[i]>>])
  BY DEF Leave
<1>5. PICK removals \in Seq(Forwards) :
        /\ \A i \in 1 .. Len(removals) : removals[i][2] = c
        /\ Forward(removals)
  BY <1>4, RemovalsType
<1>6. CASE ~Hears
  <2>1. forwarded' = forwarded
    BY <1>5, <1>6 DEF Forward
  <2> QED
    BY <1>3, <1>6, <2>1 DEF LedgerInv
<1>7. CASE Hears
  <2>1. forwarded' = forwarded \o removals
    BY <1>5, <1>7 DEF Forward
  <2> SUFFICES ASSUME NEW d \in Interactors, NEW ft \in FeedKeys,
                      phase'[d] # "closed", <<d, ft>> \notin recounted
               PROVE  Covered(d, ft)'
    BY <1>1, <1>3, <1>7 DEF LedgerInv
  <2>2. d # c /\ phase[d] # "closed"
    BY <1>2 DEF TypeOK
  <2>3. demand'[d][ft] = demand[d][ft]
    BY <1>1, <2>2 DEF ProgramTypeOK
  <2>4. ASSUME NEW kind
        PROVE  Times(forwarded', <<kind, d, ft>>) = Times(forwarded, <<kind, d, ft>>)
    <3>1. \A i \in 1 .. Len(removals) : removals[i] # <<kind, d, ft>>
      BY <1>5, <2>2
    <3>2. Times(removals, <<kind, d, ft>>) = 0
      BY <3>1, TimesNone
    <3>3. forwarded \in Seq(Forwards)
      BY DEF ProgramTypeOK
    <3>4. Times(forwarded, <<kind, d, ft>>) \in Nat
      BY <3>3, TimesType
    <3>5. Times(forwarded \o removals, <<kind, d, ft>>)
            = Times(forwarded, <<kind, d, ft>>) + Times(removals, <<kind, d, ft>>)
      BY <3>3, TimesConcat
    <3> QED
      BY <2>1, <3>2, <3>4, <3>5
  <2>5. Covered(d, ft)
    BY <1>7, <2>2 DEF LedgerInv
  <2>6. /\ ledger'[ft][d] = ledger[ft][d]
        /\ Times(forwarded', <<"add", d, ft>>) = Times(forwarded, <<"add", d, ft>>)
        /\ Times(forwarded', <<"remove", d, ft>>) = Times(forwarded, <<"remove", d, ft>>)
    BY <1>1, <2>4
  <2> QED
    BY <2>3, <2>5, <2>6 DEF Covered
<1> QED
  BY <1>6, <1>7

\* The publisher is closed, and not heard of again.
LEMMA PublisherLeavesLedger ==
    ASSUME TypeOK, LedgerInv, PublisherLeaves
    PROVE  LedgerInv'
<1>1. phase' = [phase EXCEPT ![Publisher] = "closed"] /\ forwarded' = <<>>
  BY DEF PublisherLeaves, ReadError, WriteError, CloseInteractor
<1>2. ~Hears'
  BY <1>1, SelectFeedAssumption DEF Hears, LiveNotifiables, Live, TypeOK
<1> QED
  BY <1>1, <1>2 DEF LedgerInv

\* A publisher that asks for notifications is sent an add for every subscription,
\* and there is one for every demand, which is no more than 1 for what was never
\* asked for again.
LEMMA RequestNotificationsLedger ==
    ASSUME TypeOK, ProgramTypeOK, DemandInv, LedgerInv, RequestNotifications
    PROVE  LedgerInv'
<1>1. /\ Publisher \notin notifiables[Feed]
      /\ notifiables' = [notifiables EXCEPT ![Feed] = @ \cup {Publisher}]
      /\ UNCHANGED <<phase, demand, ledger>> /\ recounted' = repeated
  BY DEF RequestNotifications, AddNotification, program
<1>2. ~Hears /\ forwarded = <<>>
  BY <1>1 DEF Hears, LiveNotifiables, LedgerInv
<1>3. Hears' <=> Live(Publisher)
  BY <1>1, SelectFeedAssumption DEF Hears, LiveNotifiables, Live, TypeOK
<1>4. PICK existing \in SetToSeqs(SubscribersToFeed(Feed)) :
        forwarded' = IF Live(Publisher)
            THEN forwarded \o
                    [i \in DOMAIN existing |-> <<"add", existing[i][1], existing[i][2]>>]
            ELSE forwarded
  BY DEF RequestNotifications
<1>5. PICK adds \in Seq(Forwards) :
        /\ \A i \in 1 .. Len(adds) : adds[i][1] = "add"
        /\ \A c \in Interactors, ft \in FeedKeys : IsSubscribed(c, ft) =>
                \E i \in 1 .. Len(adds) : adds[i] = <<"add", c, ft>>
        /\ forwarded' = IF Live(Publisher) THEN forwarded \o adds ELSE forwarded
  BY <1>4, AddsType
<1>6. CASE ~Live(Publisher)
  BY <1>2, <1>3, <1>5, <1>6 DEF LedgerInv
<1>7. CASE Live(Publisher)
  <2>1. forwarded' = adds
    BY <1>2, <1>5, <1>7, ConcatEmptySeq
  <2> SUFFICES ASSUME NEW c \in Interactors, NEW ft \in FeedKeys,
                      phase'[c] # "closed", <<c, ft>> \notin repeated
               PROVE  Covered(c, ft)'
    BY <1>1, <1>3, <1>7 DEF LedgerInv
  <2>2. Times(adds, <<"remove", c, ft>>) = 0
    <3>1. \A i \in 1 .. Len(adds) : adds[i] # <<"remove", c, ft>>
      BY <1>5
    <3> QED
      BY <3>1, TimesNone
  <2>3. Times(adds, <<"add", c, ft>>) \in Nat
    BY TimesType
  <2>4. /\ ledger[ft][c] \in Nat /\ demand[c][ft] \in Nat /\ ft \in FeedTopics
        /\ demand[c][ft] <= 1
    BY CoveredType, FeedKeysFinite DEF DemandInv, AskedOnce
  <2>5. demand[c][ft] > 0 => Times(adds, <<"add", c, ft>>) >= 1
    <3> SUFFICES ASSUME demand[c][ft] > 0 PROVE Times(adds, <<"add", c, ft>>) >= 1
      OBVIOUS
    <3>1. IsSubscribed(c, ft)
      BY <1>1, <2>4 DEF DemandInv, AskedOnce
    <3>2. PICK i \in 1 .. Len(adds) : adds[i] = <<"add", c, ft>>
      BY <1>5, <3>1
    <3>3. Times(adds, adds[i]) >= 1
      BY TimesSome
    <3> QED
      BY <3>2, <3>3
  <2>6. ledger[ft][c] + Times(adds, <<"add", c, ft>>)
            >= demand[c][ft] + Times(adds, <<"remove", c, ft>>)
    BY <2>2, <2>3, <2>4, <2>5
  <2> QED
    BY <1>1, <2>1, <2>6 DEF Covered
<1> QED
  BY <1>6, <1>7

\* What the publisher takes is no longer on its way; a removal that finds no
\* entry leaves more in the ledger than is due, never less.
LEMMA HandleForwardedLedger ==
    ASSUME ProgramTypeOK, LedgerInv, HandleForwardedSubscription
    PROVE  LedgerInv'
<1>1. /\ UNCHANGED <<phase, notifiables, demand, recounted>>
      /\ forwarded # <<>> /\ forwarded' = Tail(forwarded)
  BY DEF HandleForwardedSubscription, vars, lifecycle, repositories, requests
<1>2. Hears' = Hears
  BY <1>1, HearsUnchanged
<1>3. Hears /\ forwarded \in Seq(Forwards)
  BY <1>1 DEF LedgerInv, ProgramTypeOK
<1>4. Head(forwarded) \in Forwards /\ Tail(forwarded) \in Seq(Forwards)
  BY <1>1, <1>3, HeadTailProperties
<1>5. PICK kind \in {"add", "remove"}, c \in Interactors, ft \in FeedKeys :
        Head(forwarded) = <<kind, c, ft>>
  BY <1>4 DEF Forwards
<1>6. /\ ledger[ft][c] \in Nat
      /\ ledger' = [ledger EXCEPT ![ft][c] =
            IF kind = "add" THEN ledger[ft][c] + 1
            ELSE IF ledger[ft][c] = 0 THEN 0 ELSE ledger[ft][c] - 1]
  BY <1>5, CoveredType
     DEF HandleForwardedSubscription, AddSubscriptionOf, RemoveSubscription
<1>7. \A m : /\ Times(forwarded, m) = Times(forwarded', m) + IF <<kind, c, ft>> = m THEN 1 ELSE 0
            /\ Times(forwarded', m) \in Nat
  BY <1>1, <1>3, <1>4, <1>5, TimesTail, TimesType
<1> SUFFICES ASSUME NEW d \in Interactors, NEW gt \in FeedKeys,
                    phase[d] # "closed", <<d, gt>> \notin recounted
             PROVE  Covered(d, gt)'
  BY <1>1, <1>2, <1>3 DEF LedgerInv
<1>8. ledger[gt][d] + Times(forwarded, <<"add", d, gt>>)
        >= demand[d][gt] + Times(forwarded, <<"remove", d, gt>>)
  BY <1>3 DEF LedgerInv, Covered
<1>9. ledger[gt][d] \in Nat /\ demand[d][gt] \in Nat
  BY CoveredType
<1>10. CASE <<d, gt>> # <<c, ft>>
  <2>1. ledger'[gt][d] = ledger[gt][d]
    BY <1>6, <1>10 DEF ProgramTypeOK
  <2>2. \A other \in {"add", "remove"} :
            Times(forwarded, <<other, d, gt>>) = Times(forwarded', <<other, d, gt>>)
    <3> SUFFICES ASSUME NEW other \in {"add", "remove"}
                 PROVE  Times(forwarded, <<other, d, gt>>) = Times(forwarded', <<other, d, gt>>)
      OBVIOUS
    <3>1. <<kind, c, ft>> # <<other, d, gt>>
      BY <1>10
    <3>2. /\ Times(forwarded, <<other, d, gt>>) = Times(forwarded', <<other, d, gt>>) + 0
          /\ Times(forwarded', <<other, d, gt>>) \in Nat
      BY <1>7, <3>1
    <3> QED
      BY <3>2
  <2> QED
    BY <1>1, <1>8, <2>1, <2>2 DEF Covered
<1>11. CASE <<d, gt>> = <<c, ft>>
  <2> DEFINE a == Times(forwarded', <<"add", d, gt>>)
             r == Times(forwarded', <<"remove", d, gt>>)
  <2>1. a \in Nat /\ r \in Nat
    BY <1>7
  <2>2. CASE kind = "add"
    <3>1. ledger'[gt][d] = ledger[gt][d] + 1
      BY <1>6, <1>11, <2>2 DEF ProgramTypeOK
    <3>2. <<kind, c, ft>> = <<"add", d, gt>> /\ <<kind, c, ft>> # <<"remove", d, gt>>
      BY <1>11, <2>2
    <3>3. /\ Times(forwarded, <<"add", d, gt>>) = a + 1
          /\ Times(forwarded, <<"remove", d, gt>>) = r + 0
      BY <1>7, <3>2
    <3> HIDE DEF a, r
    <3>4. (ledger[gt][d] + 1) + a >= demand[d][gt] + r
      BY <1>8, <1>9, <2>1, <3>3
    <3> QED
      BY <1>1, <3>1, <3>4 DEF Covered, a, r
  <2>3. CASE kind = "remove"
    <3>1. ledger'[gt][d] = IF ledger[gt][d] = 0 THEN 0 ELSE ledger[gt][d] - 1
      BY <1>6, <1>11, <2>3 DEF ProgramTypeOK
    <3>2. <<kind, c, ft>> # <<"add", d, gt>> /\ <<kind, c, ft>> = <<"remove", d, gt>>
      BY <1>11, <2>3
    <3>3. /\ Times(forwarded, <<"add", d, gt>>) = a + 0
          /\ Times(forwarded, <<"remove", d, gt>>) = r + 1
      BY <1>7, <3>2
    <3> HIDE DEF a, r
    <3>4. ledger'[gt][d] + a >= demand[d][gt] + r
      BY <1>8, <1>9, <2>1, <3>1, <3>3
    <3> QED
      BY <1>1, <3>4 DEF Covered, a, r
  <2> QED
    BY <2>2, <2>3
<1> QED
  BY <1>10, <1>11

LEMMA LedgerStep ==
    ASSUME TypeOK, NewsInv, ProgramTypeOK, DemandInv, LedgerInv,
           [SelectFeedNext]_selectFeedVars
    PROVE  DemandInv' /\ LedgerInv'
<1>0. ASSUME UNCHANGED <<demand, repeated, recounted, subscriptions, authorizations,
                         phase, notifiables, ledger, forwarded>>
      PROVE  DemandInv' /\ LedgerInv'
  BY <1>0, DemandUnchanged, HearsUnchanged, LedgerUnchanged
<1>1. ASSUME NEW c \in Interactors, Arrive(c) PROVE DemandInv' /\ LedgerInv'
  <2>1. /\ UNCHANGED <<demand, repeated, subscriptions, authorizations>>
        /\ \A d \in Interactors : phase'[d] # "closed" => phase[d] # "closed"
    BY <1>1 DEF Arrive, Connect, TypeOK, requests
  <2> QED
    BY <1>1, <2>1, DemandUnchanged, ArriveLedger
<1>2. ASSUME NEW c \in Interactors, Leave(c) PROVE DemandInv' /\ LedgerInv'
  <2>1. /\ CloseInteractor(c)
        /\ demand' = [demand EXCEPT ![c] = [ft \in FeedTopics |-> 0]]
        /\ repeated' = repeated
    BY <1>2 DEF Leave, ReadError, WriteError
  <2> QED
    BY <1>2, <2>1, CloseDemand, LeaveLedger
<1>3. CASE PublisherLeaves
  <2>1. CloseInteractor(Publisher) /\ UNCHANGED <<demand, repeated>>
    BY <1>3 DEF PublisherLeaves, ReadError, WriteError, requests
  <2> QED
    BY <1>3, <2>1, SelectFeedAssumption, CloseDemand, PublisherLeavesLedger
<1>4. ASSUME NEW c \in Interactors, NEW ft \in FeedTopics, Ask(c, ft)
      PROVE  DemandInv' /\ LedgerInv'
  <2>1. UNCHANGED <<phase, notifiables, recounted, ledger>>
    BY <1>4 DEF Ask, RequestSubscription, SubscribeAuthorized, SubscribeUnrequired,
                SubscribeAsk, AcceptAuthorization, lifecycle, repositories, program
  <2>2. LedgerInv'
    BY <1>4, <2>1, DemandLedger DEF Ask
  <2> QED
    BY <1>4, <2>2, AskDemand
<1>5. ASSUME NEW c \in Interactors, NEW ft \in FeedTopics, GiveBack(c, ft)
      PROVE  DemandInv' /\ LedgerInv'
  <2>1. UNCHANGED <<phase, notifiables, recounted, ledger>>
    BY <1>5 DEF GiveBack, Unsubscribe, lifecycle, program
  <2>2. LedgerInv'
    BY <1>5, <2>1, DemandLedger DEF GiveBack
  <2> QED
    BY <1>5, <2>2, GiveBackDemand
<1>6. ASSUME NEW ft \in FeedKeys, HandleExchangeData(ft) PROVE DemandInv' /\ LedgerInv'
  BY <1>0, <1>6 DEF HandleExchangeData, vars, lifecycle, repositories, requests
<1>7. CASE RequestNotifications
  <2>1. UNCHANGED <<demand, repeated, subscriptions, authorizations, phase>>
    BY <1>7 DEF RequestNotifications, AddNotification
  <2> QED
    BY <1>7, <2>1, DemandUnchanged, RequestNotificationsLedger
<1>8. CASE HandleForwardedSubscription
  <2>1. UNCHANGED <<demand, repeated, subscriptions, authorizations, phase>>
    BY <1>8 DEF HandleForwardedSubscription, vars, lifecycle, repositories, requests
  <2> QED
    BY <1>8, <2>1, DemandUnchanged, HandleForwardedLedger
<1>9. CASE HandlerStep
  <2>1. UNCHANGED <<demand, repeated, recounted, ledger, forwarded, subscriptions,
                    authorizations, phase, notifiables>>
    BY <1>9 DEF HandlerStep, HandleImage, HandleDelta, SendUnicastData, SendMulticastData,
                SendData, vars, lifecycle, repositories, requests
  <2> QED
    BY <1>0, <2>1
<1>10. CASE LoopEnds
  BY <1>0, <1>10 DEF LoopEnds, DisposeThrows, requests, program
<1>11. CASE UNCHANGED selectFeedVars
  BY <1>0, <1>11 DEF selectFeedVars, vars, lifecycle, repositories, program, requests
<1> QED
  BY <1>1, <1>2, <1>3, <1>4, <1>5, <1>6, <1>7, <1>8, <1>9, <1>10, <1>11
     DEF SelectFeedNext, ProgramStep

\* With everything forwarded taken, the ledger counts no less of a topic than a
\* connected client has asked for and not given back, however often and whether the
\* client or the publisher came first, except for what the client had asked for again
\* before the publisher came.  There it fails: a client that has asked twice and given
\* back once has no subscription the publisher could be told of.
THEOREM AskedIsInLedgerHolds == SelectFeedSpec => []AskedIsInLedger
<1>1. SelectFeedInit => DemandInv /\ LedgerInv
  <2> SUFFICES ASSUME SelectFeedInit PROVE DemandInv /\ LedgerInv
    OBVIOUS
  <2>1. DemandInv
    BY DEF SelectFeedInit, Init, DemandInv, AskedOnce, IsSubscribed
  <2>2. ~Hears /\ forwarded = <<>>
    BY SelectFeedAssumption DEF SelectFeedInit, Init, Hears, LiveNotifiables
  <2> QED
    BY <2>1, <2>2 DEF LedgerInv
<1>2. /\ TypeOK /\ NewsInv /\ ProgramTypeOK /\ DemandInv /\ LedgerInv
      /\ [SelectFeedNext]_selectFeedVars
      => DemandInv' /\ LedgerInv'
  BY LedgerStep
<1>3. ProgramTypeOK /\ LedgerInv => AskedIsInLedger
  <2> SUFFICES ASSUME ProgramTypeOK, LedgerInv, Hears, forwarded = <<>>,
                      NEW c \in Interactors, NEW ft \in FeedKeys, Live(c),
                      <<c, ft>> \notin recounted
               PROVE  ledger[ft][c] >= demand[c][ft]
    BY DEF AskedIsInLedger
  <2>1. Covered(c, ft)
    BY DEF LedgerInv, Live
  <2>2. ASSUME NEW m PROVE Times(forwarded, m) = 0
    <3>1. forwarded \in Seq(Forwards) /\ \A i \in 1 .. Len(forwarded) : forwarded[i] # m
      BY EmptySeq
    <3> QED
      BY <3>1, TimesNone
  <2> QED
    BY <2>1, <2>2, CoveredType DEF Covered
<1> QED
  BY <1>1, <1>2, <1>3, ImplementsDistributor, TypeCorrect, NewsHolds, ProgramTypeHolds,
     PTL DEF SelectFeedSpec
=============================================================================
