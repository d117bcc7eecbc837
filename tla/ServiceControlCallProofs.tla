---------------------- MODULE ServiceControlCallProofs ----------------------
(***************************************************************************)
(* Proofs about ServiceControlCall, for any set of workers, any calling    *)
(* configs and any number of tokens and reports: the inductive invariant,  *)
(* lemmas on the queues of posted closures that it is about, the steps of  *)
(* the main thread, the calls of a worker and what it runs of what was     *)
(* posted to it, and the theorems.                                         *)
(***************************************************************************)
EXTENDS ServiceControlCall, TLAPS

\* The token is one that the mode has for the service.
Fits(s, token) ==
  /\ token # NoToken
  /\ \/ mode = "imds" /\ token.by = "imds"
     \/ mode = "iam" /\ token.by = "iam"
     \/ mode = "service_account" /\ s = "sc" /\ token.by = "sc_gen"
     \/ mode = "service_account" /\ s = "quota" /\ token.by = "quota_gen"

\* Worker w has a token of s, or gets one from the first n closures it waits for.
Arrives(w, n, s) ==
  \/ tokens[w][s] # NoToken
  \/ \E j \in 1..n : posted[w][j].op = "token" /\ s \in posted[w][j].sets

\* Where each closure may stand: the cache is made by the first and removed by the
\* last, tokens fit, and the server's wait ends only behind the tokens it is for.
PlaceOK(w, i) ==
  /\ posted[w][i].op = "set" => i = 1 /\ cache[w] = "none"
  /\ posted[w][i].op = "remove" => i = Len(posted[w]) /\ closed
  /\ posted[w][i].op = "token" =>
       \A s \in posted[w][i].sets : Fits(s, posted[w][i].token)
  /\ posted[w][i].op = "listen" /\ InitTargets # {} =>
       \A s \in Services : Arrives(w, i - 1, s)

Ordered(w) ==
  /\ \A i \in 1..Len(posted[w]) : PlaceOK(w, i)
  /\ cache[w] = "none" => posted[w] # <<>> /\ posted[w][1].op = "set"
  /\ cache[w] \in {"dying", "gone"} => posted[w] = <<>> /\ closed
  /\ \A r \in ready : \A s \in Sets(r) : Arrives(w, Len(posted[w]), s)

\* The tokens a worker has fit, and what calls carry; a call was made with a token,
\* so its retry finds one.
TokensFit(w) ==
  /\ \A s \in Services : tokens[w][s] # NoToken => Fits(s, tokens[w][s])
  /\ \A c \in calls[w] :
       /\ TokenFor(w, c.method) # NoToken
       /\ Fits(IF c.method = "allocateQuota" THEN "quota" ELSE "sc", c.token)

\* The place of the factory of a method among the members.
Place(method) == CASE method = "check" -> 3 [] method = "allocateQuota" -> 4 [] method = "report" -> 5

\* Which members exist, and what those that are left can still be needed for: the
\* calls of a method need its factory, and what the client has to do needs all.
Standing(w) ==
  /\ cache[w] \in {"none", "gone"} => members[w] = 0
  /\ cache[w] = "alive" => members[w] = 6
  /\ cache[w] = "dying" => members[w] \in 1..6
  /\ \A c \in calls[w] : Place(c.method) <= members[w]
  /\ timer[w] \/ Batched(w) # 0 => members[w] = 6

IInv ==
  /\ TypeOK
  /\ \A w \in Workers : Ordered(w) /\ TokensFit(w) /\ Standing(w)
  /\ TokenBeforeTraffic

-----------------------------------------------------------------------------

\* The members and the places of the factories.
LEMMA MemberFacts ==
  /\ Len(Members) = 6
  /\ Members[1] = "sc_token_" /\ Members[2] = "quota_token_"
  /\ Members[3] = "check_call_factory_" /\ Members[4] = "quota_call_factory_"
  /\ Members[5] = "report_call_factory_" /\ Members[6] = "client_"
  /\ \A m \in Methods : Place(m) \in 3..5 /\ FactoryOf(m) = Members[Place(m)]
<1>1. /\ Len(Members) = 6
      /\ Members[1] = "sc_token_" /\ Members[2] = "quota_token_"
      /\ Members[3] = "check_call_factory_" /\ Members[4] = "quota_call_factory_"
      /\ Members[5] = "report_call_factory_" /\ Members[6] = "client_"
  BY DEF Members
<1>2. Place("check") = 3 /\ Place("allocateQuota") = 4 /\ Place("report") = 5
  BY Zenon DEF Place
<1>3. /\ FactoryOf("check") = "check_call_factory_" /\ FactoryOf("allocateQuota") = "quota_call_factory_"
      /\ FactoryOf("report") = "report_call_factory_"
  BY Zenon DEF FactoryOf
<1>4. 3 \in 3..5 /\ 4 \in 3..5 /\ 5 \in 3..5
  OBVIOUS
<1> QED BY Zenon, <1>1, <1>2, <1>3, <1>4 DEF Methods

\* InitHttpRequestSetting leaves a number for each method.
LEMMA SettingNat ==
  ASSUME NEW c \in CallingConfigs PROVE InitHttpRequestSetting(c) \in [Methods -> Nat]
<1>1. \A f : Setting(c, f, 3) \in Nat /\ Setting(c, f, 1) \in Nat /\ Setting(c, f, 5) \in Nat
  BY Zenon, ConfigsAssumption DEF Setting
<1> QED BY Zenon, <1>1 DEF InitHttpRequestSetting, Methods

\* c holds a, and then b.
Joins(c, a, b) ==
  /\ Len(c) = Len(a) + Len(b)
  /\ \A i \in 1..Len(a) : c[i] = a[i]
  /\ \A k \in 1..Len(b) : c[Len(a) + k] = b[k]
  /\ \A i \in 1..Len(c) : i \in 1..Len(a) \/ \E k \in 1..Len(b) : i = Len(a) + k

\* A concatenation does.
LEMMA ConcatJoins ==
  ASSUME NEW S, NEW a \in Seq(S), NEW b \in Seq(S)
  PROVE a \o b \in Seq(S) /\ Joins(a \o b, a, b)
<1>1. /\ a \o b \in Seq(S)
      /\ Len(a \o b) = Len(a) + Len(b)
      /\ \A i \in 1..Len(a) + Len(b) : (a \o b)[i] = IF i <= Len(a) THEN a[i] ELSE b[i - Len(a)]
  OBVIOUS
<1>2. Len(a) \in Nat /\ Len(b) \in Nat
  OBVIOUS
<1>3. \A i \in 1..Len(a) : (a \o b)[i] = a[i]
  BY <1>1, <1>2
<1>4. ASSUME NEW k \in 1..Len(b) PROVE (a \o b)[Len(a) + k] = b[k]
  <2>1. Len(a) + k \in 1..Len(a) + Len(b) /\ ~(Len(a) + k <= Len(a)) /\ (Len(a) + k) - Len(a) = k
    BY <1>2
  <2> QED BY Zenon, <1>1, <2>1
<1>5. ASSUME NEW i \in 1..Len(a) + Len(b), ~(i \in 1..Len(a))
      PROVE \E k \in 1..Len(b) : i = Len(a) + k
  <2>1. i - Len(a) \in 1..Len(b) /\ i = Len(a) + (i - Len(a))
    BY <1>2, <1>5
  <2> QED BY Zenon, <2>1
<1> QED BY Zenon, <1>1, <1>3, <1>4, <1>5 DEF Joins

\* What is posted at the start.
LEMMA FirstPosts ==
  ASSUME NEW w \in Workers, Init
  PROVE /\ posted[w] \in Seq(Closures)
        /\ posted[w][1] = [op |-> "set"] /\ posted[w] # <<>>
        /\ \/ Len(posted[w]) = 1
           \/ Len(posted[w]) = 2 /\ InitTargets = {} /\ posted[w][2] = [op |-> "listen"]
<1>1. [op |-> "set"] \in Closures /\ [op |-> "listen"] \in Closures
  BY Zenon DEF Closures
<1>2. CASE InitTargets = {}
  <2>1. posted[w] = <<[op |-> "set"]>> \o <<[op |-> "listen"]>>
    BY Zenon, <1>2 DEF Init, Listen
  <2> DEFINE a == <<[op |-> "set"]>>
             b == <<[op |-> "listen"]>>
  <2>2. a \in Seq(Closures) /\ b \in Seq(Closures) /\ Len(a) = 1 /\ Len(b) = 1
    BY <1>1
  <2>3. a[1] = [op |-> "set"] /\ b[1] = [op |-> "listen"]
    BY Zenon
  <2> HIDE DEF a, b
  <2>4. a \o b \in Seq(Closures) /\ Len(a \o b) = 2 /\ (a \o b)[1] = a[1] /\ (a \o b)[2] = b[1]
    <3>1. a \o b \in Seq(Closures) /\ Joins(a \o b, a, b)
      BY Zenon, <2>2, ConcatJoins
    <3>2. 1 \in 1..Len(a) /\ 1 \in 1..Len(b) /\ Len(a) + 1 = 2 /\ Len(a) + Len(b) = 2
      BY <2>2
    <3> QED BY Zenon, <3>1, <3>2 DEF Joins
  <2>5. a \o b # <<>>
    BY <2>4
  <2>6. posted[w] = a \o b
    BY Zenon, <2>1 DEF a, b
  <2> QED BY Zenon, <1>2, <2>3, <2>4, <2>5, <2>6
<1>3. CASE InitTargets # {}
  <2>1. posted[w] = <<[op |-> "set"]>> \o <<>>
    BY Zenon, <1>3 DEF Init
  <2>2. posted[w] = <<[op |-> "set"]>>
    BY <2>1
  <2> QED BY <1>1, <2>2
<1> QED BY Zenon, <1>2, <1>3

\* The constructor leaves a cache to be made and nothing else.
LEMMA InitIInv == Init => IInv
<1> SUFFICES ASSUME Init PROVE IInv
  BY Zenon
<1>1. TypeOK
  <2>1. retries \in [Methods -> Nat]
    BY Zenon, SettingNat DEF Init
  <2>2. posted \in [Workers -> Seq(Closures)]
    <3>1. \A w \in Workers : posted[w] \in Seq(Closures)
      BY Zenon, FirstPosts
    <3> QED BY Zenon, <3>1 DEF Init
  <2>3. tokens \in [Workers -> [Services -> Tokens]]
    BY Zenon DEF Init, Tokens
  <2>4. fetched \in [Sources(mode) -> 0..MaxTokens]
    BY BoundsAssumption DEF Init
  <2>5. accepted \in [Workers -> 0..MaxReports] /\ handed \in [Workers -> 0..MaxReports]
    BY BoundsAssumption DEF Init
  <2>6. members \in [Workers -> 0..Len(Members)]
    BY MemberFacts DEF Init
  <2> QED BY Zenon, <2>1, <2>2, <2>3, <2>4, <2>5, <2>6 DEF TypeOK, Init
<1>2. ASSUME NEW w \in Workers PROVE Ordered(w) /\ TokensFit(w) /\ Standing(w)
  <2>3. Standing(w)
    <3>1. cache[w] = "none" /\ members[w] = 0 /\ calls[w] = {} /\ timer[w] = FALSE
      BY Zenon DEF Init
    <3>2. Batched(w) = 0
      BY DEF Init, Batched
    <3> QED BY Zenon, <3>1, <3>2 DEF Standing
  <2>1. cache[w] = "none" /\ ready = {} /\ calls[w] = {} /\ \A s \in Services : tokens[w][s] = NoToken
    BY Zenon DEF Init
  <2>2. ASSUME NEW i \in 1..Len(posted[w]) PROVE PlaceOK(w, i)
    <3>1. CASE Len(posted[w]) = 1
      <4>1. i = 1
        BY <3>1
      <4> QED BY <4>1, <2>1, FirstPosts DEF PlaceOK
    <3>2. CASE Len(posted[w]) = 2 /\ InitTargets = {} /\ posted[w][2] = [op |-> "listen"]
      <4>1. i = 1 \/ i = 2
        BY <3>2
      <4> QED BY <4>1, <3>2, <2>1, FirstPosts DEF PlaceOK
    <3> QED BY Zenon, <3>1, <3>2, FirstPosts
  <2> QED BY <2>1, <2>2, <2>3, FirstPosts DEF Ordered, TokensFit
<1>3. TokenBeforeTraffic
  BY Zenon DEF Init, TokenBeforeTraffic
<1> QED BY Zenon, <1>1, <1>2, <1>3 DEF IInv

-----------------------------------------------------------------------------
(* The main thread *)

\* The sources of each mode and what their callbacks set.
LEMMA SourceFacts ==
  /\ Sources("imds") = {"imds"}
  /\ Sources("service_account") = {"sc_gen", "quota_gen"}
  /\ Sources("iam") = {"access", "iam"}
  /\ Sources("none") = {}
  /\ Sets("imds") = Services /\ Sets("iam") = Services
  /\ Sets("sc_gen") = {"sc"} /\ Sets("quota_gen") = {"quota"} /\ Sets("access") = {}
<1>1. Sources("imds") = {"imds"}
  BY Zenon DEF Sources
<1>2. Sources("service_account") = {"sc_gen", "quota_gen"}
  BY Zenon DEF Sources
<1>3. Sources("iam") = {"access", "iam"}
  BY Zenon DEF Sources
<1>4. Sources("none") = {}
  BY Zenon DEF Sources
<1>5. Sets("imds") = Services /\ Sets("iam") = Services
  BY Zenon DEF Sets
<1>6. Sets("sc_gen") = {"sc"} /\ Sets("quota_gen") = {"quota"} /\ Sets("access") = {}
  BY Zenon DEF Sets
<1> QED BY Zenon, <1>1, <1>2, <1>3, <1>4, <1>5, <1>6

\* Where the server waits, one of the targets it waits for sets both tokens.
LEMMA TargetSetsAll ==
  ASSUME mode \in Modes, InitTargets # {}
  PROVE \E r \in InitTargets : Sets(r) = Services
<1>1. mode = "imds" \/ mode = "iam"
  BY Zenon, SourceFacts DEF Modes, InitTargets
<1> QED BY Zenon, <1>1, SourceFacts DEF InitTargets

\* The token of a source is one of the services it is set for.
LEMMA SourceFits ==
  ASSUME mode \in Modes, NEW r \in Sources(mode), NEW n \in 1..MaxTokens, NEW s \in Sets(r)
  PROVE Fits(s, [by |-> r, n |-> n]) /\ s \in Services
<1>1. [by |-> r, n |-> n] # NoToken
  BY BoundsAssumption DEF NoToken
<1>2. CASE mode = "imds"
  BY Zenon, <1>1, <1>2, SourceFacts DEF Fits
<1>3. CASE mode = "iam"
  BY Zenon, <1>1, <1>3, SourceFacts DEF Fits
<1>4. CASE mode = "service_account"
  BY Zenon, <1>1, <1>4, SourceFacts DEF Fits, Services
<1>5. CASE mode = "none"
  BY Zenon, <1>5, SourceFacts
<1> QED BY Zenon, <1>2, <1>3, <1>4, <1>5 DEF Modes

\* What handleSuccessResponse posts: its token first, then the end of the wait if
\* this was the last target.
LEMMA HandleSuccessPosts ==
  ASSUME mode \in Modes, NEW r \in Sources(mode), NEW n \in 1..MaxTokens
  PROVE LET h == HandleSuccess(r, n)
        IN /\ h \in Seq(Closures)
           /\ Sets(r) # {} => Len(h) >= 1 /\ h[1].op = "token" /\ h[1].sets = Sets(r)
           /\ \A k \in 1..Len(h) :
                \/ h[k] = [op |-> "token", sets |-> Sets(r), token |-> [by |-> r, n |-> n]]
                \/ /\ h[k] = [op |-> "listen"]
                   /\ InitTargets \subseteq ready \cup {r}
                   /\ Sets(r) # {} => k > 1
<1> DEFINE t == [op |-> "token", sets |-> Sets(r), token |-> [by |-> r, n |-> n]]
<1>1. t \in Closures
  <2>1. [by |-> r, n |-> n] \in Tokens
    BY Zenon DEF Tokens
  <2>2. Sets(r) \subseteq Services
    BY Zenon, SourceFits
  <2> QED BY Zenon, <2>1, <2>2 DEF Closures
<1>2. Listen \in Closures
  BY Zenon DEF Closures, Listen
<1> HIDE DEF t
<1>3. PICK a \in Seq(Closures) :
        /\ Publish(r, n) = a
        /\ (Sets(r) = {} /\ Len(a) = 0) \/ (Sets(r) # {} /\ Len(a) = 1 /\ a[1] = t)
  <2>1. CASE Sets(r) = {}
    <3>1. Publish(r, n) = <<>>
      BY Zenon, <2>1 DEF Publish
    <3>2. <<>> \in Seq(Closures) /\ Len(<<>>) = 0
      OBVIOUS
    <3> QED BY Zenon, <2>1, <3>1, <3>2
  <2>2. CASE Sets(r) # {}
    <3>1. Publish(r, n) = <<t>>
      BY Zenon, <2>2 DEF Publish, t
    <3>2. <<t>> \in Seq(Closures) /\ Len(<<t>>) = 1 /\ <<t>>[1] = t
      BY <1>1
    <3> QED BY Zenon, <2>2, <3>1, <3>2
  <2> QED BY Zenon, <2>1, <2>2
<1>4. PICK b \in Seq(Closures) :
        /\ ListenAfter(r) = b
        /\ Len(b) = 0 \/ (Len(b) = 1 /\ b[1] = Listen /\ InitTargets \subseteq ready \cup {r})
  <2>1. CASE ListenAfter(r) = <<>>
    <3>1. <<>> \in Seq(Closures) /\ Len(<<>>) = 0
      OBVIOUS
    <3> QED BY Zenon, <2>1, <3>1
  <2>2. CASE ListenAfter(r) = <<Listen>> /\ InitTargets \subseteq ready \cup {r}
    <3>1. <<Listen>> \in Seq(Closures) /\ Len(<<Listen>>) = 1 /\ <<Listen>>[1] = Listen
      BY <1>2
    <3> QED BY Zenon, <2>2, <3>1
  <2> QED BY Zenon, <2>1, <2>2 DEF ListenAfter
<1>5. HandleSuccess(r, n) = a \o b
  BY Zenon, <1>3, <1>4 DEF HandleSuccess
<1>6. a \o b \in Seq(Closures) /\ Joins(a \o b, a, b)
  BY Zenon, ConcatJoins
<1>7. Sets(r) # {} => Len(a \o b) >= 1 /\ (a \o b)[1] = t
  BY <1>3, <1>4, <1>6 DEF Joins
<1>8. ASSUME NEW i \in 1..Len(a \o b)
      PROVE \/ (a \o b)[i] = t
            \/ (a \o b)[i] = Listen /\ InitTargets \subseteq ready \cup {r} /\ (Sets(r) # {} => i > 1)
  <2>1. CASE i \in 1..Len(a)
    <3>1. Len(a) \in {0, 1} /\ (Len(a) = 1 => a[1] = t)
      BY <1>3
    <3>2. i \in Int /\ 1 <= i /\ i <= Len(a)
      BY <2>1
    <3>3. Len(a) = 1
      BY <3>1, <3>2
    <3>4. i = 1
      BY <3>2, <3>3
    <3>5. i = 1 /\ a[1] = t
      BY Zenon, <3>1, <3>3, <3>4
    <3> QED BY Zenon, <3>5, <2>1, <1>6 DEF Joins
  <2>2. CASE \E k \in 1..Len(b) : i = Len(a) + k
    <3>1. PICK k \in 1..Len(b) : i = Len(a) + k
      BY Zenon, <2>2
    <3>2. Len(b) \in {0, 1} /\ (Len(b) = 1 => b[1] = Listen /\ InitTargets \subseteq ready \cup {r})
      BY <1>4
    <3>3. k \in Int /\ 1 <= k /\ k <= Len(b)
      BY <3>1
    <3>4. Len(b) = 1
      BY <3>2, <3>3
    <3>5. k = 1
      BY <3>3, <3>4
    <3>6. k = 1 /\ b[1] = Listen /\ InitTargets \subseteq ready \cup {r}
      BY Zenon, <3>2, <3>4, <3>5
    <3>7. (a \o b)[i] = b[1]
      BY Zenon, <3>1, <3>6, <1>6 DEF Joins
    <3>8. Sets(r) # {} => i > 1
      BY <3>1, <3>6, <1>3
    <3> QED BY Zenon, <3>6, <3>7, <3>8
  <2> QED BY Zenon, <2>1, <2>2, <1>6 DEF Joins
<1>9. Sets(r) # {} => Len(a \o b) >= 1 /\ (a \o b)[1].op = "token" /\ (a \o b)[1].sets = Sets(r)
  BY <1>7 DEF t
<1>10. a \o b \in Seq(Closures)
  BY Zenon, <1>6
<1> QED BY <1>5, <1>10, <1>8, <1>9, Zenon DEF Listen, t

\* A worker has a token of every service once all targets are ready or about to be.
LEMMA AllArrive ==
  ASSUME mode \in Modes, InitTargets # {}, NEW r, InitTargets \subseteq ready \cup {r},
         NEW w \in Workers, Ordered(w), NEW s \in Services
  PROVE s \in Sets(r) \/ Arrives(w, Len(posted[w]), s)
<1>1. PICK q \in InitTargets : Sets(q) = Services
  BY Zenon, TargetSetsAll
<1> QED BY Zenon, <1>1 DEF Ordered

\* What of the invariant a step on the main thread cannot touch.
LEMMA MainThreadKeeps ==
  ASSUME IInv, UNCHANGED <<mode, workerVars>>
  PROVE (\A w \in Workers : TokensFit(w)' /\ Standing(w)') /\ TokenBeforeTraffic'
<1>1. (\A w \in Workers : TokensFit(w)') /\ TokenBeforeTraffic'
  BY DEF IInv, workerVars, clientVars, TokensFit, TokenFor, Fits, TokenBeforeTraffic, InitTargets
<1>2. \A w \in Workers : Standing(w)'
  BY Zenon DEF IInv, workerVars, clientVars, Standing, Batched
<1> QED BY Zenon, <1>1, <1>2

\* What is posted behind the closures that wait takes nothing from them.
LEMMA ArrivesKept ==
  ASSUME NEW w \in Workers, posted[w] \in Seq(Closures), NEW h \in Seq(Closures),
         Joins(posted'[w], posted[w], h), tokens' = tokens, NEW s,
         NEW m \in Nat, NEW k \in Nat, m <= Len(posted[w]), m <= k, Arrives(w, m, s)
  PROVE Arrives(w, k, s)'
<1>1. CASE tokens[w][s] # NoToken
  BY Zenon, <1>1 DEF Arrives
<1>2. CASE tokens[w][s] = NoToken
  <2>1. PICK j \in 1..m : posted[w][j].op = "token" /\ s \in posted[w][j].sets
    BY Zenon, <1>2 DEF Arrives
  <2>2. j \in 1..Len(posted[w]) /\ j \in 1..k
    OBVIOUS
  <2>3. posted'[w][j] = posted[w][j]
    BY Zenon, <2>2 DEF Joins
  <2> QED BY Zenon, <2>1, <2>2, <2>3 DEF Arrives
<1> QED BY Zenon, <1>1, <1>2

\* Nor does it move them.
LEMMA PlaceKept ==
  ASSUME NEW w \in Workers, posted[w] \in Seq(Closures), NEW h \in Seq(Closures),
         Joins(posted'[w], posted[w], h), UNCHANGED <<mode, cache, tokens>>, ~closed,
         NEW i \in 1..Len(posted[w]), PlaceOK(w, i)
  PROVE PlaceOK(w, i)'
<1>1. posted'[w][i] = posted[w][i] /\ posted[w][i].op # "remove"
  BY Zenon DEF PlaceOK, Joins
<1>2. i - 1 \in Nat /\ i - 1 <= Len(posted[w])
  OBVIOUS
<1>3. InitTargets' = InitTargets /\ \A s, t : Fits(s, t)' <=> Fits(s, t)
  BY Zenon DEF InitTargets, Fits
<1>4. \A s : Arrives(w, i - 1, s) => Arrives(w, i - 1, s)'
  BY <1>2, ArrivesKept
<1> QED BY Zenon, <1>1, <1>3, <1>4 DEF PlaceOK

\* The first of them stays the first.
LEMMA HeadKept ==
  ASSUME NEW q \in Seq(Closures), NEW r \in Seq(Closures), NEW h \in Seq(Closures),
         Joins(r, q, h), q # <<>>
  PROVE r # <<>> /\ r[1] = q[1]
<1>1. Len(q) \in Nat /\ Len(q) >= 1 /\ Len(h) \in Nat
  OBVIOUS
<1>2. r[1] = q[1]
  BY <1>1 DEF Joins
<1>3. Len(r) >= 1
  BY <1>1 DEF Joins
<1> QED BY <1>2, <1>3

-----------------------------------------------------------------------------
(* What the main thread posts keeps the invariant *)

\* A new token is posted behind what waits, and before the end of the wait.
LEMMA FetchIInv == ASSUME IInv, NEW r \in Sources(mode), Fetch(r) PROVE IInv'
<1> DEFINE n == fetched[r] + 1
<1>1. TypeOK /\ ~closed /\ n \in 1..MaxTokens /\ mode \in Modes
  BY BoundsAssumption DEF IInv, TypeOK, Fetch
<1>2. UNCHANGED <<mode, retries, closed, listening, cache, members, tokens, timer, accepted, handed, calls>>
  BY Zenon DEF Fetch, workerVars, clientVars
<1> HIDE DEF n
<1>3. PICK h \in Seq(Closures) :
        /\ h = HandleSuccess(r, n)
        /\ Sets(r) # {} => Len(h) >= 1 /\ h[1].op = "token" /\ h[1].sets = Sets(r)
        /\ \A k \in 1..Len(h) :
             \/ h[k] = [op |-> "token", sets |-> Sets(r), token |-> [by |-> r, n |-> n]]
             \/ /\ h[k] = [op |-> "listen"]
                /\ InitTargets \subseteq ready \cup {r}
                /\ Sets(r) # {} => k > 1
  BY <1>1, HandleSuccessPosts, Zenon
<1>4. ASSUME NEW w \in Workers
      PROVE /\ posted'[w] \in Seq(Closures) /\ posted[w] \in Seq(Closures)
            /\ Joins(posted'[w], posted[w], h)
  <2>1. posted[w] \in Seq(Closures)
    BY Zenon, <1>1 DEF TypeOK
  <2>2. posted'[w] = posted[w] \o h
    BY Zenon, <1>3 DEF Fetch, n
  <2> QED BY Zenon, <2>1, <2>2, ConcatJoins
<1>5. TypeOK'
  <2>1. posted' \in [Workers -> Seq(Closures)]
    BY Zenon, <1>4 DEF Fetch
  <2>2. fetched' \in [Sources(mode) -> 0..MaxTokens]
    BY <1>1, BoundsAssumption DEF TypeOK, Fetch
  <2>3. ready' \subseteq InitTargets
    BY Zenon, <1>1 DEF TypeOK, Fetch
  <2>4. InitTargets' = InitTargets
    BY Zenon, <1>2 DEF InitTargets
  <2> QED BY Zenon, <1>1, <1>2, <2>1, <2>2, <2>3, <2>4 DEF TypeOK
<1>6. ASSUME NEW w \in Workers PROVE Ordered(w)'
  <2>1. Ordered(w)
    BY Zenon DEF IInv
  <2>2. Len(posted[w]) \in Nat /\ Len(h) \in Nat
    BY <1>4
  <2>4. ASSUME NEW s \in Sets(r), NEW m \in Nat, m > Len(posted[w]) PROVE Arrives(w, m, s)'
    <3>1. Len(h) >= 1 /\ h[1].op = "token" /\ h[1].sets = Sets(r)
      BY Zenon, <1>3, <2>4
    <3>2. posted'[w][Len(posted[w]) + 1] = h[1] /\ Len(posted[w]) + 1 \in 1..m
      BY <1>4, <2>2, <2>4, <3>1 DEF Joins
    <3> QED BY Zenon, <3>1, <3>2, <2>4 DEF Arrives
  <2>5. ASSUME NEW s, NEW m \in Nat, m >= Len(posted[w]), Arrives(w, Len(posted[w]), s)
        PROVE Arrives(w, m, s)'
    BY <1>2, <1>4, <2>2, <2>5, ArrivesKept
  <2>6. ASSUME NEW i \in 1..Len(posted'[w]) PROVE PlaceOK(w, i)'
    <3>1. CASE i \in 1..Len(posted[w])
      <4>1. PlaceOK(w, i)
        BY Zenon, <2>1, <3>1 DEF Ordered
      <4> QED BY Zenon, <4>1, <3>1, <1>1, <1>2, <1>4, PlaceKept
    <3>2. CASE \E k \in 1..Len(h) : i = Len(posted[w]) + k
      <4>1. PICK k \in 1..Len(h) : i = Len(posted[w]) + k
        BY Zenon, <3>2
      <4>2. posted'[w][i] = h[k]
        BY Zenon, <4>1, <1>4 DEF Joins
      <4>3. CASE h[k] = [op |-> "token", sets |-> Sets(r), token |-> [by |-> r, n |-> n]]
        <5>1. \A s \in Sets(r) : Fits(s, [by |-> r, n |-> n])
          BY Zenon, <1>1, SourceFits
        <5>2. \A s, t : Fits(s, t)' <=> Fits(s, t)
          BY Zenon, <1>2 DEF Fits
        <5> QED BY <4>2, <4>3, <5>1, <5>2 DEF PlaceOK
      <4>4. CASE /\ h[k] = [op |-> "listen"]
                 /\ InitTargets \subseteq ready \cup {r}
                 /\ Sets(r) # {} => k > 1
        <5>1. ASSUME InitTargets # {}, NEW s \in Services PROVE Arrives(w, i - 1, s)'
          <6>1. i - 1 \in Nat /\ i - 1 >= Len(posted[w]) /\ (k > 1 => i - 1 > Len(posted[w]))
            BY <4>1, <2>2
          <6>2. CASE s \in Sets(r)
            BY Zenon, <6>1, <6>2, <4>4, <2>4
          <6>3. CASE Arrives(w, Len(posted[w]), s)
            BY Zenon, <6>1, <6>3, <2>5
          <6> QED BY Zenon, <1>1, <2>1, <4>4, <5>1, <6>2, <6>3, AllArrive
        <5>2. InitTargets' = InitTargets
          BY Zenon, <1>2 DEF InitTargets
        <5> QED BY <4>2, <4>4, <5>1, <5>2 DEF PlaceOK
      <4> QED BY Zenon, <1>3, <4>3, <4>4
    <3> QED BY Zenon, <3>1, <3>2, <1>4 DEF Joins
  <2>7. cache'[w] = "none" => posted'[w] # <<>> /\ posted'[w][1].op = "set"
    BY Zenon, <1>2, <1>4, <2>1, HeadKept DEF Ordered
  <2>8. cache'[w] \notin {"dying", "gone"}
    BY Zenon, <2>1, <1>1, <1>2 DEF Ordered
  <2>9. ASSUME NEW q \in ready', NEW s \in Sets(q) PROVE Arrives(w, Len(posted[w]), s)'
    <3>1. PICK m \in Nat : m = Len(posted'[w])
      BY <1>4
    <3>2. Arrives(w, m, s)'
      <4>1. CASE q \in ready
        <5>1. Arrives(w, Len(posted[w]), s) /\ m >= Len(posted[w])
          BY <4>1, <1>4, <2>1, <2>2, <3>1 DEF Ordered, Joins
        <5> QED BY Zenon, <5>1, <2>5
      <4>2. CASE q = r
        <5>1. m > Len(posted[w])
          BY <1>3, <1>4, <2>2, <2>9, <3>1, <4>2 DEF Joins
        <5> QED BY Zenon, <5>1, <4>2, <2>4
      <4> QED BY Zenon, <4>1, <4>2 DEF Fetch
    <3> QED BY Zenon, <3>1, <3>2 DEF Arrives
  <2> QED BY Zenon, <2>6, <2>7, <2>8, <2>9 DEF Ordered
<1>7. UNCHANGED <<mode, workerVars>>
  BY Zenon DEF Fetch
<1> QED BY Zenon, <1>5, <1>6, <1>7, MainThreadKeeps DEF IInv

\* Removing the slot is posted behind everything else.
LEMMA CloseIInv == ASSUME IInv, Close PROVE IInv'
<1> DEFINE x == [op |-> "remove"]
           h == <<x>>
<1>1. TypeOK /\ ~closed /\ closed' = TRUE
  BY Zenon DEF IInv, Close
<1>2. UNCHANGED <<mode, retries, fetched, ready, listening, cache, members, tokens, timer, accepted, handed, calls>>
  BY Zenon DEF Close, workerVars, clientVars
<1>3. h \in Seq(Closures) /\ Len(h) = 1 /\ h[1] = x /\ x \in Closures
  BY DEF Closures
<1> HIDE DEF h
<1>4. ASSUME NEW w \in Workers
      PROVE /\ posted'[w] \in Seq(Closures) /\ posted[w] \in Seq(Closures)
            /\ Joins(posted'[w], posted[w], h)
  <2>1. posted[w] \in Seq(Closures)
    BY Zenon, <1>1 DEF TypeOK
  <2>2. posted'[w] = posted[w] \o h
    BY <1>3, <2>1 DEF Close, h
  <2> QED BY Zenon, <1>3, <2>1, <2>2, ConcatJoins
<1>5. TypeOK'
  <2>1. posted' \in [Workers -> Seq(Closures)]
    BY Zenon, <1>4 DEF Close
  <2>2. InitTargets' = InitTargets
    BY Zenon, <1>2 DEF InitTargets
  <2> QED BY Zenon, <1>1, <1>2, <2>1, <2>2 DEF TypeOK
<1>6. ASSUME NEW w \in Workers PROVE Ordered(w)'
  <2>1. Ordered(w)
    BY Zenon DEF IInv
  <2>2. Len(posted[w]) \in Nat
    BY <1>4
  <2>3. Len(posted'[w]) = Len(posted[w]) + 1 /\ posted'[w][Len(posted[w]) + 1] = x
    BY <1>3, <1>4, <2>2 DEF Joins
  <2>4. ASSUME NEW i \in 1..Len(posted'[w]) PROVE PlaceOK(w, i)'
    <3>1. CASE i \in 1..Len(posted[w])
      <4>1. PlaceOK(w, i)
        BY Zenon, <2>1, <3>1 DEF Ordered
      <4> QED BY Zenon, <4>1, <3>1, <1>1, <1>2, <1>3, <1>4, PlaceKept
    <3>2. CASE i = Len(posted[w]) + 1
      <4>1. posted'[w][i].op = "remove" /\ i = Len(posted'[w])
        BY <2>3, <3>2
      <4> QED BY Zenon, <1>1, <4>1 DEF PlaceOK
    <3> QED BY <2>2, <2>3, <3>1, <3>2
  <2>5. cache'[w] = "none" => posted'[w] # <<>> /\ posted'[w][1].op = "set"
    BY Zenon, <1>2, <1>3, <1>4, <2>1, HeadKept DEF Ordered
  <2>6. cache'[w] \notin {"dying", "gone"}
    BY Zenon, <2>1, <1>1, <1>2 DEF Ordered
  <2>7. ASSUME NEW q \in ready', NEW s \in Sets(q) PROVE Arrives(w, Len(posted[w]), s)'
    <3>1. PICK m \in Nat : m = Len(posted'[w])
      BY <1>4
    <3>2. Arrives(w, Len(posted[w]), s) /\ Len(posted[w]) <= m
      BY <1>2, <2>1, <2>2, <2>3, <2>7, <3>1 DEF Ordered
    <3>3. Arrives(w, m, s)'
      BY <1>2, <1>3, <1>4, <2>2, <3>2, ArrivesKept
    <3> QED BY Zenon, <3>1, <3>3 DEF Arrives
  <2> QED BY Zenon, <2>4, <2>5, <2>6, <2>7 DEF Ordered
<1>7. UNCHANGED <<mode, workerVars>>
  BY Zenon DEF Close
<1> QED BY Zenon, <1>5, <1>6, <1>7, MainThreadKeeps DEF IInv

-----------------------------------------------------------------------------
(* The calls of a worker *)

\* What a worker that makes a call leaves alone.
LEMMA ClientKeeps ==
  ASSUME IInv, UNCHANGED <<mainVars, posted, listening, cache, tokens>>
  PROVE (\A w \in Workers : Ordered(w)') /\ TokenBeforeTraffic'
<1>1. UNCHANGED <<mode, ready, closed, InitTargets>>
  BY Zenon DEF mainVars, InitTargets
<1>2. TokenBeforeTraffic'
  BY Zenon, <1>1 DEF IInv, TokenBeforeTraffic
<1>3. ASSUME NEW w \in Workers PROVE Ordered(w)'
  <2>1. Ordered(w)
    BY Zenon DEF IInv
  <2>2. \A n, s : Arrives(w, n, s)' <=> Arrives(w, n, s)
    BY Zenon DEF Arrives
  <2>3. \A s, t : Fits(s, t)' <=> Fits(s, t)
    BY Zenon, <1>1 DEF Fits
  <2>4. \A i : PlaceOK(w, i)' <=> PlaceOK(w, i)
    BY Zenon, <1>1, <2>2, <2>3 DEF PlaceOK
  <2>5. \A q \in ready : \A s \in Sets(q) : Arrives(w, Len(posted[w]), s)'
    BY Zenon, <2>1 DEF Ordered, Arrives
  <2> QED BY Zenon, <1>1, <2>1, <2>4, <2>5 DEF Ordered
<1> QED BY Zenon, <1>2, <1>3

\* The calls of a worker are of known methods.
LEMMA CallMethods ==
  ASSUME TypeOK, NEW w \in Workers, NEW c \in calls[w]
  PROVE c.method \in Methods
<1>1. c \in Requests
  BY Zenon DEF TypeOK
<1> QED BY <1>1 DEF Requests

\* A worker whose cache is not touched.
LEMMA StandingKept ==
  ASSUME NEW v \in Workers, Standing(v), cache'[v] = cache[v], members'[v] = members[v],
         calls'[v] = calls[v], timer'[v] = timer[v],
         accepted'[v] = accepted[v], handed'[v] = handed[v]
  PROVE Standing(v)'
BY Zenon DEF Standing, Batched

\* What has to be shown of a step that changes one worker's client: its own part of
\* the invariant.
LEMMA ClientStep ==
  ASSUME IInv, UNCHANGED <<mainVars, posted, listening, cache, members, tokens>>, NEW w \in Workers,
         NEW C \in SUBSET Requests, calls' = [calls EXCEPT ![w] = C],
         \A c \in C : /\ TokenFor(w, c.method) # NoToken
                      /\ Fits(IF c.method = "allocateQuota" THEN "quota" ELSE "sc", c.token),
         timer' \in [Workers -> BOOLEAN],
         accepted' \in [Workers -> 0..MaxReports], handed' \in [Workers -> 0..MaxReports],
         \A v \in Workers \ {w} : /\ timer'[v] = timer[v]
                                  /\ accepted'[v] = accepted[v] /\ handed'[v] = handed[v],
         cache[w] = "alive"
  PROVE IInv'
<1>1. TypeOK
  BY Zenon DEF IInv
<1>2. UNCHANGED <<mode, retries, fetched, ready, closed, InitTargets>>
  BY Zenon DEF mainVars, InitTargets
<1>3. TypeOK'
  <2>1. calls' \in [Workers -> SUBSET Requests]
    BY Zenon, <1>1 DEF TypeOK
  <2> QED BY Zenon, <1>1, <1>2, <2>1 DEF TypeOK
<1>4. ASSUME NEW v \in Workers PROVE TokensFit(v)'
  <2>1. TokensFit(v)
    BY Zenon DEF IInv
  <2>2. \A s, t : Fits(s, t)' <=> Fits(s, t)
    BY Zenon, <1>2 DEF Fits
  <2>3. \A m : TokenFor(v, m)' = TokenFor(v, m)
    BY Zenon DEF TokenFor
  <2>4. CASE v = w
    <3>1. calls'[v] = C
      BY Zenon, <1>1, <2>4 DEF TypeOK
    <3> QED BY Zenon, <2>1, <2>2, <2>3, <2>4, <3>1 DEF TokensFit
  <2>5. CASE v # w
    <3>1. calls'[v] = calls[v]
      BY Zenon, <1>1, <2>5 DEF TypeOK
    <3> QED BY Zenon, <2>1, <2>2, <2>3, <3>1 DEF TokensFit
  <2> QED BY Zenon, <2>4, <2>5
<1>5. ASSUME NEW v \in Workers PROVE Standing(v)'
  <2>1. CASE v = w
    <3>1. calls'[w] = C /\ cache'[w] = "alive" /\ members'[w] = 6
      BY Zenon, <1>1 DEF TypeOK, IInv, Standing
    <3>2. \A c \in C : Place(c.method) <= 6
      BY MemberFacts DEF Requests
    <3> QED BY Zenon, <2>1, <3>1, <3>2 DEF Standing
  <2>2. CASE v # w
    <3>1. calls'[v] = calls[v]
      BY Zenon, <1>1, <2>2 DEF TypeOK
    <3> QED BY Zenon, <2>2, <3>1, StandingKept DEF IInv
  <2> QED BY Zenon, <2>1, <2>2
<1> QED BY Zenon, <1>3, <1>4, <1>5, ClientKeeps DEF IInv

\* A call that is made, or made again, has the token of its service.
LEMMA RequestFits ==
  ASSUME IInv, NEW w \in Workers, NEW m \in Methods, NEW n \in Int, NEW k \in Nat,
         TokenFor(w, m) # NoToken
  PROVE /\ Request(w, m, n, k) \in Requests
        /\ Request(w, m, n, k).method = m
        /\ Fits(IF m = "allocateQuota" THEN "quota" ELSE "sc", Request(w, m, n, k).token)
<1>1. TypeOK /\ TokensFit(w)
  BY Zenon DEF IInv
<1>2. TokenFor(w, m) \in Tokens
  BY <1>1 DEF TypeOK, TokenFor, Services
<1>3. Fits(IF m = "allocateQuota" THEN "quota" ELSE "sc", TokenFor(w, m))
  BY Zenon, <1>1 DEF TokensFit, TokenFor, Services
<1> QED BY Zenon, <1>2, <1>3 DEF Request, Requests

\* So have all calls once a transport has been asked for one more.
LEMMA TransportFits ==
  ASSUME IInv, NEW w \in Workers, NEW m \in Methods, NEW n \in Int
  PROVE /\ Transport(w, m, n) \in SUBSET Requests
        /\ \A c \in Transport(w, m, n) :
             /\ TokenFor(w, c.method) # NoToken
             /\ Fits(IF c.method = "allocateQuota" THEN "quota" ELSE "sc", c.token)
<1>1. calls[w] \in SUBSET Requests /\ TokensFit(w) /\ retries[m] \in Nat
  BY Zenon DEF IInv, TypeOK
<1>2. CASE TokenFor(w, m) = NoToken
  BY Zenon, <1>1, <1>2 DEF Transport, WithCall, TokensFit
<1>3. CASE TokenFor(w, m) # NoToken
  <2>1. Transport(w, m, n) = calls[w] \cup {Request(w, m, n, retries[m])}
    BY Zenon, <1>3 DEF Transport, WithCall
  <2>2. /\ Request(w, m, n, retries[m]) \in Requests
        /\ Request(w, m, n, retries[m]).method = m
        /\ Fits(IF m = "allocateQuota" THEN "quota" ELSE "sc", Request(w, m, n, retries[m]).token)
    BY Zenon, <1>1, <1>3, RequestFits
  <2> QED BY Zenon, <1>1, <1>3, <2>1, <2>2 DEF TokensFit
<1> QED BY Zenon, <1>2, <1>3

\* callCheck and callQuota.
LEMMA CallCheckIInv == ASSUME IInv, NEW w \in Workers, CallCheck(w) PROVE IInv'
<1>1. TypeOK /\ cache[w] = "alive"
  BY Zenon DEF IInv, CallCheck, Serves
<1>2. UNCHANGED <<timer, accepted, handed>> /\ UNCHANGED <<mainVars, posted, listening, cache, members, tokens>>
  BY Zenon DEF CallCheck
<1>3. PICK m \in Methods : calls' = [calls EXCEPT ![w] = Transport(w, m, 0)]
  BY Zenon DEF CallCheck, Methods
<1>4. PICK C \in SUBSET Requests :
        /\ calls' = [calls EXCEPT ![w] = C]
        /\ \A c \in C : /\ TokenFor(w, c.method) # NoToken
                        /\ Fits(IF c.method = "allocateQuota" THEN "quota" ELSE "sc", c.token)
  <2>1. /\ Transport(w, m, 0) \in SUBSET Requests
        /\ \A c \in Transport(w, m, 0) :
             /\ TokenFor(w, c.method) # NoToken
             /\ Fits(IF c.method = "allocateQuota" THEN "quota" ELSE "sc", c.token)
    <3>1. PICK n \in Int : n = 0
      OBVIOUS
    <3> QED BY Zenon, <3>1, TransportFits
  <2> QED BY Zenon, <1>3, <2>1
<1> QED BY Zenon, <1>1, <1>2, <1>4, ClientStep DEF TypeOK

\* callReport.
LEMMA CallReportIInv == ASSUME IInv, NEW w \in Workers, CallReport(w) PROVE IInv'
<1>1. TypeOK /\ TokensFit(w) /\ cache[w] = "alive"
  BY Zenon DEF IInv, CallReport, Serves
<1>2. UNCHANGED <<timer, handed>> /\ UNCHANGED <<mainVars, posted, listening, cache, members, tokens>>
  BY Zenon DEF CallReport
<1>3. accepted' \in [Workers -> 0..MaxReports] /\ \A v \in Workers \ {w} : accepted'[v] = accepted[v]
  BY <1>1, BoundsAssumption DEF TypeOK, CallReport
<1>4. PICK C \in SUBSET Requests : C = calls[w]
  BY Zenon, <1>1 DEF TypeOK
<1>5. calls' = [calls EXCEPT ![w] = C]
  BY Zenon, <1>1, <1>4 DEF CallReport, TypeOK
<1> QED BY Zenon, <1>1, <1>2, <1>3, <1>4, <1>5, ClientStep DEF TypeOK, TokensFit

\* So have they once the client has flushed.
LEMMA FlushedFits ==
  ASSUME IInv, NEW w \in Workers
  PROVE /\ Flushed(w) \in SUBSET Requests
        /\ \A c \in Flushed(w) : /\ TokenFor(w, c.method) # NoToken
                                 /\ Fits(IF c.method = "allocateQuota" THEN "quota" ELSE "sc", c.token)
<1>1. TypeOK /\ TokensFit(w)
  BY Zenon DEF IInv
<1>2. Batched(w) \in Int
  BY <1>1, BoundsAssumption DEF TypeOK, Batched
<1>3. CASE Flushed(w) = calls[w]
  BY <1>1, <1>3 DEF TypeOK, TokensFit
<1>4. CASE Flushed(w) = Transport(w, "report", Batched(w))
  <2>1. PICK n \in Int : n = Batched(w)
    BY Zenon, <1>2
  <2> QED BY Zenon, <1>4, <2>1, TransportFits DEF Methods
<1> QED BY <1>3, <1>4 DEF Flushed

\* The flush timer.
LEMMA TimerFiresIInv == ASSUME IInv, NEW w \in Workers, TimerFires(w) PROVE IInv'
<1>1. TypeOK /\ TokensFit(w) /\ cache[w] = "alive"
  BY Zenon DEF IInv, TimerFires
<1>2. UNCHANGED accepted /\ UNCHANGED <<mainVars, posted, listening, cache, members, tokens>>
  BY Zenon DEF TimerFires
<1>3. /\ handed' \in [Workers -> 0..MaxReports] /\ \A v \in Workers \ {w} : handed'[v] = handed[v]
      /\ timer' \in [Workers -> BOOLEAN] /\ \A v \in Workers \ {w} : timer'[v] = timer[v]
  BY Zenon, <1>1 DEF TypeOK, TimerFires, Rearmed
<1>5. /\ Flushed(w) \in SUBSET Requests
      /\ \A c \in Flushed(w) : /\ TokenFor(w, c.method) # NoToken
                               /\ Fits(IF c.method = "allocateQuota" THEN "quota" ELSE "sc", c.token)
  BY Zenon, FlushedFits
<1>6. PICK C \in SUBSET Requests :
        /\ calls' = [calls EXCEPT ![w] = C]
        /\ \A c \in C : /\ TokenFor(w, c.method) # NoToken
                        /\ Fits(IF c.method = "allocateQuota" THEN "quota" ELSE "sc", c.token)
  BY Zenon, <1>5 DEF TimerFires
<1> QED BY Zenon, <1>1, <1>2, <1>3, <1>6, ClientStep DEF TypeOK

\* The end of a call.
LEMMA CallEndsIInv == ASSUME IInv, NEW w \in Workers, CallEnds(w) PROVE IInv'
<1>1. TypeOK /\ TokensFit(w) /\ cache[w] = "alive"
  BY Zenon DEF IInv, CallEnds
<1>2. UNCHANGED <<timer, accepted, handed>> /\ UNCHANGED <<mainVars, posted, listening, cache, members, tokens>>
  BY Zenon DEF CallEnds
<1>3. PICK C \in SUBSET Requests : C \subseteq calls[w] /\ calls' = [calls EXCEPT ![w] = C]
  <2>1. PICK c \in calls[w] : calls' = [calls EXCEPT ![w] = @ \ {c}]
    BY Zenon DEF CallEnds
  <2>2. calls' = [calls EXCEPT ![w] = calls[w] \ {c}] /\ calls[w] \ {c} \in SUBSET Requests
    BY Zenon, <1>1, <2>1 DEF TypeOK
  <2> QED BY Zenon, <2>2
<1> QED BY Zenon, <1>1, <1>2, <1>3, ClientStep DEF TypeOK, TokensFit

\* A retry finds a token, for there was one when the call was made.
LEMMA CallRetriesIInv == ASSUME IInv, NEW w \in Workers, CallRetries(w) PROVE IInv'
<1>1. TypeOK /\ TokensFit(w) /\ cache[w] = "alive"
  BY Zenon DEF IInv, CallRetries
<1>2. UNCHANGED <<timer, accepted, handed>> /\ UNCHANGED <<mainVars, posted, listening, cache, members, tokens>>
  BY Zenon DEF CallRetries
<1>3. PICK d \in calls[w] :
        /\ MayRetry(d)
        /\ calls' = [calls EXCEPT ![w] =
                       (calls[w] \ {d}) \cup {Request(w, d.method, d.count, d.left - 1)}]
  BY Zenon DEF CallRetries
<1>4. d.method \in Methods /\ d.count \in Int /\ d.left - 1 \in Nat /\ TokenFor(w, d.method) # NoToken
  BY <1>1, <1>3 DEF TypeOK, TokensFit, Requests, MayRetry
<1>5. PICK e \in Requests :
        /\ e = Request(w, d.method, d.count, d.left - 1)
        /\ TokenFor(w, e.method) # NoToken
        /\ Fits(IF e.method = "allocateQuota" THEN "quota" ELSE "sc", e.token)
  BY <1>4, RequestFits
<1>6. PICK C \in SUBSET Requests : C = (calls[w] \ {d}) \cup {e}
  BY Zenon, <1>1 DEF TypeOK
<1>7. \A c \in C : /\ TokenFor(w, c.method) # NoToken
                   /\ Fits(IF c.method = "allocateQuota" THEN "quota" ELSE "sc", c.token)
  BY Zenon, <1>1, <1>5, <1>6 DEF TokensFit
<1> QED BY Zenon, <1>1, <1>2, <1>3, <1>5, <1>6, <1>7, ClientStep DEF TypeOK


\* The first of the closures is run, the others move up.
Shifts(q, r) ==
  /\ Len(q) \in Nat /\ Len(q) >= 1
  /\ Len(r) = Len(q) - 1
  /\ \A i \in 1..Len(r) : r[i] = q[i + 1]

\* So they do when a worker runs one; nothing changes for the other workers.
LEMMA RunShifts ==
  ASSUME IInv, NEW w \in Workers, RunPosted(w)
  PROVE /\ Shifts(posted[w], posted'[w]) /\ Head(posted[w]) = posted[w][1]
        /\ posted[w][1] \in Closures /\ PlaceOK(w, 1)
        /\ posted' \in [Workers -> Seq(Closures)]
        /\ \A v \in Workers \ {w} : posted'[v] = posted[v]
        /\ cache[w] \notin {"dying", "gone"}
<1>1. posted \in [Workers -> Seq(Closures)] /\ posted[w] # <<>> /\ posted' = [posted EXCEPT ![w] = Tail(posted[w])]
  BY Zenon DEF IInv, TypeOK, RunPosted
<1>2. PICK q \in Seq(Closures) : q = posted[w]
  BY Zenon, <1>1
<1>3. /\ Tail(q) \in Seq(Closures) /\ Len(Tail(q)) = Len(q) - 1
      /\ \A i \in 1..Len(Tail(q)) : Tail(q)[i] = q[i + 1]
  BY <1>1, <1>2
<1>4. Len(q) \in Nat /\ Len(q) >= 1 /\ Head(q) = q[1] /\ q[1] \in Closures
  BY <1>1, <1>2
<1>5. posted'[w] = Tail(q)
  BY Zenon, <1>1, <1>2
<1>6. Shifts(posted[w], posted'[w])
  BY Zenon, <1>2, <1>3, <1>4, <1>5 DEF Shifts
<1>7. posted' \in [Workers -> Seq(Closures)] /\ \A v \in Workers \ {w} : posted'[v] = posted[v]
  BY Zenon, <1>1, <1>2, <1>3
<1>8. cache[w] \notin {"dying", "gone"}
  BY Zenon, <1>1 DEF IInv, Ordered
<1>9. PlaceOK(w, 1)
  <2>1. 1 \in 1..Len(posted[w])
    BY <1>2, <1>4
  <2> QED BY Zenon, <2>1 DEF IInv, Ordered
<1> QED BY Zenon, <1>2, <1>4, <1>6, <1>7, <1>8, <1>9

\* A token that was to arrive still does, or has: it was the one that is set now.
LEMMA ArrivesShifted ==
  ASSUME NEW w \in Workers, Shifts(posted[w], posted'[w]), NEW s, NEW m \in Nat,
         m <= Len(posted[w]), m >= 1, Arrives(w, m, s),
         tokens[w][s] # NoToken => tokens'[w][s] # NoToken,
         posted[w][1].op = "token" /\ s \in posted[w][1].sets => tokens'[w][s] # NoToken
  PROVE Arrives(w, m - 1, s)'
<1>1. CASE tokens[w][s] # NoToken
  BY Zenon, <1>1 DEF Arrives
<1>2. CASE tokens[w][s] = NoToken
  <2>1. PICK j \in 1..m : posted[w][j].op = "token" /\ s \in posted[w][j].sets
    BY Zenon, <1>2 DEF Arrives
  <2>2. CASE j = 1
    BY Zenon, <2>1, <2>2 DEF Arrives
  <2>3. CASE j # 1
    <3>1. j - 1 \in 1..m - 1 /\ j - 1 \in 1..Len(posted'[w]) /\ (j - 1) + 1 = j
      BY <2>3 DEF Shifts
    <3>2. posted'[w][j - 1] = posted[w][j]
      BY Zenon, <3>1 DEF Shifts
    <3> QED BY Zenon, <2>1, <3>1, <3>2 DEF Arrives
  <2> QED BY Zenon, <2>2, <2>3
<1> QED BY Zenon, <1>1, <1>2

\* The order of the closures outlives the run of the first.
LEMMA OrderShifted ==
  ASSUME IInv, NEW w \in Workers, RunPosted(w),
         \A s \in Services : tokens[w][s] # NoToken => tokens'[w][s] # NoToken,
         posted[w][1].op = "token" =>
           \A s \in posted[w][1].sets : tokens'[w][s] # NoToken,
         cache'[w] # "none",
         cache'[w] \in {"dying", "gone"} => posted[w][1].op = "remove"
  PROVE Ordered(w)'
<1>1. /\ Shifts(posted[w], posted'[w]) /\ Ordered(w) /\ ready \subseteq InitTargets
      /\ posted' \in [Workers -> Seq(Closures)]
  BY Zenon, RunShifts DEF IInv, TypeOK
<1>2. UNCHANGED <<mode, ready, closed, InitTargets>>
  BY DEF RunPosted, mainVars, InitTargets
<1>0. PICK l \in Nat : l = Len(posted[w]) /\ l >= 1 /\ Len(posted'[w]) = l - 1
  BY Zenon, <1>1 DEF Shifts
<1>3. ASSUME NEW s \in Services, NEW m \in Nat, m <= Len(posted[w]), m >= 1, Arrives(w, m, s)
      PROVE Arrives(w, m - 1, s)'
  BY Zenon, <1>1, <1>3, ArrivesShifted
<1>4. ASSUME NEW i \in 1..Len(posted'[w]) PROVE PlaceOK(w, i)'
  <2>0. i \in 1..l - 1 /\ i + 1 \in 1..l
    BY <1>0
  <2>1. i + 1 \in 1..Len(posted[w]) /\ posted'[w][i] = posted[w][i + 1]
    <3>1. posted'[w][i] = posted[w][i + 1]
      BY Zenon, <1>1 DEF Shifts
    <3> QED BY Zenon, <1>0, <2>0, <3>1
  <2>2. PlaceOK(w, i + 1)
    BY Zenon, <1>1, <2>1 DEF Ordered
  <2>3. posted'[w][i].op # "set"
    BY <2>1, <2>2 DEF PlaceOK
  <2>4. posted'[w][i].op = "remove" => i = Len(posted'[w]) /\ closed'
    <3>1. posted'[w][i].op = "remove" => i + 1 = l /\ closed
      BY Zenon, <1>0, <2>1, <2>2 DEF PlaceOK
    <3> QED BY <1>2, <1>0, <2>0, <3>1
  <2>6. ASSUME posted'[w][i].op = "listen", InitTargets # {}, NEW s \in Services
        PROVE Arrives(w, i - 1, s)'
    <3>1. Arrives(w, i, s)
      <4>1. (i + 1) - 1 = i
        OBVIOUS
      <4> QED BY Zenon, <2>1, <2>2, <2>6, <4>1 DEF PlaceOK
    <3>2. i \in Nat /\ i >= 1 /\ i <= Len(posted[w])
      BY <1>0, <2>0
    <3> QED BY Zenon, <3>1, <3>2, <1>3
  <2>7. posted'[w][i].op = "token" => \A s \in posted'[w][i].sets : Fits(s, posted[w][i].token)'
    BY Zenon, <1>2, <2>1, <2>2 DEF PlaceOK, Fits
  <2> QED BY <1>2, <2>3, <2>4, <2>6, <2>7 DEF PlaceOK
<1>5. ASSUME cache'[w] \in {"dying", "gone"} PROVE posted'[w] = <<>> /\ closed'
  <2>1. PlaceOK(w, 1) /\ posted[w][1].op = "remove"
    BY Zenon, <1>5, RunShifts
  <2>2. Len(posted'[w]) = 0 /\ closed
    BY <1>0, <2>1 DEF PlaceOK
  <2>3. posted'[w] \in Seq(Closures)
    BY Zenon, <1>1
  <2>4. posted'[w] = <<>>
    BY <2>2, <2>3
  <2> QED BY Zenon, <1>2, <2>2, <2>4
<1>6. ASSUME NEW q \in ready', NEW s \in Sets(q) PROVE Arrives(w, Len(posted[w]), s)'
  <2>2. s \in Services
    <3>1. q \in Sources(mode) /\ mode \in Modes
      BY Zenon, <1>1, <1>2 DEF InitTargets, IInv, TypeOK
    <3> QED BY Zenon, <3>1, SourceFacts DEF Modes, Services
  <2>3. Arrives(w, l, s)
    BY Zenon, <1>1, <1>2, <1>0 DEF Ordered
  <2>4. l <= Len(posted[w])
    BY <1>0
  <2>5. Arrives(w, l - 1, s)'
    BY Zenon, <1>3, <1>0, <2>2, <2>3, <2>4
  <2> QED BY Zenon, <1>0, <2>5 DEF Arrives
<1> QED BY Zenon, <1>4, <1>5, <1>6 DEF Ordered

\* A worker is not touched by what another one runs.
LEMMA OtherWorker ==
  ASSUME IInv, UNCHANGED mainVars, NEW v \in Workers, posted'[v] = posted[v],
         cache'[v] = cache[v], tokens'[v] = tokens[v], calls'[v] = calls[v]
  PROVE Ordered(v)' /\ TokensFit(v)'
<1>1. UNCHANGED <<mode, ready, closed, InitTargets>>
  BY Zenon DEF mainVars, InitTargets
<1>2. Ordered(v) /\ TokensFit(v)
  BY Zenon DEF IInv
<1>3. \A n, s : Arrives(v, n, s)' <=> Arrives(v, n, s)
  BY Zenon DEF Arrives
<1>4. \A s, t : Fits(s, t)' <=> Fits(s, t)
  BY Zenon, <1>1 DEF Fits
<1>5. \A i : PlaceOK(v, i) => PlaceOK(v, i)'
  <2> SUFFICES ASSUME NEW i, PlaceOK(v, i) PROVE PlaceOK(v, i)'
    BY Zenon
  <2>1. posted'[v][i].op = "token" => \A s \in posted'[v][i].sets : Fits(s, posted[v][i].token)'
    BY Zenon, <1>1 DEF PlaceOK, Fits
  <2> QED BY Zenon, <1>1, <1>3, <2>1 DEF PlaceOK
<1>6. \A q \in ready : \A s \in Sets(q) : Arrives(v, Len(posted[v]), s)'
  BY Zenon, <1>2 DEF Ordered, Arrives
<1>7. Ordered(v)'
  BY Zenon, <1>1, <1>2, <1>5, <1>6 DEF Ordered
<1>8. TokensFit(v)'
  <2>1. \A m : TokenFor(v, m)' = TokenFor(v, m)
    BY Zenon DEF TokenFor
  <2>2. \A s \in Services : tokens'[v][s] # NoToken => Fits(s, tokens[v][s])'
    BY Zenon, <1>1, <1>2 DEF TokensFit, Fits
  <2> QED BY Zenon, <1>2, <1>4, <2>1, <2>2 DEF TokensFit
<1> QED BY Zenon, <1>7, <1>8

\* The cache is made.
LEMMA RunSetCache ==
  ASSUME IInv, NEW w \in Workers, RunPosted(w), posted[w][1].op = "set", SetCache(w)
  PROVE IInv'
<1>1. /\ TypeOK /\ TokensFit(w) /\ UNCHANGED mainVars
      /\ UNCHANGED <<listening, tokens, accepted, handed, calls>>
      /\ cache' = [cache EXCEPT ![w] = "alive"] /\ timer' = [timer EXCEPT ![w] = TRUE]
      /\ members' = [members EXCEPT ![w] = Len(Members)]
  BY Zenon DEF IInv, RunPosted, SetCache
<1>2. UNCHANGED <<mode, retries, fetched, ready, closed, InitTargets>>
  BY Zenon, <1>1 DEF mainVars, InitTargets
<1>3. TypeOK'
  <2>1. members' \in [Workers -> 0..Len(Members)]
    BY <1>1, MemberFacts DEF TypeOK
  <2> QED BY Zenon, <1>1, <1>2, <2>1, RunShifts DEF TypeOK
<1>4. cache'[w] = "alive"
  BY <1>1 DEF TypeOK
<1>5. Ordered(w)'
  BY Zenon, <1>1, <1>4, OrderShifted
<1>6. TokensFit(w)'
  <2>1. \A m : TokenFor(w, m)' = TokenFor(w, m)
    BY Zenon, <1>1 DEF TokenFor
  <2> QED BY Zenon, <1>1, <1>2, <2>1 DEF TokensFit, Fits
<1>7. ASSUME NEW v \in Workers \ {w} PROVE Ordered(v)' /\ TokensFit(v)'
  BY <1>1, RunShifts, OtherWorker DEF TypeOK
<1>8. TokenBeforeTraffic'
  BY Zenon, <1>1, <1>2 DEF IInv, TypeOK, TokenBeforeTraffic
<1>9. ASSUME NEW v \in Workers PROVE Standing(v)'
  <2>1. CASE v = w
    <3>1. members'[w] = 6
      BY <1>1, MemberFacts DEF TypeOK
    <3>2. \A c \in calls[w] : Place(c.method) <= 6
      <4>1. \A m \in Methods : Place(m) <= 6
        BY MemberFacts
      <4> QED BY Zenon, <1>1, <4>1, CallMethods
    <3> QED BY Zenon, <1>1, <1>4, <2>1, <3>1, <3>2 DEF Standing
  <2>2. CASE v # w
    <3>1. cache'[v] = cache[v] /\ members'[v] = members[v] /\ timer'[v] = timer[v]
      BY <1>1, <2>2 DEF TypeOK
    <3> QED BY Zenon, <1>1, <3>1, StandingKept DEF IInv
  <2> QED BY Zenon, <2>1, <2>2
<1> QED BY Zenon, <1>3, <1>5, <1>6, <1>7, <1>8, <1>9 DEF IInv

\* A token is set: one that fits.
LEMMA RunSetToken ==
  ASSUME IInv, NEW w \in Workers, RunPosted(w), posted[w][1].op = "token",
         SetToken(w, posted[w][1])
  PROVE IInv'
<1> DEFINE x == posted[w][1]
<1>1. /\ TypeOK /\ TokensFit(w) /\ Ordered(w) /\ UNCHANGED mainVars
      /\ UNCHANGED <<listening, cache, members, timer, accepted, handed, calls>>
      /\ tokens' = [tokens EXCEPT ![w] =
                      [s \in Services |-> IF s \in x.sets THEN x.token ELSE tokens[w][s]]]
  BY Zenon DEF IInv, RunPosted, SetToken, clientVars
<1>2. UNCHANGED <<mode, retries, fetched, ready, closed, InitTargets>>
  BY Zenon, <1>1 DEF mainVars, InitTargets
<1>3. x.token \in Tokens /\ x.sets \in SUBSET Services
  BY Zenon, RunShifts DEF Closures
<1>4. \A s \in x.sets : Fits(s, x.token) /\ x.token # NoToken
  <2>1. PlaceOK(w, 1)
    BY Zenon, RunShifts
  <2> QED BY Zenon, <2>1 DEF PlaceOK, Fits
<1>5. /\ \A s \in Services : tokens'[w][s] = IF s \in x.sets THEN x.token ELSE tokens[w][s]
      /\ \A v \in Workers \ {w} : tokens'[v] = tokens[v]
  BY Zenon, <1>1 DEF TypeOK
<1>6. /\ \A s \in Services : tokens[w][s] # NoToken => tokens'[w][s] # NoToken
      /\ \A s \in x.sets : tokens'[w][s] # NoToken
  BY Zenon, <1>3, <1>4, <1>5
<1>7. tokens' \in [Workers -> [Services -> Tokens]]
  <2>1. [s \in Services |-> IF s \in x.sets THEN x.token ELSE tokens[w][s]] \in [Services -> Tokens]
    BY Zenon, <1>1, <1>3 DEF TypeOK
  <2> QED BY <1>1, <2>1 DEF TypeOK
<1>8. TypeOK'
  BY Zenon, <1>1, <1>2, <1>7, RunShifts DEF TypeOK
<1>9. Ordered(w)'
  <2>1. cache'[w] # "none"
    BY Zenon, <1>1 DEF Ordered
  <2>2. cache'[w] \notin {"dying", "gone"}
    BY Zenon, <1>1, RunShifts
  <2> QED BY Zenon, <1>6, <2>1, <2>2, OrderShifted
<1>10. TokensFit(w)'
  <2>1. ASSUME NEW s \in Services, tokens'[w][s] # NoToken PROVE Fits(s, tokens[w][s])'
    <3>1. CASE s \in x.sets
      <4>1. tokens'[w][s] = x.token /\ Fits(s, x.token)
        BY Zenon, <1>4, <1>5, <3>1
      <4> QED BY <1>2, <4>1 DEF Fits
    <3>2. CASE s \notin x.sets
      <4>1. tokens'[w][s] = tokens[w][s]
        BY Zenon, <1>5, <3>2
      <4>2. Fits(s, tokens[w][s])
        BY Zenon, <1>1, <2>1, <4>1 DEF TokensFit
      <4> QED BY Zenon, <1>2, <4>1, <4>2 DEF Fits
    <3> QED BY Zenon, <3>1, <3>2
  <2>2. \A m : TokenFor(w, m) # NoToken => TokenFor(w, m)' # NoToken
    BY Zenon, <1>6 DEF TokenFor, Services
  <2>3. \A s, t : Fits(s, t)' <=> Fits(s, t)
    BY Zenon, <1>2 DEF Fits
  <2> QED BY Zenon, <1>1, <2>1, <2>2, <2>3 DEF TokensFit
<1>11. ASSUME NEW v \in Workers \ {w} PROVE Ordered(v)' /\ TokensFit(v)'
  <2>1. posted'[v] = posted[v] /\ cache'[v] = cache[v] /\ tokens'[v] = tokens[v] /\ calls'[v] = calls[v]
    BY Zenon, <1>1, <1>5, RunShifts
  <2> QED BY Zenon, <1>1, <2>1, OtherWorker
<1>12. TokenBeforeTraffic'
  <2> SUFFICES ASSUME NEW v \in listening
               PROVE cache[v] = "alive" /\ (InitTargets # {} => \A s \in Services : tokens'[v][s] # NoToken)
    BY Zenon, <1>1, <1>2 DEF TokenBeforeTraffic
  <2>1. v \in Workers
    BY Zenon, <1>1 DEF TypeOK
  <2>2. cache[v] = "alive" /\ (InitTargets # {} => \A s \in Services : tokens[v][s] # NoToken)
    BY Zenon DEF IInv, TokenBeforeTraffic
  <2>3. CASE v = w
    BY Zenon, <1>6, <2>2, <2>3
  <2>4. CASE v # w
    BY Zenon, <1>5, <2>1, <2>2, <2>4
  <2> QED BY Zenon, <2>3, <2>4
<1>13. \A v \in Workers : Standing(v)'
  BY Zenon, <1>1, StandingKept DEF IInv
<1> QED BY Zenon, <1>8, <1>9, <1>10, <1>11, <1>12, <1>13 DEF IInv

\* The worker listens: its cache is there, and so are the tokens the server waited for.
LEMMA RunStartListening ==
  ASSUME IInv, NEW w \in Workers, RunPosted(w), posted[w][1].op = "listen", StartListening(w)
  PROVE IInv'
<1>1. /\ TypeOK /\ TokensFit(w) /\ Ordered(w) /\ UNCHANGED mainVars
      /\ UNCHANGED <<cache, members, tokens, timer, accepted, handed, calls>>
      /\ listening' = listening \cup {w}
  BY Zenon DEF IInv, RunPosted, StartListening, clientVars
<1>2. UNCHANGED <<mode, retries, fetched, ready, closed, InitTargets>>
  BY Zenon, <1>1 DEF mainVars, InitTargets
<1>3. TypeOK'
  BY Zenon, <1>1, <1>2, RunShifts DEF TypeOK
<1>4. cache[w] # "none" /\ cache[w] \notin {"dying", "gone"}
  BY Zenon, <1>1, RunShifts DEF Ordered
<1>5. Ordered(w)'
  BY Zenon, <1>1, <1>4, OrderShifted
<1>6. ASSUME NEW v \in Workers PROVE TokensFit(v)'
  <2>1. TokensFit(v)
    BY Zenon DEF IInv
  <2>2. \A m : TokenFor(v, m)' = TokenFor(v, m)
    BY Zenon, <1>1 DEF TokenFor
  <2> QED BY Zenon, <1>1, <1>2, <2>1, <2>2 DEF TokensFit, Fits
<1>7. ASSUME NEW v \in Workers \ {w} PROVE Ordered(v)'
  BY Zenon, <1>1, RunShifts, OtherWorker
<1>8. TokenBeforeTraffic'
  <2>1. cache[w] = "alive"
    BY Zenon, <1>1, <1>4 DEF TypeOK
  <2>2. ASSUME InitTargets # {}, NEW s \in Services PROVE tokens[w][s] # NoToken
    <3>1. PlaceOK(w, 1) /\ 1 - 1 = 0
      BY RunShifts
    <3>2. Arrives(w, 0, s)
      BY Zenon, <3>1, <2>2 DEF PlaceOK
    <3> QED BY <3>2 DEF Arrives
  <2> QED BY Zenon, <1>1, <1>2, <2>1, <2>2 DEF IInv, TokenBeforeTraffic
<1>9. \A v \in Workers : Standing(v)'
  BY Zenon, <1>1, StandingKept DEF IInv
<1> QED BY Zenon, <1>3, <1>5, <1>6, <1>7, <1>8, <1>9 DEF IInv

\* The destructor begins, by the last closure.
LEMMA RunRemoveCache ==
  ASSUME IInv, NEW w \in Workers, RunPosted(w), posted[w][1].op = "remove", RemoveCache(w)
  PROVE IInv'
<1>1. /\ TypeOK /\ Ordered(w) /\ Standing(w) /\ UNCHANGED mainVars
      /\ UNCHANGED <<members, tokens, timer, accepted, handed, calls>>
      /\ cache' = [cache EXCEPT ![w] = "dying"] /\ listening' = listening \ {w}
  BY Zenon DEF IInv, RunPosted, RemoveCache, clientVars
<1>2. UNCHANGED <<mode, retries, fetched, ready, closed, InitTargets>>
  BY Zenon, <1>1 DEF mainVars, InitTargets
<1>3. TypeOK'
  BY <1>1, <1>2, RunShifts DEF TypeOK
<1>4. cache'[w] = "dying" /\ \A v \in Workers \ {w} : cache'[v] = cache[v]
  BY <1>1 DEF TypeOK
<1>5. Ordered(w)'
  BY Zenon, <1>1, <1>4, OrderShifted
<1>6. ASSUME NEW v \in Workers PROVE TokensFit(v)'
  <2>1. TokensFit(v)
    BY Zenon DEF IInv
  <2>2. \A m : TokenFor(v, m)' = TokenFor(v, m)
    BY Zenon, <1>1 DEF TokenFor
  <2> QED BY Zenon, <1>1, <1>2, <2>1, <2>2 DEF TokensFit, Fits
<1>7. ASSUME NEW v \in Workers \ {w} PROVE Ordered(v)' /\ Standing(v)'
  BY Zenon, <1>1, <1>4, RunShifts, OtherWorker, StandingKept DEF IInv
<1>8. TokenBeforeTraffic'
  <2> SUFFICES ASSUME NEW v \in listening \ {w}
               PROVE cache'[v] = "alive" /\ (InitTargets # {} => \A s \in Services : tokens[v][s] # NoToken)
    BY Zenon, <1>1, <1>2 DEF TokenBeforeTraffic
  <2>1. v \in Workers \ {w}
    BY <1>1 DEF TypeOK
  <2> QED BY Zenon, <2>1, <1>4 DEF IInv, TokenBeforeTraffic
<1>9. Standing(w)'
  <2>1. cache[w] \notin {"none", "dying", "gone"}
    BY Zenon, <1>1, RunShifts DEF Ordered
  <2>2. members[w] = 6 /\ 6 \in 1..6
    BY <1>1, <2>1 DEF Standing, TypeOK
  <2> QED BY Zenon, <1>1, <1>4, <2>2 DEF Standing, Batched
<1> QED BY Zenon, <1>3, <1>5, <1>6, <1>7, <1>8, <1>9 DEF IInv

\* A worker runs the first of its closures.
LEMMA RunPostedIInv == ASSUME IInv, NEW w \in Workers, RunPosted(w) PROVE IInv'
<1>1. Head(posted[w]) = posted[w][1]
  BY Zenon, RunShifts
<1>2. \/ posted[w][1].op = "set" /\ SetCache(w)
      \/ posted[w][1].op = "token" /\ SetToken(w, posted[w][1])
      \/ posted[w][1].op = "listen" /\ StartListening(w)
      \/ posted[w][1].op = "remove" /\ RemoveCache(w)
  BY Zenon, <1>1 DEF RunPosted
<1> QED BY Zenon, <1>2, RunSetCache, RunSetToken, RunStartListening, RunRemoveCache

-----------------------------------------------------------------------------

\* The members that are left once another is destroyed suffice for what is left.
LEMMA DestroyStanding ==
  ASSUME IInv, NEW w \in Workers, DestroyMember(w)
  PROVE Standing(w)'
<1>1. /\ TypeOK /\ Standing(w) /\ cache[w] = "dying" /\ UNCHANGED accepted
      /\ members' = [members EXCEPT ![w] = @ - 1]
      /\ cache' = [cache EXCEPT ![w] = IF members[w] = 1 THEN "gone" ELSE @]
  BY Zenon DEF IInv, DestroyMember
<1>2. PICK n \in 1..6 : n = members[w]
  BY Zenon, <1>1 DEF Standing
<1>3. members'[w] = n - 1 /\ cache'[w] = IF n = 1 THEN "gone" ELSE "dying"
  BY <1>1, <1>2 DEF TypeOK
<1>4. /\ cache'[w] \in {"none", "gone"} => members'[w] = 0
      /\ cache'[w] # "alive"
      /\ cache'[w] = "dying" => members'[w] \in 1..6
  BY <1>3
<1>5. \A c \in calls[w] : /\ Place(c.method) \in 3..5 /\ Place(c.method) <= n
                           /\ FactoryOf(c.method) = Members[Place(c.method)]
  <2>1. \A c \in calls[w] : c.method \in Methods
    BY Zenon, <1>1, CallMethods
  <2> QED BY Zenon, <1>1, <1>2, <2>1, MemberFacts DEF Standing
<1>6. CASE n = 6
  <2>1. calls' = [calls EXCEPT ![w] = Flushed(w)] /\ timer' = [timer EXCEPT ![w] = FALSE]
        /\ handed' = [handed EXCEPT ![w] = accepted[w]]
    BY Zenon, <1>2, <1>6, MemberFacts DEF DestroyMember, DestroyClient
  <2>2. calls'[w] = Flushed(w) /\ timer'[w] = FALSE /\ handed'[w] = accepted[w]
    BY Zenon, <1>1, <2>1 DEF TypeOK
  <2>3. \A c \in Flushed(w) : c.method \in Methods
    BY Zenon, FlushedFits DEF Requests
  <2>4. \A c \in Flushed(w) : Place(c.method) <= members'[w]
    BY <1>3, <1>6, <2>3, MemberFacts
  <2>5. accepted[w] - accepted[w] = 0
    BY <1>1, BoundsAssumption DEF TypeOK
  <2>6. Batched(w)' = 0
    BY Zenon, <1>1, <2>2, <2>5 DEF Batched
  <2> QED BY Zenon, <1>4, <2>2, <2>4, <2>6 DEF Standing
<1>7. ASSUME n # 6 PROVE timer[w] = FALSE /\ Batched(w) = 0
  BY Zenon, <1>1, <1>2, <1>7 DEF Standing, TypeOK
<1>8. CASE n \in 3..5
  <2>1. Members[n] \notin {"client_", "sc_token_", "quota_token_"} /\ n # 6
    <3>1. (n = 3 \/ n = 4 \/ n = 5) /\ n # 6
      BY <1>8
    <3> QED BY <3>1, MemberFacts
  <2>2. calls' = [calls EXCEPT ![w] = {c \in @ : FactoryOf(c.method) # Members[n]}]
        /\ UNCHANGED <<handed, timer>>
    BY Zenon, <1>2, <2>1 DEF DestroyMember, DestroyFactory
  <2>3. calls'[w] = {c \in calls[w] : FactoryOf(c.method) # Members[n]}
    BY <1>1, <2>2 DEF TypeOK
  <2>4. ASSUME NEW c \in calls'[w] PROVE Place(c.method) <= members'[w]
    <3>1. Place(c.method) # n /\ Place(c.method) \in 3..5 /\ Place(c.method) <= n
      BY Zenon, <1>5, <2>3
    <3> QED BY <1>3, <3>1
  <2>5. timer'[w] = FALSE /\ Batched(w)' = 0
    BY Zenon, <1>1, <1>7, <2>1, <2>2 DEF Batched
  <2> QED BY Zenon, <1>4, <2>4, <2>5 DEF Standing
<1>9. CASE n \in 1..2
  <2>1. Members[n] \in {"sc_token_", "quota_token_"} /\ n # 6
    <3>1. (n = 1 \/ n = 2) /\ n # 6
      BY <1>9
    <3> QED BY <3>1, MemberFacts
  <2>2. UNCHANGED <<handed, timer, calls>>
    BY Zenon, <1>2, <2>1 DEF DestroyMember
  <2>3. calls[w] = {}
    BY <1>5, <1>9
  <2>4. timer'[w] = FALSE /\ Batched(w)' = 0 /\ calls'[w] = {}
    BY Zenon, <1>1, <1>7, <2>1, <2>2, <2>3 DEF Batched
  <2> QED BY Zenon, <1>4, <2>4 DEF Standing
<1>10. n = 6 \/ n \in 3..5 \/ n \in 1..2
  BY <1>2
<1> QED BY Zenon, <1>6, <1>8, <1>9, <1>10

\* A member of the cache is destroyed.
LEMMA DestroyMemberIInv == ASSUME IInv, NEW w \in Workers, DestroyMember(w) PROVE IInv'
<1>1. /\ TypeOK /\ Ordered(w) /\ TokensFit(w) /\ Standing(w) /\ cache[w] = "dying"
      /\ UNCHANGED <<mainVars, posted, listening, tokens, accepted>>
      /\ members' = [members EXCEPT ![w] = @ - 1]
      /\ cache' = [cache EXCEPT ![w] = IF members[w] = 1 THEN "gone" ELSE @]
  BY Zenon DEF IInv, DestroyMember
<1>2. UNCHANGED <<mode, retries, fetched, ready, closed, InitTargets>>
  BY Zenon, <1>1 DEF mainVars, InitTargets
<1>3. PICK C \in SUBSET Requests :
        /\ calls' = [calls EXCEPT ![w] = C]
        /\ \A c \in C : /\ TokenFor(w, c.method) # NoToken
                        /\ Fits(IF c.method = "allocateQuota" THEN "quota" ELSE "sc", c.token)
  <2>1. CASE calls' = [calls EXCEPT ![w] = Flushed(w)]
    BY Zenon, <2>1, FlushedFits
  <2>2. ASSUME NEW C \in SUBSET calls[w], calls' = [calls EXCEPT ![w] = C]
        PROVE /\ C \in SUBSET Requests
              /\ \A c \in C : /\ TokenFor(w, c.method) # NoToken
                              /\ Fits(IF c.method = "allocateQuota" THEN "quota" ELSE "sc", c.token)
    <3>1. calls[w] \in SUBSET Requests
      BY Zenon, <1>1 DEF TypeOK
    <3> QED BY Zenon, <1>1, <3>1 DEF TokensFit
  <2>3. CASE calls' = calls
    <3>1. calls' = [calls EXCEPT ![w] = calls[w]]
      BY <1>1, <2>3 DEF TypeOK
    <3>2. calls[w] \in SUBSET calls[w]
      BY Zenon
    <3> QED BY Zenon, <2>2, <3>1, <3>2
  <2>4. CASE DestroyFactory(w, Members[members[w]])
    <3>1. calls' = [calls EXCEPT ![w] = {c \in calls[w] : FactoryOf(c.method) # Members[members[w]]}]
      BY <1>1, <2>4 DEF DestroyFactory, TypeOK
    <3>2. {c \in calls[w] : FactoryOf(c.method) # Members[members[w]]} \in SUBSET calls[w]
      BY Zenon
    <3> QED BY Zenon, <2>2, <3>1, <3>2
  <2> QED BY Zenon, <2>1, <2>3, <2>4 DEF DestroyMember, DestroyClient
<1>4. TypeOK'
  <2>1. members' \in [Workers -> 0..Len(Members)]
    <3>1. members[w] \in 1..6
      BY Zenon, <1>1 DEF Standing
    <3> QED BY <1>1, <3>1, MemberFacts DEF TypeOK
  <2>2. cache' \in [Workers -> {"none", "alive", "dying", "gone"}]
    BY <1>1 DEF TypeOK
  <2>3. calls' \in [Workers -> SUBSET Requests]
    BY Zenon, <1>1, <1>3 DEF TypeOK
  <2>4. timer' \in [Workers -> BOOLEAN] /\ handed' \in [Workers -> 0..MaxReports]
    <3>1. \/ timer' = [timer EXCEPT ![w] = FALSE] /\ handed' = [handed EXCEPT ![w] = accepted[w]]
          \/ UNCHANGED <<handed, timer>>
      BY Zenon DEF DestroyMember, DestroyClient, DestroyFactory
    <3> QED BY Zenon, <1>1, <3>1 DEF TypeOK
  <2> QED BY Zenon, <1>1, <1>2, <2>1, <2>2, <2>3, <2>4 DEF TypeOK
<1>5. /\ cache'[w] \in {"dying", "gone"} /\ calls'[w] = C
      /\ \A v \in Workers \ {w} : cache'[v] = cache[v] /\ members'[v] = members[v] /\ calls'[v] = calls[v]
  BY <1>1, <1>3 DEF TypeOK
<1>6. ASSUME NEW v \in Workers \ {w} PROVE Ordered(v)' /\ TokensFit(v)' /\ Standing(v)'
  <2>1. timer'[v] = timer[v] /\ handed'[v] = handed[v]
    <3>1. \/ timer' = [timer EXCEPT ![w] = FALSE] /\ handed' = [handed EXCEPT ![w] = accepted[w]]
          \/ UNCHANGED <<handed, timer>>
      BY Zenon DEF DestroyMember, DestroyClient, DestroyFactory
    <3> QED BY Zenon, <1>1, <3>1 DEF TypeOK
  <2> QED BY Zenon, <1>1, <1>5, <2>1, OtherWorker, StandingKept DEF IInv
<1>7. Ordered(w)'
  <2>1. posted'[w] = <<>> /\ closed'
    BY Zenon, <1>1, <1>2 DEF Ordered
  <2>2. \A i \in 1..Len(posted'[w]) : PlaceOK(w, i)'
    BY <2>1
  <2>3. \A q \in ready' : \A s \in Sets(q) : Arrives(w, Len(posted[w]), s)'
    BY Zenon, <1>1, <1>2 DEF Ordered, Arrives
  <2>4. cache'[w] # "none"
    BY <1>5
  <2> QED BY Zenon, <2>1, <2>2, <2>3, <2>4 DEF Ordered
<1>8. TokensFit(w)'
  <2>1. \A m : TokenFor(w, m)' = TokenFor(w, m)
    BY Zenon, <1>1 DEF TokenFor
  <2>2. \A s, t : Fits(s, t)' <=> Fits(s, t)
    BY Zenon, <1>2 DEF Fits
  <2>3. \A s \in Services : tokens'[w][s] # NoToken => Fits(s, tokens[w][s])'
    BY Zenon, <1>1, <1>2 DEF TokensFit, Fits
  <2> QED BY Zenon, <1>3, <1>5, <2>1, <2>2, <2>3 DEF TokensFit
<1>9. TokenBeforeTraffic'
  <2> SUFFICES ASSUME NEW v \in listening
               PROVE cache'[v] = "alive" /\ (InitTargets # {} => \A s \in Services : tokens[v][s] # NoToken)
    BY Zenon, <1>1, <1>2 DEF TokenBeforeTraffic
  <2>1. cache[v] = "alive" /\ (InitTargets # {} => \A s \in Services : tokens[v][s] # NoToken)
    BY Zenon DEF IInv, TokenBeforeTraffic
  <2>2. v \in Workers \ {w}
    BY <1>1, <2>1 DEF TypeOK
  <2> QED BY Zenon, <1>5, <2>1, <2>2
<1> QED BY Zenon, <1>4, <1>6, <1>7, <1>8, <1>9, DestroyStanding DEF IInv

\* Nothing changes when nothing happens.
LEMMA StutterIInv == ASSUME IInv, UNCHANGED vars PROVE IInv'
<1>1. UNCHANGED <<mainVars, posted, listening, cache, members, tokens>> /\ UNCHANGED <<mode, workerVars>>
  BY Zenon DEF vars, mainVars, workerVars
<1>2. TypeOK'
  BY Zenon DEF IInv, TypeOK, vars, mainVars, workerVars, clientVars, InitTargets
<1> QED BY Zenon, <1>1, <1>2, ClientKeeps, MainThreadKeeps DEF IInv

\* Every step of the threads keeps the invariant.
LEMMA NextIInv == IInv /\ [Next]_vars => IInv'
<1> SUFFICES ASSUME IInv, [Next]_vars PROVE IInv'
  BY Zenon
<1>1. CASE \E r \in Sources(mode) : Fetch(r)
  BY Zenon, <1>1, FetchIInv
<1>2. CASE Close
  BY Zenon, <1>2, CloseIInv
<1>3. ASSUME NEW w \in Workers,
             \/ RunPosted(w) \/ CallCheck(w) \/ CallReport(w)
             \/ TimerFires(w) \/ CallEnds(w) \/ CallRetries(w) \/ DestroyMember(w)
      PROVE IInv'
  BY Zenon, <1>3, RunPostedIInv, CallCheckIInv, CallReportIInv, TimerFiresIInv, CallEndsIInv, CallRetriesIInv,
     DestroyMemberIInv
<1>4. CASE Over \/ UNCHANGED vars
  BY Zenon, <1>4, StutterIInv DEF Over
<1> QED BY Zenon, <1>1, <1>2, <1>3, <1>4 DEF Next

\* The inductive invariant of every behaviour.
LEMMA IInvAlways == Spec => []IInv
BY InitIInv, NextIInv, PTL DEF Spec

\* The threads keep the types of what they share and of what each has for itself.
THEOREM TypeCorrect == Spec => []TypeOK
<1>1. IInv => TypeOK
  BY Zenon DEF IInv
<1> QED BY <1>1, IInvAlways, PTL

\* TokenBeforeTraffic for any number of workers and tokens: no worker listens before
\* its ThreadLocalCache is made and has the tokens the init targets stand for.
THEOREM TokensComeFirst == Spec => []TokenBeforeTraffic
<1>1. IInv => TokenBeforeTraffic
  BY Zenon DEF IInv
<1> QED BY <1>1, IInvAlways, PTL

\* RightToken for any number of workers, tokens and retries: every call of the
\* client has a token of the source that the filter config names for its service.
THEOREM CallsHaveRightToken == Spec => []RightToken
<1>1. IInv => RightToken
  <2> SUFFICES ASSUME IInv, NEW w \in Workers, NEW c \in calls[w]
               PROVE c.token.by = CASE mode = "imds" -> "imds" [] mode = "iam" -> "iam"
                                    [] mode = "service_account" ->
                                         IF c.method = "allocateQuota" THEN "quota_gen" ELSE "sc_gen"
    BY Zenon DEF RightToken
  <2>1. Fits(IF c.method = "allocateQuota" THEN "quota" ELSE "sc", c.token)
    BY Zenon DEF IInv, TokensFit
  <2>2. CASE mode = "imds"
    BY Zenon, <2>1, <2>2 DEF Fits
  <2>3. CASE mode = "iam"
    BY Zenon, <2>1, <2>3 DEF Fits
  <2>4. CASE mode = "service_account"
    BY Zenon, <2>1, <2>4 DEF Fits
  <2> QED BY Zenon, <2>1, <2>2, <2>3, <2>4 DEF Fits
<1> QED BY <1>1, IInvAlways, PTL

\* UsersGoFirst for any number of workers and reports: in every step of the
\* destructor of ThreadLocalCache and before it, what a call in flight, the client
\* or its timer may still use exists.
THEOREM CacheEndsClean == Spec => []UsersGoFirst
<1>1. IInv => UsersGoFirst
  <2> SUFFICES ASSUME IInv, NEW w \in Workers
               PROVE /\ \A c \in calls[w] : \A member \in UsedBy(c.method) : Exists(w, member)
                     /\ Exists(w, "client_") => \A m \in Methods : \A member \in UsedBy(m) : Exists(w, member)
                     /\ timer[w] \/ Batched(w) # 0 => Exists(w, "client_")
                     /\ cache[w] = "gone" => members[w] = 0
    BY Zenon DEF UsersGoFirst
  <2>1. TypeOK /\ Standing(w)
    BY Zenon DEF IInv
  <2>2. PICK n \in 0..6 : n = members[w]
    BY <2>1, MemberFacts DEF TypeOK
  <2>3. ASSUME NEW m \in Methods, Place(m) <= n, NEW member \in UsedBy(m)
        PROVE Exists(w, member)
    <3>1. Place(m) \in 1..n /\ 1 \in 1..n /\ 2 \in 1..n
      BY <2>2, <2>3, MemberFacts
    <3>2. member \in {Members[Place(m)], Members[1], Members[2]}
      BY Zenon, <2>3, MemberFacts DEF UsedBy
    <3> QED BY Zenon, <2>2, <3>1, <3>2 DEF Exists
  <2>4. \A c \in calls[w] : c.method \in Methods /\ Place(c.method) <= n
    BY Zenon, <2>1, <2>2, CallMethods DEF Standing
  <2>5. Exists(w, "client_") <=> n = 6
    <3>1. \A i \in 1..n : Members[i] = "client_" => i = 6
      BY <2>2, MemberFacts
    <3>2. Exists(w, "client_") => 6 \in 1..n
      BY Zenon, <2>2, <3>1 DEF Exists
    <3>3. n = 6 => 6 \in 1..n
      OBVIOUS
    <3>4. 6 \in 1..n => n = 6
      BY <2>2
    <3> QED BY Zenon, <2>2, <3>2, <3>3, <3>4, MemberFacts DEF Exists
  <2>6. n = 6 => \A m \in Methods : Place(m) <= n
    BY MemberFacts
  <2> QED BY Zenon, <2>1, <2>2, <2>3, <2>4, <2>5, <2>6 DEF Standing
<1> QED BY <1>1, IInvAlways, PTL

=============================================================================
