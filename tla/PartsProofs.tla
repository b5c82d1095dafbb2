------------------------------ MODULE PartsProofs ------------------------------
(***************************************************************************)
(* What the parts that MCParts checks guarantee for all sizes.             *)
(*                                                                         *)
(* The policy of a session, for every set of tools and ids and every rule: *)
(* the invariants of Policy, from the bookkeeping that ties each answer on *)
(* its way to the one open request it answers.                             *)
(*                                                                         *)
(* The approvals, for any number of credentials and any clock: nobody is   *)
(* approved whom this machine has not seen, although a prompt stands       *)
(* between what a command read and what it saves, and what is listed as    *)
(* waiting is what the account of all that happened says.                  *)
(*                                                                         *)
(* The discovery, for any files, names and runs: aliases are valid and     *)
(* differ, since the number of a candidate is what follows its last dash;  *)
(* and what is attached is what was asked for, from what is still to be    *)
(* attached and what already is.                                           *)
(*                                                                         *)
(* The decoder, for any body and any chunks: token by token, it holds what *)
(* the lines read to their end say and the part of the next one.           *)
(***************************************************************************)
EXTENDS Parts, SequencesExt, SequenceTheorems, FiniteSetTheorems, FunctionTheorems, TLAPS

\* An id names one open request.
UniqueIds == \A q, r \in open : q.id = r.id => q = r

\* An answer on its way belongs to an open request, of its own kind, that neither the
\* server nor the owner still has.
AnswersMatch ==
    \A m \in replies : m.kind # "request" =>
        \E r \in open : /\ r.id = m.id
                        /\ (m.kind = "result") <=> (r.kind = "tools/call")
                        /\ r \notin at_server /\ r \notin held

\* No request is answered twice, or is with the server and the owner at once.
AnsweredOnce ==
    /\ \A m, n \in replies : m.kind # "request" /\ n.kind # "request" /\ m.id = n.id => m = n
    /\ at_server \cap held = {}

\* What the owner holds are calls, and the owner was asked about them.
HeldAsked == held \subseteq asked /\ \A r \in held : r.kind = "tools/call"

Book == UniqueIds /\ AnswersMatch /\ AnsweredOnce /\ HeldAsked /\ ListingExact

\* What the catalog remembers of a tool that a listing called harmless.
CatalogHarmless == \A t \in DOMAIN catalog : catalog[t] # "changes" => t \in harmless

Inv ==
    /\ TypeOK /\ Book
    /\ ListingsFiltered /\ ShownIsCallable /\ UnaskedIsHarmless /\ CatalogHarmless

\* A request has a kind and an id.
LEMMA RequestFields ==
    ASSUME NEW r \in Requests
    PROVE  r.kind \in {"tools/list", "tools/call"} /\ r.id \in Id
BY DEF Requests

\* A message has a kind and an id, and a listing has a page.
LEMMA MessageFields ==
    ASSUME NEW m \in Messages
    PROVE  /\ m.kind \in {"listing", "error", "result", "request"} /\ m.id \in Id
           /\ m.kind = "listing" => m.page \in Pages
BY DEF Messages

\* A page is a function from tools to hints.
LEMMA PageFields ==
    ASSUME NEW page \in Pages
    PROVE  DOMAIN page \subseteq Tool /\ \A t \in DOMAIN page : page[t] \in Hints
BY DEF Pages

-----------------------------------------------------------------------------
LEMMA InitInv == Init => Inv
<1> SUFFICES ASSUME Init PROVE Inv
    OBVIOUS
<1> USE DEF Init
<1>1. <<>> \in Pages
  <2>1. DOMAIN <<>> = {}
    OBVIOUS
  <2>2. <<>> = [t \in {} |-> "reads"]
    OBVIOUS
  <2>3. [t \in {} |-> "reads"] \in [{} -> Hints]
    OBVIOUS
  <2> QED
    BY <2>2, <2>3 DEF Pages
<1>2. TypeOK
    BY <1>1, PolicyAssumption DEF TypeOK, Nothing, PolicyAssumption
<1>3. Book
    BY DEF Book, UniqueIds, AnswersMatch, AnsweredOnce, HeldAsked, ListingExact
<1>4. ListingsFiltered
    BY DEF ListingsFiltered, Nothing
<1>5. ShownIsCallable /\ UnaskedIsHarmless /\ CatalogHarmless
    BY DEF ShownIsCallable, UnaskedIsHarmless, CatalogHarmless
<1> QED
    BY <1>2, <1>3, <1>4, <1>5 DEF Inv

-----------------------------------------------------------------------------
(* A step preserves the types.                                             *)

LEMMA LearnType ==
    ASSUME TypeOK, NEW page \in Pages
    PROVE  /\ DOMAIN learn(page) = DOMAIN catalog \cup (DOMAIN page \ Long)
           /\ DOMAIN learn(page) \subseteq Tool \ Long
           /\ \A t \in DOMAIN learn(page) :
                /\ learn(page)[t] = IF t \in DOMAIN page THEN page[t] ELSE catalog[t]
                /\ learn(page)[t] \in Hints
BY PageFields DEF learn, TypeOK

\* An id that is open belongs to no request made now.
LEMMA MakeType ==
    ASSUME TypeOK, NEW r \in Requests, Make(r)
    PROVE  /\ made' \in 0..MaxRequests
           /\ open' = open \cup {r} /\ open' \subseteq Requests
           /\ r \notin open
BY PolicyAssumption DEF Make, TypeOK, FreshId, PolicyAssumption

LEMMA TypeStep == TypeOK /\ Book /\ [Next]_vars => TypeOK'
<1> SUFFICES ASSUME TypeOK, Book, [Next]_vars PROVE TypeOK'
    OBVIOUS
<1> USE PolicyAssumption DEF PolicyAssumption
<1>1. ASSUME NEW i \in Id, inbound_list(i) PROVE TypeOK'
  <2> DEFINE r == [kind |-> "tools/list", id |-> i]
  <2>1. r \in Requests
    BY DEF Requests
  <2>2. Make(r)
    BY <1>1 DEF inbound_list
  <2> QED
    BY <1>1, <2>1, <2>2, MakeType DEF inbound_list, TypeOK, rules, history
<1>2. ASSUME NEW i \in Id, NEW name \in Tool, inbound_refused(i, name) PROVE TypeOK'
    BY <1>2 DEF inbound_refused, TypeOK, rules, history
<1>3. ASSUME NEW i \in Id, NEW name \in Tool, inbound_confirm(i, name) PROVE TypeOK'
  <2> DEFINE r == [kind |-> "tools/call", id |-> i, tool |-> name]
  <2>1. r \in Requests
    BY DEF Requests
  <2>2. Make(r)
    BY <1>3 DEF inbound_confirm
  <2> QED
    BY <1>3, <2>1, <2>2, MakeType DEF inbound_confirm, TypeOK, rules
<1>4. ASSUME NEW i \in Id, NEW name \in Tool, inbound_forward(i, name) PROVE TypeOK'
  <2> DEFINE r == [kind |-> "tools/call", id |-> i, tool |-> name]
  <2>1. r \in Requests
    BY DEF Requests
  <2>2. Make(r)
    BY <1>4 DEF inbound_forward
  <2> QED
    BY <1>4, <2>1, <2>2, MakeType DEF inbound_forward, TypeOK, rules
<1>5. ASSUME NEW r \in held, Allowed(r) PROVE TypeOK'
    BY <1>5 DEF Allowed, TypeOK, rules, agentVars, history
<1>6. ASSUME NEW r \in held, Denied(r) PROVE TypeOK'
    BY <1>6 DEF Denied, TypeOK, Book, AnsweredOnce, rules, history
<1>7. ASSUME NEW r \in at_server, Answers(r) PROVE TypeOK'
  <2>1. r \in Requests
    BY DEF TypeOK
  <2>2. replies' \subseteq Messages
    BY <1>7, <2>1, RequestFields DEF Answers, TypeOK, Messages
  <2> QED
    BY <1>7, <2>2 DEF Answers, TypeOK, rules, agentVars, history
<1>8. ASSUME NEW r \in at_server, Cancelled(r) PROVE TypeOK'
    BY <1>8 DEF Cancelled, TypeOK, rules, agentVars, history
<1>9. ASSUME NEW i \in Id, Asks(i) PROVE TypeOK'
    BY <1>9 DEF Asks, TypeOK, Messages, rules, agentVars, history
<1>10. ASSUME NEW m \in replies,
              outbound_other(m) \/ outbound_error(m) \/ outbound_listing(m)
       PROVE  TypeOK'
  <2>1. m \in Messages
    BY DEF TypeOK
  <2>2. open' \subseteq open /\ at_server \subseteq open' /\ held \subseteq open'
    <3>1. CASE m.kind = "request"
      BY <1>10, <3>1 DEF outbound_other, outbound_error, outbound_listing, Answered, TypeOK
    <3>2. CASE m.kind # "request"
      <4>1. PICK q \in open : q.id = m.id /\ q \notin at_server /\ q \notin held
        BY <3>2 DEF Book, AnswersMatch
      <4>2. open' = {x \in open : x.id # m.id}
        BY <1>10, <3>2 DEF outbound_other, outbound_error, outbound_listing, Answered
      <4>3. \A x \in open : x.id = m.id => x = q
        BY <4>1 DEF Book, UniqueIds
      <4> QED
        BY <4>1, <4>2, <4>3 DEF TypeOK
    <3> QED
      BY <3>1, <3>2
  <2>3. CASE outbound_other(m)
    <3>1. m.kind = "listing" => m.page \in Pages /\ DOMAIN m.page \subseteq Tool
      BY <2>1, MessageFields, PageFields
    <3>2. delivered'.page \in Pages /\ delivered'.out \subseteq Tool
      BY <2>3, <3>1 DEF outbound_other, TypeOK
    <3> QED
      BY <2>2, <2>3, <3>2 DEF outbound_other, TypeOK, rules
  <2>4. CASE outbound_error(m)
    BY <2>2, <2>4 DEF outbound_error, TypeOK, rules, history
  <2>5. CASE outbound_listing(m)
    <3>1. m.page \in Pages /\ DOMAIN m.page \subseteq Tool
      BY <2>1, <2>5, MessageFields, PageFields DEF outbound_listing
    <3>2. DOMAIN catalog' \subseteq Tool \ Long /\ \A t \in DOMAIN catalog' : catalog'[t] \in Hints
      BY <2>5, <3>1, LearnType DEF outbound_listing
    <3>3. /\ delivered'.page \in Pages /\ delivered'.out \subseteq Tool
          /\ shown' \subseteq Tool /\ harmless' \subseteq Tool
      BY <2>5, <3>1 DEF outbound_listing, TypeOK
    <3> QED
      BY <2>2, <2>5, <3>2, <3>3 DEF outbound_listing, TypeOK, rules
  <2> QED
    BY <1>10, <2>3, <2>4, <2>5
<1>11. CASE UNCHANGED vars
    BY <1>11 DEF vars, rules, agentVars, history, TypeOK
<1> QED
    BY <1>1, <1>2, <1>3, <1>4, <1>5, <1>6, <1>7, <1>8, <1>9, <1>10, <1>11
       DEF Next, inbound, outbound, Owner, Server

-----------------------------------------------------------------------------
(* A step preserves the bookkeeping.                                       *)

\* A new request `r` joins the open ones, and goes to the server or to the
\* owner.
LEMMA MakeBook ==
    ASSUME TypeOK, Book, NEW r \in Requests, Make(r),
           \/ held' = held /\ at_server' = at_server \cup {r}
           \/ held' = held \cup {r} /\ at_server' = at_server,
           replies' = replies
    PROVE  UniqueIds' /\ AnswersMatch' /\ AnsweredOnce'
<1>1. open' = open \cup {r} /\ \A q \in open : q.id # r.id
    BY DEF Make, FreshId
<1>2. r \notin open /\ r \notin at_server /\ r \notin held
    BY <1>1 DEF TypeOK
<1>3. UniqueIds'
    BY <1>1 DEF Book, UniqueIds
<1>4. AnswersMatch'
  <2> SUFFICES ASSUME NEW m \in replies, m.kind # "request"
               PROVE  \E q \in open' : /\ q.id = m.id
                                       /\ (m.kind = "result") <=> (q.kind = "tools/call")
                                       /\ q \notin at_server' /\ q \notin held'
    BY DEF AnswersMatch
  <2>1. PICK q \in open : /\ q.id = m.id
                          /\ (m.kind = "result") <=> (q.kind = "tools/call")
                          /\ q \notin at_server /\ q \notin held
    BY DEF Book, AnswersMatch
  <2> QED
    BY <1>1, <1>2, <2>1
<1>5. AnsweredOnce'
    BY <1>2 DEF Book, AnsweredOnce
<1> QED
    BY <1>3, <1>4, <1>5

\* An answer leaves, and the request with it.
LEMMA AnsweredBook ==
    ASSUME TypeOK, Book, NEW m \in replies, Answered(m), replies' = replies \ {m},
           UNCHANGED <<at_server, held, asked>>
    PROVE  /\ UniqueIds' /\ AnswersMatch' /\ AnsweredOnce' /\ HeldAsked'
           /\ m.kind # "request" => open' = {q \in open : q.id # m.id}
           /\ m.kind = "request" => open' = open
<1>1. /\ m.kind # "request" => open' = {q \in open : q.id # m.id}
      /\ m.kind = "request" => open' = open
    BY DEF Answered
<1>2. UniqueIds'
    BY <1>1 DEF Book, UniqueIds
<1>3. AnswersMatch'
  <2> SUFFICES ASSUME NEW n \in replies, n # m, n.kind # "request"
               PROVE  \E q \in open' : /\ q.id = n.id
                                       /\ (n.kind = "result") <=> (q.kind = "tools/call")
                                       /\ q \notin at_server /\ q \notin held
    BY DEF AnswersMatch
  <2>1. PICK q \in open : /\ q.id = n.id
                          /\ (n.kind = "result") <=> (q.kind = "tools/call")
                          /\ q \notin at_server /\ q \notin held
    BY DEF Book, AnswersMatch
  <2>2. m.kind # "request" => m.id # n.id
    BY DEF Book, AnsweredOnce
  <2> QED
    BY <1>1, <2>1, <2>2
<1>4. AnsweredOnce' /\ HeldAsked'
    BY DEF Book, AnsweredOnce, HeldAsked
<1> QED
    BY <1>1, <1>2, <1>3, <1>4

LEMMA BookStep == TypeOK /\ Book /\ [Next]_vars => Book'
<1> SUFFICES ASSUME TypeOK, Book, [Next]_vars PROVE Book'
    OBVIOUS
<1>1. ASSUME NEW i \in Id, inbound_list(i) PROVE Book'
  <2> DEFINE r == [kind |-> "tools/list", id |-> i]
  <2>1. r \in Requests
    BY DEF Requests
  <2>2. UniqueIds' /\ AnswersMatch' /\ AnsweredOnce'
    BY <1>1, <2>1, MakeBook DEF inbound_list
  <2>3. HeldAsked'
    BY <1>1 DEF inbound_list, Book, HeldAsked, history
  <2>4. ListingExact'
    <3>1. open' = open \cup {r} /\ listing' = listing \cup {i}
      BY <1>1 DEF inbound_list, Make
    <3>2. r.kind = "tools/list" /\ r.id = i
      OBVIOUS
    <3> HIDE DEF r
    <3>3. {q.id : q \in {x \in open \cup {r} : x.kind = "tools/list"}}
            = {q.id : q \in {x \in open : x.kind = "tools/list"}} \cup {i}
      BY <3>2
    <3> QED
      BY <3>1, <3>3 DEF Book, ListingExact
  <2> QED
    BY <2>2, <2>3, <2>4 DEF Book
<1>2. ASSUME NEW i \in Id, NEW name \in Tool, inbound_refused(i, name) PROVE Book'
    BY <1>2 DEF inbound_refused, history, Book, UniqueIds, AnswersMatch, AnsweredOnce,
                HeldAsked, ListingExact
<1>3. ASSUME NEW i \in Id, NEW name \in Tool, inbound_confirm(i, name) PROVE Book'
  <2> DEFINE r == [kind |-> "tools/call", id |-> i, tool |-> name]
  <2>1. r \in Requests
    BY DEF Requests
  <2>2. UniqueIds' /\ AnswersMatch' /\ AnsweredOnce'
    BY <1>3, <2>1, MakeBook DEF inbound_confirm
  <2>3. HeldAsked'
    BY <1>3 DEF inbound_confirm, Book, HeldAsked
  <2>4. ListingExact'
    BY <1>3 DEF inbound_confirm, Make, Book, ListingExact
  <2> QED
    BY <2>2, <2>3, <2>4 DEF Book
<1>4. ASSUME NEW i \in Id, NEW name \in Tool, inbound_forward(i, name) PROVE Book'
  <2> DEFINE r == [kind |-> "tools/call", id |-> i, tool |-> name]
  <2>1. r \in Requests
    BY DEF Requests
  <2>2. UniqueIds' /\ AnswersMatch' /\ AnsweredOnce'
    BY <1>4, <2>1, MakeBook DEF inbound_forward
  <2>3. r \notin held
    BY <1>4 DEF inbound_forward, Make, FreshId, TypeOK
  <2>4. HeldAsked'
    BY <1>4, <2>3 DEF inbound_forward, Book, HeldAsked
  <2>5. ListingExact'
    BY <1>4 DEF inbound_forward, Make, Book, ListingExact
  <2> QED
    BY <2>2, <2>4, <2>5 DEF Book
<1>5. ASSUME NEW r \in held, Allowed(r) PROVE Book'
    BY <1>5 DEF Allowed, agentVars, history, Book, UniqueIds, AnswersMatch, AnsweredOnce,
                HeldAsked, ListingExact
<1>6. ASSUME NEW r \in held, Denied(r) PROVE Book'
  <2>1. \A q \in open : q.id = r.id => q = r
    BY DEF TypeOK, Book, UniqueIds
  <2>2. AnswersMatch'
    BY <1>6 DEF Denied, Book, AnswersMatch
  <2>3. UniqueIds' /\ AnsweredOnce' /\ HeldAsked'
    BY <1>6 DEF Denied, history, Book, UniqueIds, AnsweredOnce, HeldAsked
  <2>4. r.kind = "tools/call"
    BY DEF Book, HeldAsked
  <2>5. ListingExact'
    BY <1>6, <2>4 DEF Denied, Book, ListingExact
  <2> QED
    BY <2>2, <2>3, <2>5 DEF Book
<1>7. ASSUME NEW r \in at_server, Answers(r) PROVE Book'
  <2>1. r \in Requests /\ r \in open /\ r \notin held
    BY DEF TypeOK, Book, AnsweredOnce
  <2>2. PICK m : /\ replies' = replies \cup {m} /\ m.id = r.id /\ m.kind # "request"
                 /\ (m.kind = "result") <=> (r.kind = "tools/call")
    BY <1>7, <2>1, RequestFields DEF Answers
  <2>3. \A n \in replies : n.kind # "request" => n.id # r.id
    BY <2>1 DEF Book, AnswersMatch, UniqueIds
  <2>4. AnswersMatch'
    BY <1>7, <2>1, <2>2 DEF Answers, agentVars, Book, AnswersMatch
  <2>5. AnsweredOnce'
    BY <1>7, <2>2, <2>3 DEF Answers, Book, AnsweredOnce
  <2>6. UniqueIds' /\ HeldAsked' /\ ListingExact'
    BY <1>7 DEF Answers, agentVars, history, Book, UniqueIds, HeldAsked, ListingExact
  <2> QED
    BY <2>4, <2>5, <2>6 DEF Book
<1>8. ASSUME NEW r \in at_server, Cancelled(r) PROVE Book'
    BY <1>8 DEF Cancelled, agentVars, history, Book, UniqueIds, AnswersMatch, AnsweredOnce,
                HeldAsked, ListingExact
<1>9. ASSUME NEW i \in Id, Asks(i) PROVE Book'
    BY <1>9 DEF Asks, agentVars, history, Book, UniqueIds, AnswersMatch, AnsweredOnce,
                HeldAsked, ListingExact
<1>10. ASSUME NEW m \in replies,
              outbound_other(m) \/ outbound_error(m) \/ outbound_listing(m)
       PROVE  Book'
  <2>1. /\ Answered(m) /\ replies' = replies \ {m}
        /\ UNCHANGED <<at_server, held, asked>>
    BY <1>10 DEF outbound_other, outbound_error, outbound_listing, history
  <2>2. /\ UniqueIds' /\ AnswersMatch' /\ AnsweredOnce' /\ HeldAsked'
        /\ m.kind # "request" => open' = {q \in open : q.id # m.id}
        /\ m.kind = "request" => open' = open
    BY <2>1, AnsweredBook
  <2>3. ListingExact'
    <3>1. CASE outbound_other(m)
      <4>1. listing' = listing /\ ~is_listing(m)
        BY <3>1 DEF outbound_other
      <4>2. m.kind # "request" => m.id \notin listing
        BY <4>1 DEF is_listing
      <4> QED
        BY <2>2, <4>1, <4>2 DEF Book, ListingExact
    <3>2. CASE outbound_error(m) \/ outbound_listing(m)
      <4>1. listing' = listing \ {m.id} /\ m.kind # "request"
        BY <3>2 DEF outbound_error, outbound_listing, is_listing
      <4> QED
        BY <2>2, <4>1 DEF Book, ListingExact
    <3> QED
      BY <1>10, <3>1, <3>2
  <2> QED
    BY <2>2, <2>3 DEF Book
<1>11. CASE UNCHANGED vars
    BY <1>11 DEF vars, agentVars, history, Book, UniqueIds, AnswersMatch, AnsweredOnce,
                 HeldAsked, ListingExact
<1> QED
    BY <1>1, <1>2, <1>3, <1>4, <1>5, <1>6, <1>7, <1>8, <1>9, <1>10, <1>11
       DEF Next, inbound, outbound, Owner, Server

-----------------------------------------------------------------------------
(* A step preserves what the policy promises.                              *)

\* The rule of a session is one of three.
LEMMA RuleCases ==
    ASSUME TypeOK
    PROVE  \/ tools.rule = "all"
           \/ tools.rule = "read_only"
           \/ tools.rule = "allow"
BY PolicyAssumption DEF TypeOK, PolicyAssumption, All, ReadOnly, Allow

\* Whether a tool of a page is allowed, once the catalog has learned the page, depends on
\* the page alone.
LEMMA LearnedAllows ==
    ASSUME TypeOK, NEW page \in Pages, NEW t \in DOMAIN page
    PROVE  /\ tools.rule = "all" => Allows(t, learn(page))
           /\ tools.rule = "read_only" =>
                (Allows(t, learn(page)) <=> t \notin Long /\ page[t] = "reads")
           /\ tools.rule = "allow" => (Allows(t, learn(page)) <=> t \in tools.names)
<1>1. /\ DOMAIN learn(page) = DOMAIN catalog \cup (DOMAIN page \ Long)
      /\ \A x \in DOMAIN learn(page) :
            learn(page)[x] = IF x \in DOMAIN page THEN page[x] ELSE catalog[x]
    BY LearnType
<1>2. t \in DOMAIN learn(page) <=> t \notin Long
    BY <1>1 DEF TypeOK
<1> HIDE DEF learn
<1> QED
    BY <1>1, <1>2 DEF Allows

LEMMA FilteredStep == Inv /\ [Next]_vars => ListingsFiltered'
<1> SUFFICES ASSUME Inv, [Next]_vars PROVE ListingsFiltered'
    OBVIOUS
<1>1. CASE UNCHANGED <<tools, delivered>>
    BY <1>1 DEF Inv, ListingsFiltered
<1>2. ASSUME NEW m \in replies, outbound_other(m) PROVE ListingsFiltered'
  <2>1. m.kind # "listing"
    <3>1. m.kind = "listing" => \E r \in open : r.id = m.id /\ r.kind # "tools/call"
      BY DEF Inv, Book, AnswersMatch
    <3>2. \A r \in open : r.kind \in {"tools/list", "tools/call"}
      BY RequestFields DEF Inv, TypeOK
    <3>3. m.id \in listing => is_listing(m) \/ m.kind = "request"
      BY DEF is_listing
    <3>4. ~is_listing(m)
      BY <1>2 DEF outbound_other
    <3> QED
      BY <3>1, <3>2, <3>3, <3>4 DEF Inv, Book, ListingExact
  <2> QED
    BY <1>2, <2>1 DEF outbound_other, rules, Inv, ListingsFiltered
<1>3. ASSUME NEW m \in replies, outbound_listing(m) PROVE ListingsFiltered'
  <2>1. m \in Messages /\ m.kind = "listing"
    BY <1>3 DEF outbound_listing, Inv, TypeOK
  <2>2. m.page \in Pages
    BY <2>1, MessageFields
  <2>3. /\ tools' = tools
        /\ delivered'.page = m.page
        /\ delivered'.out = {t \in DOMAIN m.page : Allows(t, learn(m.page))}
    BY <1>3 DEF outbound_listing, rules
  <2>4. TypeOK
    BY DEF Inv
  <2>5. CASE tools.rule = "all"
    BY <2>2, <2>3, <2>4, <2>5, LearnedAllows DEF ListingsFiltered
  <2>6. CASE tools.rule = "read_only"
    BY <2>2, <2>3, <2>4, <2>6, LearnedAllows DEF ListingsFiltered
  <2>7. CASE tools.rule = "allow"
    BY <2>2, <2>3, <2>4, <2>7, LearnedAllows DEF ListingsFiltered
  <2> QED
    BY <2>4, <2>5, <2>6, <2>7, RuleCases
<1> QED
    BY <1>1, <1>2, <1>3
       DEF Next, inbound, outbound, Owner, Server, inbound_list, inbound_refused,
           inbound_confirm, inbound_forward, Allowed, Denied, Answers, Cancelled, Asks,
           outbound_error, rules, history, vars

LEMMA ShownStep == Inv /\ [Next]_vars => (ShownIsCallable /\ CatalogHarmless)'
<1> SUFFICES ASSUME Inv, [Next]_vars PROVE ShownIsCallable' /\ CatalogHarmless'
    OBVIOUS
<1>1. CASE UNCHANGED <<tools, shown, catalog, harmless>>
    BY <1>1 DEF Inv, ShownIsCallable, CatalogHarmless, Refused, Allows
<1>2. ASSUME NEW m \in replies, outbound_listing(m) PROVE ShownIsCallable' /\ CatalogHarmless'
  <2>1. m \in Messages /\ m.kind = "listing" /\ TypeOK
    BY <1>2 DEF outbound_listing, Inv, TypeOK
  <2>2. m.page \in Pages
    BY <2>1, MessageFields
  <2>3. /\ tools' = tools /\ catalog' = learn(m.page)
        /\ shown' = (shown \ DOMAIN m.page) \cup {t \in DOMAIN m.page : Allows(t, catalog')}
        /\ harmless' = harmless \cup {t \in DOMAIN m.page : m.page[t] # "changes"}
    BY <1>2 DEF outbound_listing, rules
  <2>4. /\ DOMAIN catalog' = DOMAIN catalog \cup (DOMAIN m.page \ Long)
        /\ \A t \in DOMAIN catalog' :
              catalog'[t] = IF t \in DOMAIN m.page THEN m.page[t] ELSE catalog[t]
    BY <2>1, <2>2, <2>3, LearnType
  <2>5. ShownIsCallable'
    <3> SUFFICES ASSUME NEW t \in shown', t \notin Long PROVE Allows(t, catalog)'
      BY DEF ShownIsCallable, Refused
    <3>1. CASE t \in DOMAIN m.page
      BY <2>3, <3>1 DEF Allows
    <3>2. CASE t \notin DOMAIN m.page
      <4>1. t \in shown
        BY <2>3, <3>2
      <4>2. Allows(t, catalog)
        BY <4>1 DEF Inv, ShownIsCallable, Refused
      <4>3. t \in DOMAIN catalog => t \in DOMAIN catalog' /\ catalog'[t] = catalog[t]
        BY <2>4, <3>2
      <4> QED
        BY <2>3, <4>2, <4>3, RuleCases, <2>1 DEF Allows
    <3> QED
      BY <3>1, <3>2
  <2>6. CatalogHarmless'
    BY <2>3, <2>4 DEF Inv, CatalogHarmless
  <2> QED
    BY <2>5, <2>6
<1> QED
    BY <1>1, <1>2
       DEF Next, inbound, outbound, Owner, Server, inbound_list, inbound_refused,
           inbound_confirm, inbound_forward, Allowed, Denied, Answers, Cancelled, Asks,
           outbound_other, outbound_error, rules, history, vars

LEMMA UnaskedStep == Inv /\ [Next]_vars => UnaskedIsHarmless'
<1> SUFFICES ASSUME Inv, [Next]_vars,
                    NEW r \in at_server', r.kind = "tools/call", r \notin asked'
             PROVE  \/ confirm' = "never"
                    \/ confirm' = "destructive" /\ r.tool \in harmless'
    BY DEF UnaskedIsHarmless
<1>1. confirm' = confirm /\ harmless \subseteq harmless'
    BY DEF Next, inbound, outbound, Owner, Server, inbound_list, inbound_refused,
           inbound_confirm, inbound_forward, Allowed, Denied, Answers, Cancelled, Asks,
           outbound_other, outbound_error, outbound_listing, rules, history, vars
<1>2. CASE r \in at_server /\ r \notin asked
    BY <1>1, <1>2 DEF Inv, UnaskedIsHarmless
<1>3. ASSUME NEW i \in Id, NEW name \in Tool, inbound_forward(i, name)
      PROVE  \/ confirm' = "never"
             \/ confirm' = "destructive" /\ r.tool \in harmless'
  <2> DEFINE q == [kind |-> "tools/call", id |-> i, tool |-> name]
  <2>1. CASE r = q
    <3>1. confirm \in {"never", "destructive", "always"} /\ ~Needed(name)
      BY <1>3, PolicyAssumption DEF inbound_forward, Inv, TypeOK, PolicyAssumption
    <3>2. confirm = "destructive" => name \in DOMAIN catalog /\ catalog[name] # "changes"
      BY <3>1 DEF Needed, Listed
    <3> QED
      BY <1>1, <2>1, <3>1, <3>2 DEF Inv, CatalogHarmless, Needed
  <2>2. CASE r # q
    BY <1>2, <1>3, <2>2 DEF inbound_forward
  <2> QED
    BY <2>1, <2>2
<1>4. ASSUME NEW q \in held, Allowed(q)
      PROVE  \/ confirm' = "never"
             \/ confirm' = "destructive" /\ r.tool \in harmless'
    BY <1>2, <1>4 DEF Allowed, history, Inv, Book, HeldAsked
<1>5. ASSUME NEW i \in Id, inbound_list(i)
      PROVE  \/ confirm' = "never"
             \/ confirm' = "destructive" /\ r.tool \in harmless'
    BY <1>2, <1>5 DEF inbound_list, history
<1>6. CASE at_server' \subseteq at_server /\ asked \subseteq asked'
    BY <1>2, <1>6
<1> QED
    BY <1>3, <1>4, <1>5, <1>6
       DEF Next, inbound, outbound, Owner, Server, inbound_refused,
           inbound_confirm, Denied, Answers, Cancelled, Asks,
           outbound_other, outbound_error, outbound_listing, rules, history, vars

LEMMA InvStep == Inv /\ [Next]_vars => Inv'
BY TypeStep, BookStep, FilteredStep, ShownStep, UnaskedStep DEF Inv

LEMMA Invariant == Spec => []Inv
BY InitInv, InvStep, PTL DEF Spec

-----------------------------------------------------------------------------
\* The policy's state keeps its types: the catalog holds no name past the limit, and what
\* the server or the owner has is open.
THEOREM TypeCorrect == Spec => []TypeOK
BY Invariant, PTL DEF Inv

\* The ids remembered as listings are exactly those of the listings still open.
THEOREM AlwaysListingExact == Spec => []ListingExact
BY Invariant, PTL DEF Inv, Book

\* Of every listing the agent gets exactly what the rule admits, judged by that listing
\* alone.
THEOREM AlwaysFiltered == Spec => []ListingsFiltered
BY Invariant, PTL DEF Inv

\* A tool the agent was shown, and that no later listing took back, is not refused.
THEOREM AlwaysCallable == Spec => []ShownIsCallable
BY Invariant, PTL DEF Inv

\* A call the owner was not asked about needed no asking.
THEOREM AlwaysHarmless == Spec => []UnaskedIsHarmless
BY Invariant, PTL DEF Inv

-----------------------------------------------------------------------------
(* Approvals.                                                              *)

\* Approvals counts as everybody does.
LEMMA SameSets ==
    ASSUME NEW S
    PROVE  A!IsFiniteSet(S) <=> IsFiniteSet(S)
BY DEF A!IsFiniteSet, IsFiniteSet

LEMMA SameSizes ==
    ASSUME NEW S
    PROVE  A!Cardinality(S) = Cardinality(S)
BY DEF A!Cardinality, Cardinality, A!IsFiniteSet, IsFiniteSet

\* The credentials of which the account says that they were seen.
Tried(account) == {c \in Cred : account.out[c] # "never"}

Account ==
    [out : [Cred -> {"never", "admitted", "refused"}], last : Cred \cup {Nameless}]

\* The file and the daemon have records of those alone that ever came to the
\* approval check, however often the list is begun afresh.
Attested ==
    /\ DOMAIN agents \subseteq tried
    /\ DOMAIN mem \subseteq tried
    /\ approved \subseteq tried

\* observe adds at most the credential it was told about.
LEMMA ObserveAdds ==
    ASSUME NEW m, NEW c, NEW admitted, NEW at
    PROVE  DOMAIN A!observe(m, c, admitted, at) \subseteq DOMAIN m \cup {c}
<1> DEFINE all == [d \in DOMAIN m \cup {c} |->
                      IF d = c THEN [seen |-> at, waiting |-> ~admitted] ELSE m[d]]
<1>1. DOMAIN all = DOMAIN m \cup {c}
  OBVIOUS
<1>2. DOMAIN A!Without(all, A!Oldest(all, c)) \subseteq DOMAIN all
  BY DEF A!Without
<1>3. A!observe(m, c, admitted, at) = all
      \/ A!observe(m, c, admitted, at) = A!Without(all, A!Oldest(all, c))
  BY DEF A!observe
<1> QED
  BY <1>1, <1>2, <1>3

LEMMA SeenIsTried ==
    ASSUME Attested, NEW c \in Cred, NEW at, A!seen(c, at)
    PROVE  Attested'
<1>1. UNCHANGED approved /\ tried' = tried \cup {c}
  BY DEF A!seen, A!configVars
<1>2. DOMAIN mem' \subseteq DOMAIN mem \cup {c}
  <2>1. mem' = A!observe(mem, c, A!Admits(c), at)
    BY DEF A!seen
  <2> QED
    BY <2>1, ObserveAdds
<1>3. agents' = mem' \/ agents' = agents
  BY DEF A!seen, A!fileVars
<1> QED
  BY <1>1, <1>2, <1>3 DEF Attested

LEMMA NextAttested == Attested /\ [A!Next]_(A!vars) => Attested'
<1> SUFFICES ASSUME Attested, [A!Next]_(A!vars) PROVE Attested'
  OBVIOUS
<1>1. ASSUME NEW c \in Cred \cup {Nameless}, NEW at \in Stamp, A!seen(c, at) PROVE Attested'
  <2>1. c \in Cred
    BY <1>1 DEF A!seen
  <2> QED
    BY <1>1, <2>1, SeenIsTried
<1>2. CASE A!Reload \/ A!Stop \/ A!Tick \/ A!ChooseToApprove \/ A!ChooseToKeep
  BY <1>2 DEF A!Reload, A!Stop, A!Tick, A!ChooseToApprove, A!ChooseToKeep, A!Aside, Attested,
              A!configVars, A!fileVars, A!daemonVars
<1>3. CASE A!Start
  <2>1. UNCHANGED <<tried, agents, approved>> /\ (mem' = agents \/ mem' = <<>>)
    BY <1>3 DEF A!Start, A!Afresh, A!configVars, A!fileVars
  <2> QED
    BY <2>1 DEF Attested
<1>4. CASE A!approve \/ A!turn_on
  <2>1. UNCHANGED <<tried, agents, mem>>
    BY <1>4 DEF A!approve, A!turn_on, A!Aside, A!fileVars, A!daemonVars
  <2>2. approved' \subseteq approved \cup DOMAIN agents
    BY <1>4 DEF A!approve, A!turn_on, A!add_approvals, A!configVars
  <2> QED
    BY <2>1, <2>2 DEF Attested
<1>5. CASE A!turn_off \/ A!revoke
  <2>1. UNCHANGED <<tried, agents, mem>>
    BY <1>5 DEF A!turn_off, A!revoke, A!Aside, A!fileVars, A!daemonVars
  <2>2. approved' \subseteq approved
    BY <1>5 DEF A!turn_off, A!revoke
  <2> QED
    BY <2>1, <2>2 DEF Attested
<1>6. CASE UNCHANGED A!vars
  BY <1>6 DEF A!vars, A!configVars, A!fileVars, A!daemonVars, Attested
<1> QED
  BY <1>1, <1>2, <1>3, <1>4, <1>5, <1>6 DEF A!Next

\* Only a credential that tried this machine is ever approved, whatever was seen,
\* forgotten, revoked, turned off or pushed out of the file while a command waited at its
\* prompt (approvals.rs, add_approvals).
THEOREM ApprovedAlwaysTried == A!Spec => []A!ApprovedTried
<1>1. A!Init => Attested
  BY DEF A!Init, Attested
<1>2. Attested => A!ApprovedTried
  BY DEF Attested, A!ApprovedTried
<1> QED
  BY <1>1, <1>2, NextAttested, PTL DEF A!Spec

-----------------------------------------------------------------------------
(* The waiting list.                                                       *)

Record == [seen : Nat, waiting : BOOLEAN]

\* The records m say what the account says: of each credential they have, whether
\* it was refused the last time, and of the one that came last in any case. Who is
\* missing was pushed out by as many as there is room for.
Matches(m, account) ==
    /\ m \in [DOMAIN m -> Record] /\ DOMAIN m \subseteq Cred
    /\ account \in Account
    /\ \A c \in DOMAIN m : account.out[c] = IF m[c].waiting THEN "refused" ELSE "admitted"
    /\ \A c \in Tried(account) \ DOMAIN m : Cardinality(Tried(account) \ {c}) >= MaxAgents
    /\ account.last \in Cred => account.last \in DOMAIN m

Exact == Matches(mem, hist) /\ Matches(agents, saved)

\* The finite initial segments of the naturals are well founded under inclusion.
LEMMA HasLeast ==
    ASSUME NEW T, T \subseteq Nat, T # {}
    PROVE  \E x \in T : \A y \in T : x <= y
<1> DEFINE F == {1..k : k \in T}
<1>1. F \subseteq FiniteSubsetsOf(Nat) /\ F # {}
  <2>1. \A k \in T : 1..k \subseteq Nat /\ IsFiniteSet(1..k)
    BY FS_Interval
  <2> QED
    BY <2>1 DEF FiniteSubsetsOf
<1>2. PICK U \in F : \A V \in F : ~ (<<V, U>> \in StrictSubsetOrdering(Nat))
  <2> HIDE DEF F
  <2> QED
    BY <1>1, FS_StrictSubsetOrderingWellFounded, WFMin
<1>3. PICK x \in T : U = 1..x
  OBVIOUS
<1>4. ASSUME NEW y \in T, y < x PROVE FALSE
  <2>1. 1..y \subseteq 1..x /\ x \in 1..x /\ x \notin 1..y
    BY <1>4
  <2>2. 1..y \in F /\ 1..x \subseteq Nat
    OBVIOUS
  <2> QED
    BY <1>2, <1>3, <2>1, <2>2 DEF StrictSubsetOrdering
<1> QED
  BY <1>4

\* The one that makes room is not the one just seen.
LEMMA OldestIsAnother ==
    ASSUME A!ApprovalsAssumption, NEW m, m \in [DOMAIN m -> Record], DOMAIN m \subseteq Cred,
           NEW but, DOMAIN m \ {but} # {}
    PROVE  A!Oldest(m, but) \in DOMAIN m \ {but}
<1> DEFINE others == DOMAIN m \ {but}
           T == {m[c].seen : c \in others}
           eldest == {c \in others : \A d \in others : m[c].seen <= m[d].seen}
<1>1. \A c \in others : m[c].seen \in Nat
  BY DEF Record
<1>2. PICK x \in T : \A y \in T : x <= y
  <2>1. T \subseteq Nat /\ T # {}
    BY <1>1
  <2> HIDE DEF T
  <2> QED
    BY <2>1, HasLeast
<1>3. eldest # {}
  BY <1>2
<1>4. PICK c \in eldest : \A d \in eldest : c <= d
  <2>1. eldest \subseteq Nat
    BY DEF A!ApprovalsAssumption
  <2> HIDE DEF eldest
  <2> QED
    BY <1>3, <2>1, HasLeast
<1>5. A!Oldest(m, but) = CHOOSE e \in eldest : \A d \in eldest : e <= d
  BY DEF A!Oldest
<1> HIDE DEF eldest
<1>6. A!Oldest(m, but) \in eldest
  BY <1>4, <1>5
<1> QED
  BY <1>6 DEF eldest

\* An observation keeps the records in step with the account of it.
LEMMA ObserveMatches ==
    ASSUME A!ApprovalsAssumption, NEW m, NEW a, Matches(m, a),
           NEW c \in Cred, NEW at \in Nat, NEW admitted \in BOOLEAN, NEW b,
           b = [out |-> [a.out EXCEPT ![c] = IF admitted THEN "admitted" ELSE "refused"],
                last |-> c]
    PROVE  Matches(A!observe(m, c, admitted, at), b)
<1> DEFINE all == [d \in DOMAIN m \cup {c} |->
                      IF d = c THEN [seen |-> at, waiting |-> ~admitted] ELSE m[d]]
<1>1. /\ all \in [DOMAIN all -> Record] /\ DOMAIN all = DOMAIN m \cup {c}
      /\ DOMAIN all \subseteq Cred
  BY DEF Matches, Record
<1>2. b \in Account /\ b.last = c /\ Tried(b) = Tried(a) \cup {c}
  BY DEF Matches, Account, Tried
<1>3. \A d \in DOMAIN all : b.out[d] = IF all[d].waiting THEN "refused" ELSE "admitted"
  <2>1. b.out[c] = IF admitted THEN "admitted" ELSE "refused"
    BY DEF Matches, Account
  <2>2. all[c].waiting = ~admitted
    BY <1>1
  <2>3. ASSUME NEW d \in DOMAIN all, d # c
        PROVE  b.out[d] = IF all[d].waiting THEN "refused" ELSE "admitted"
    <3>1. d \in DOMAIN m /\ all[d] = m[d]
      BY <1>1, <2>3
    <3>2. b.out[d] = a.out[d]
      BY <2>3 DEF Matches, Account
    <3> QED
      BY <3>1, <3>2 DEF Matches
  <2> QED
    BY <2>1, <2>2, <2>3
<1>4. IsFiniteSet(Tried(b)) /\ IsFiniteSet(Tried(a)) /\ DOMAIN all \subseteq Tried(b)
  <2>1. IsFiniteSet(Cred) /\ Tried(b) \subseteq Cred /\ Tried(a) \subseteq Cred
    BY SameSets DEF A!ApprovalsAssumption, Tried
  <2>2. DOMAIN all \subseteq Tried(b)
    <3>1. \A d \in DOMAIN all : b.out[d] # "never"
      <4> HIDE DEF all
      <4> QED
        BY <1>3
    <3> HIDE DEF all
    <3> QED
      BY <1>1, <3>1 DEF Tried
  <2> QED
    BY <2>1, <2>2, FS_Subset
<1>5. \A d \in Tried(b) \ DOMAIN all : Cardinality(Tried(b) \ {d}) >= MaxAgents
  <2> SUFFICES ASSUME NEW d \in Tried(b) \ DOMAIN all
               PROVE  Cardinality(Tried(b) \ {d}) >= MaxAgents
    OBVIOUS
  <2>1. d \in Tried(a) \ DOMAIN m /\ Tried(a) \ {d} \subseteq Tried(b) \ {d}
    BY <1>1, <1>2
  <2>2. Cardinality(Tried(a) \ {d}) >= MaxAgents
    BY <2>1 DEF Matches
  <2>3. IsFiniteSet(Tried(b) \ {d})
    BY <1>4, FS_Subset
  <2>4. /\ Cardinality(Tried(a) \ {d}) <= Cardinality(Tried(b) \ {d})
        /\ Cardinality(Tried(a) \ {d}) \in Nat /\ Cardinality(Tried(b) \ {d}) \in Nat
    BY <2>1, <2>3, FS_Subset, FS_CardinalityType
  <2> QED
    BY <2>2, <2>4 DEF A!ApprovalsAssumption
<1> HIDE DEF all
<1>6. CASE Cardinality(DOMAIN all) <= MaxAgents
  <2>1. A!observe(m, c, admitted, at) = all
    <3>1. ~(Cardinality(DOMAIN all) > MaxAgents)
      <4>1. Cardinality(DOMAIN all) \in Nat
        BY <1>4, FS_Subset, FS_CardinalityType
      <4> QED
        BY <1>6, <4>1 DEF A!ApprovalsAssumption
    <3> QED
      BY <3>1, SameSizes DEF A!observe, all
  <2> QED
    BY <1>1, <1>2, <1>3, <1>5, <2>1 DEF Matches
<1>7. CASE ~(Cardinality(DOMAIN all) <= MaxAgents)
  <2> DEFINE gone == A!Oldest(all, c)
             left == A!Without(all, gone)
  <2>1. IsFiniteSet(DOMAIN all) /\ Cardinality(DOMAIN all) \in Nat
    BY <1>4, FS_Subset, FS_CardinalityType
  <2>2. Cardinality(DOMAIN all) > MaxAgents
    BY <1>7, <2>1 DEF A!ApprovalsAssumption
  <2>3. A!observe(m, c, admitted, at) = left
    BY <2>2, SameSizes DEF A!observe, all
  <2>4. DOMAIN all \ {c} # {}
    <3>1. ASSUME DOMAIN all = {c} PROVE FALSE
      <4>1. Cardinality({c}) = 1
        BY FS_Singleton
      <4> QED
        BY <2>2, <3>1, <4>1 DEF A!ApprovalsAssumption
    <3> QED
      BY <1>1, <3>1
  <2>5. gone \in DOMAIN all \ {c}
    BY <1>1, <2>4, OldestIsAnother
  <2> HIDE DEF gone
  <2>6. /\ DOMAIN left = DOMAIN all \ {gone}
        /\ \A d \in DOMAIN left : left[d] = all[d]
        /\ left \in [DOMAIN left -> Record]
    BY <1>1 DEF A!Without
  <2>7. Cardinality(Tried(b) \ {gone}) >= MaxAgents
    <3>1. Cardinality(DOMAIN all \ {gone}) = Cardinality(DOMAIN all) - 1
      BY <2>1, <2>5, FS_RemoveElement
    <3>2. IsFiniteSet(Tried(b) \ {gone}) /\ DOMAIN all \ {gone} \subseteq Tried(b) \ {gone}
      BY <1>4, FS_Subset
    <3>3. /\ Cardinality(DOMAIN all \ {gone}) <= Cardinality(Tried(b) \ {gone})
          /\ Cardinality(Tried(b) \ {gone}) \in Nat
      BY <3>2, FS_Subset, FS_CardinalityType
    <3> QED
      BY <2>1, <2>2, <3>1, <3>3 DEF A!ApprovalsAssumption
  <2> HIDE DEF left
  <2>8. \A d \in Tried(b) \ DOMAIN left : Cardinality(Tried(b) \ {d}) >= MaxAgents
    BY <1>5, <2>6, <2>7
  <2> QED
    BY <1>1, <1>2, <1>3, <2>3, <2>5, <2>6, <2>8 DEF Matches
<1> QED
  BY <1>6, <1>7

\* Nothing seen and nothing recorded match.
LEMMA BlankMatches == ASSUME A!ApprovalsAssumption PROVE Matches(<<>>, A!Blank)
<1>1. A!Blank \in Account /\ A!Blank.last \notin Cred /\ Tried(A!Blank) = {}
  BY DEF A!Blank, Account, Tried, A!ApprovalsAssumption
<1> QED
  BY <1>1 DEF Matches

LEMMA InitExact == ASSUME A!ApprovalsAssumption, A!Init PROVE Exact
BY BlankMatches DEF A!Init, Exact

LEMMA NextExact == ASSUME A!ApprovalsAssumption, Exact, [A!Next]_(A!vars) PROVE Exact'
<1>1. ASSUME NEW c \in Cred \cup {Nameless}, NEW at \in Stamp, A!seen(c, at) PROVE Exact'
  <2>1. c \in Cred /\ at \in Nat /\ A!Admits(c) \in BOOLEAN
    BY <1>1 DEF A!seen, A!Admits, A!ApprovalsAssumption
  <2>2. Matches(A!observe(mem, c, A!Admits(c), at), hist')
    <3>1. hist' = [out |-> [hist.out EXCEPT ![c] = IF A!Admits(c) THEN "admitted" ELSE "refused"],
                   last |-> c]
      BY <1>1 DEF A!seen
    <3> QED
      BY <2>1, <3>1, ObserveMatches DEF Exact
  <2>3. mem' = A!observe(mem, c, A!Admits(c), at)
    BY <1>1 DEF A!seen
  <2>4. \/ agents' = mem' /\ saved' = hist'
        \/ agents' = agents /\ saved' = saved
    BY <1>1 DEF A!seen, A!fileVars
  <2> QED
    BY <2>2, <2>3, <2>4 DEF Exact
<1>2. CASE \/ A!Reload \/ A!Stop \/ A!Tick \/ A!ChooseToApprove \/ A!ChooseToKeep
           \/ A!approve \/ A!turn_on \/ A!turn_off \/ A!revoke \/ UNCHANGED A!vars
  <2>1. UNCHANGED <<mem, hist, agents, saved>>
    BY <1>2 DEF A!Reload, A!Stop, A!Tick, A!ChooseToApprove, A!ChooseToKeep, A!approve, A!turn_on, A!turn_off,
                A!revoke, A!Aside, A!vars, A!fileVars, A!daemonVars
  <2> QED
    BY <2>1 DEF Exact
<1>3. CASE A!Start
  <2>1. UNCHANGED <<agents, saved>>
    BY <1>3 DEF A!Start, A!fileVars
  <2>2. \/ mem' = agents /\ hist' = saved
        \/ mem' = <<>> /\ hist' = A!Blank
    BY <1>3 DEF A!Start, A!Afresh
  <2> QED
    BY <2>1, <2>2, BlankMatches DEF Exact
<1> QED
  BY <1>1, <1>2, <1>3 DEF A!Next

LEMMA ExactIsListed == ASSUME Exact PROVE A!ListIsExact
<1> SUFFICES ASSUME NEW c \in Cred
             PROVE  LET refused == required /\ c \notin approved /\ saved.out[c] = "refused"
                        others == {d \in Cred \ {c} : saved.out[d] # "never"}
                    IN /\ c \in A!Waiting(agents) => refused
                       /\ refused => c \in A!Waiting(agents) \/ Cardinality(others) >= MaxAgents
                       /\ refused /\ saved.last = c => c \in A!Waiting(agents)
  BY SameSizes DEF A!ListIsExact
<1>1. {d \in Cred \ {c} : saved.out[d] # "never"} = Tried(saved) \ {c}
  BY DEF Tried
<1>2. c \in DOMAIN agents => (agents[c].waiting <=> saved.out[c] = "refused")
  BY DEF Exact, Matches, Record
<1>3. saved.out[c] = "refused" =>
        c \in DOMAIN agents \/ Cardinality(Tried(saved) \ {c}) >= MaxAgents
  BY DEF Exact, Matches, Tried
<1>4. saved.last = c => c \in DOMAIN agents
  BY DEF Exact, Matches
<1> QED
  BY <1>1, <1>2, <1>3, <1>4 DEF A!Waiting

\* What `webmcp approvals` lists as waiting is who was refused last and is not
\* approved, for any number of credentials, any room in agents.json and any clock:
\* only as many others as there is room for push one out, none pushes out the
\* credential just refused, and the list is still exact of what was seen since
\* after a start that could not read agents.json (approvals.rs, observe and
\* Recorder::new).
THEOREM ListIsAlwaysExact == A!Spec => []ListIsExact
<1>1. A!Init => Exact
  BY ApprovalsPart, InitExact
<1>2. Exact /\ [A!Next]_(A!vars) => Exact'
  BY ApprovalsPart, NextExact
<1>3. Exact => ListIsExact
  BY ExactIsListed DEF ListIsExact
<1> QED
  BY <1>1, <1>2, <1>3, PTL DEF A!Spec

-----------------------------------------------------------------------------
\* Sequences end to end.

\* Induction, with a set for the property.
LEMMA Induction ==
    ASSUME NEW T, 0 \in T, \A k \in Nat : k \in T => k + 1 \in T
    PROVE  \A n \in Nat : n \in T
<1> DEFINE bad == {k \in Nat : k \notin T}
<1> SUFFICES ASSUME bad # {} PROVE FALSE
  OBVIOUS
<1>1. PICK n \in bad : \A k \in bad : n <= k
  <2>1. bad \subseteq Nat
    OBVIOUS
  <2> HIDE DEF bad
  <2> QED
    BY <2>1, HasLeast
<1>2. n # 0 /\ n - 1 \in Nat
  OBVIOUS
<1>3. n - 1 \in T
  BY <1>1, <1>2
<1> QED
  BY <1>2, <1>3

-----------------------------------------------------------------------------
\* FlattenSeq of the community modules.

\* The function it is defined by.
Joins(g, s, n) ==
    g = [i \in 1 .. n |-> IF i = 1 THEN s[i] ELSE g[i - 1] \o s[i]]

\* There is one for every length.
LEMMA JoinsExists ==
    ASSUME NEW s, NEW n \in Nat
    PROVE  \E g : Joins(g, s, n)
<1> DEFINE T == {k \in Nat : \E g : Joins(g, s, k)}
<1>1. 0 \in T
  <2> DEFINE g == [i \in 1 .. 0 |-> i]
  <2>1. Joins(g, s, 0)
    BY DEF Joins
  <2> QED
    BY <2>1
<1>2. ASSUME NEW k \in Nat, k \in T
      PROVE  k + 1 \in T
  <2>1. PICK g : Joins(g, s, k)
    BY <1>2
  <2> DEFINE last == IF k = 0 THEN s[k + 1] ELSE g[k] \o s[k + 1]
             h == [i \in 1 .. k + 1 |-> IF i = k + 1 THEN last ELSE g[i]]
             e == [i \in 1 .. k + 1 |-> IF i = 1 THEN s[i] ELSE h[i - 1] \o s[i]]
  <2>2. ASSUME NEW i \in 1 .. k + 1
        PROVE  h[i] = e[i]
    <3>1. CASE i = k + 1 /\ k = 0
      BY <3>1
    <3>2. CASE i = k + 1 /\ k # 0
      <4>1. h[i] = g[k] \o s[k + 1]
        BY <3>2
      <4>2. h[i - 1] = g[k]
        BY <3>2
      <4>3. e[i] = h[i - 1] \o s[i]
        <5>1. e[i] = IF i = 1 THEN s[i] ELSE h[i - 1] \o s[i]
          <6> HIDE DEF h
          <6> QED
            OBVIOUS
        <5>2. i # 1
          BY <3>2
        <5> HIDE DEF e, h
        <5> QED
          BY <5>1, <5>2
      <4> QED
        BY <3>2, <4>1, <4>2, <4>3
    <3>3. CASE i # k + 1
      <4>1. i \in 1 .. k /\ h[i] = g[i]
        BY <3>3
      <4>2. g[i] = IF i = 1 THEN s[i] ELSE g[i - 1] \o s[i]
        BY <2>1, <4>1 DEF Joins
      <4>3. i # 1 => h[i - 1] = g[i - 1]
        BY <4>1
      <4> HIDE DEF h
      <4> QED
        BY <4>1, <4>2, <4>3
    <3> QED
      BY <3>1, <3>2, <3>3
  <2>3. h = e
    <3> HIDE DEF last
    <3>1. DOMAIN h = 1 .. k + 1 /\ DOMAIN e = 1 .. k + 1
      OBVIOUS
    <3> QED
      BY <2>2, <3>1
  <2>4. Joins(h, s, k + 1)
    <3> HIDE DEF h
    <3> QED
      BY <2>3 DEF Joins
  <2> QED
    BY <2>4
<1>3. \A k \in Nat : k \in T
  <2> HIDE DEF T
  <2> QED
    BY <1>1, <1>2, Induction
<1> QED
  BY <1>3

\* What is joined up to a place depends on what comes up to it.
LEMMA JoinsAgree ==
    ASSUME NEW s, NEW t, NEW g, NEW h, NEW m \in Nat, NEW n \in Nat,
           Joins(g, s, m), Joins(h, t, n), n <= m, \A i \in 1 .. n : s[i] = t[i]
    PROVE  \A i \in 1 .. n : g[i] = h[i]
<1> DEFINE T == {i \in Nat : i \in 1 .. n => g[i] = h[i]}
<1>1. 0 \in T
  OBVIOUS
<1>2. ASSUME NEW i \in Nat, i \in T
      PROVE  i + 1 \in T
  <2> SUFFICES ASSUME i + 1 \in 1 .. n
               PROVE  g[i + 1] = h[i + 1]
    OBVIOUS
  <2>0. i + 1 \in 1 .. m /\ i + 1 \in 1 .. n /\ (i + 1) - 1 = i /\ (i # 0 => i \in 1 .. n)
    OBVIOUS
  <2>1. g[i + 1] = IF i + 1 = 1 THEN s[i + 1] ELSE g[(i + 1) - 1] \o s[i + 1]
    BY <2>0 DEF Joins
  <2>2. h[i + 1] = IF i + 1 = 1 THEN t[i + 1] ELSE h[(i + 1) - 1] \o t[i + 1]
    BY <2>0 DEF Joins
  <2> QED
    BY <1>2, <2>0, <2>1, <2>2
<1>3. \A i \in Nat : i \in T
  <2> HIDE DEF T
  <2> QED
    BY <1>1, <1>2, Induction
<1> QED
  BY <1>3

\* Sequences end to end are what is joined up to the last.
LEMMA FlattenIsJoin ==
    ASSUME NEW n \in Nat \ {0}, NEW s, s \in Seq(Range(s)), Len(s) = n
    PROVE  \E g : Joins(g, s, n) /\ FlattenSeq(s) = g[n]
<1> DEFINE f == CHOOSE g : Joins(g, s, n)
<1>1. Joins(f, s, n)
  BY JoinsExists
<1>2. FlattenSeq(s) = f[n]
  BY DEF FlattenSeq, Joins
<1> QED
  BY <1>1, <1>2

\* n sequences over a set.
Lists(S, n) == [1 .. n -> Seq(S)]

\* What is joined up to a place are sequences, and each place adds its own.
LEMMA JoinsSeq ==
    ASSUME NEW S, NEW n \in Nat, NEW s \in Lists(S, n), NEW g, Joins(g, s, n)
    PROVE  \A i \in 1 .. n : g[i] \in Seq(S)
<1>1. \A i \in 1 .. n : g[i] = IF i = 1 THEN s[i] ELSE g[i - 1] \o s[i]
  BY DEF Joins
<1> DEFINE T == {i \in Nat : i \in 1 .. n => g[i] \in Seq(S)}
<1>2. ASSUME NEW i \in Nat, i \in T
      PROVE  i + 1 \in T
  <2> SUFFICES ASSUME i + 1 \in 1 .. n
               PROVE  g[i + 1] \in Seq(S)
    OBVIOUS
  <2>1. s[i + 1] \in Seq(S)
    BY DEF Lists
  <2>2. CASE i = 0
    BY <1>1, <2>1, <2>2
  <2>3. CASE i # 0
    <3>1. i \in 1 .. n /\ (i + 1) - 1 = i /\ i + 1 # 1
      BY <2>3
    <3>2. g[i + 1] = g[i] \o s[i + 1]
      BY <1>1, <3>1
    <3>3. g[i] \in Seq(S)
      BY <1>2, <3>1
    <3> QED
      BY <2>1, <3>2, <3>3
  <2> QED
    BY <2>2, <2>3
<1>3. \A i \in Nat : i \in T
  <2>1. 0 \in T
    OBVIOUS
  <2> HIDE DEF T
  <2> QED
    BY <1>2, <2>1, Induction
<1> QED
  BY <1>3

Upto(s, k) == [i \in 1 .. k |-> s[i]]

\* Nothing end to end is nothing.
LEMMA FlattenEmpty ==
    ASSUME NEW s, Len(s) = 0
    PROVE  FlattenSeq(s) = s
BY DEF FlattenSeq

\* The same, of sequences over a set.
LEMMA FlattenIs ==
    ASSUME NEW S, NEW n \in Nat, NEW s \in Lists(S, n), n # 0
    PROVE  \E g : Joins(g, s, n) /\ FlattenSeq(s) = g[n]
<1>1. s \in Seq(Seq(S)) /\ Len(s) = n
  BY DEF Lists
<1>2. DOMAIN s = 1 .. n /\ \A i \in 1 .. n : s[i] \in Range(s)
  BY DEF Range, Lists
<1>3. s \in Seq(Range(s))
  <2>1. s = [i \in 1 .. n |-> s[i]]
    BY DEF Lists
  <2>2. s \in [1 .. n -> Range(s)]
    BY <1>2, <2>1
  <2> QED
    BY <2>2
<1> QED
  BY <1>1, <1>3, FlattenIsJoin

\* It is a sequence over the same set.
LEMMA FlattenType ==
    ASSUME NEW S, NEW n \in Nat, NEW s \in Lists(S, n)
    PROVE  FlattenSeq(s) \in Seq(S)
<1>1. CASE n = 0
  <2>1. Len(s) = 0 /\ s = <<>>
    BY <1>1 DEF Lists
  <2>2. FlattenSeq(s) = s
    BY <2>1, FlattenEmpty
  <2>3. <<>> \in Seq(S)
    OBVIOUS
  <2> QED
    BY <2>1, <2>2, <2>3
<1>2. CASE n # 0
  <2>1. PICK g : Joins(g, s, n) /\ FlattenSeq(s) = g[n]
    BY <1>2, FlattenIs
  <2>2. \A i \in 1 .. n : g[i] \in Seq(S)
    BY <2>1, JoinsSeq
  <2> QED
    BY <1>2, <2>1, <2>2
<1> QED
  BY <1>1, <1>2

\* The last is what comes last.
LEMMA FlattenStep ==
    ASSUME NEW S, NEW n \in Nat, n # 0, NEW s \in Lists(S, n)
    PROVE  FlattenSeq(s) = FlattenSeq(Upto(s, n - 1)) \o s[n]
<1>1. PICK g : Joins(g, s, n) /\ FlattenSeq(s) = g[n]
  BY FlattenIs
<1> DEFINE t == Upto(s, n - 1)
<1>2. n - 1 \in Nat /\ t \in Lists(S, n - 1) /\ \A i \in 1 .. n - 1 : s[i] = t[i]
  BY DEF Upto, Lists
<1>3. /\ g[1] = s[1]
      /\ \A i \in 1 .. n : i # 1 => g[i] = g[i - 1] \o s[i]
  <2>1. Joins(g, s, n)
    BY <1>1
  <2>2. \A i \in 1 .. n : g[i] = IF i = 1 THEN s[i] ELSE g[i - 1] \o s[i]
    BY <2>1 DEF Joins
  <2>3. 1 \in 1 .. n
    OBVIOUS
  <2> QED
    BY <2>2, <2>3
<1> HIDE DEF t
<1>4. CASE n = 1
  <2>1. FlattenSeq(t) = <<>>
    <3>1. Len(t) = 0 /\ t = <<>>
      BY <1>2, <1>4 DEF Lists
    <3>2. FlattenSeq(t) = t
      BY <3>1, FlattenEmpty
    <3> QED
      BY <3>1, <3>2
  <2>2. s[1] \in Seq(S)
    BY <1>4 DEF Lists
  <2>3. <<>> \o s[1] = s[1]
    BY <2>2
  <2> QED
    BY <1>1, <1>3, <1>4, <2>1, <2>3 DEF t
<1>5. CASE n # 1
  <2>1. PICK h : Joins(h, t, n - 1) /\ FlattenSeq(t) = h[n - 1]
    BY <1>2, <1>5, FlattenIs
  <2>2. g[n - 1] = h[n - 1]
    <3>1. \A i \in 1 .. n - 1 : g[i] = h[i]
      BY <1>1, <1>2, <2>1, JoinsAgree
    <3> QED
      BY <1>5, <3>1
  <2>3. g[n] = g[n - 1] \o s[n]
    <3>1. n \in 1 .. n
      OBVIOUS
    <3> QED
      BY <1>3, <1>5, <3>1
  <2> QED
    BY <1>1, <2>1, <2>2, <2>3 DEF t
<1> QED
  BY <1>4, <1>5

\* The first ones of a sequence.
LEMMA UptoType ==
    ASSUME NEW S, NEW n \in Nat, NEW k \in Nat, k <= n, NEW s \in Lists(S, n)
    PROVE  Upto(s, k) \in Lists(S, k) /\ (\A i \in 1 .. k : Upto(s, k)[i] = s[i]) /\ Upto(s, n) = s
BY DEF Upto, Lists

\* The beginning of what is put together is what the beginning puts together.
LEMMA FlattenPrefix ==
    ASSUME NEW S, NEW n \in Nat, NEW k \in Nat, k <= n, NEW s \in Lists(S, n)
    PROVE  \E r \in Seq(S) : FlattenSeq(s) = FlattenSeq(Upto(s, k)) \o r
<1> DEFINE T == {d \in Nat : k + d <= n =>
                    \E r \in Seq(S) : FlattenSeq(Upto(s, k + d)) = FlattenSeq(Upto(s, k)) \o r}
<1>1. 0 \in T
  <2>1. FlattenSeq(Upto(s, k)) \in Seq(S)
    BY UptoType, FlattenType
  <2>2. <<>> \in Seq(S) /\ FlattenSeq(Upto(s, k)) \o <<>> = FlattenSeq(Upto(s, k)) /\ k + 0 = k
    BY <2>1
  <2> QED
    BY <2>2
<1>2. ASSUME NEW d \in Nat, d \in T
      PROVE  d + 1 \in T
  <2> DEFINE goal == \E r \in Seq(S) : FlattenSeq(Upto(s, k + (d + 1))) = FlattenSeq(Upto(s, k)) \o r
  <2> SUFFICES ASSUME k + (d + 1) <= n
               PROVE  goal
    <3> HIDE DEF goal
    <3>1. d + 1 \in Nat
      OBVIOUS
    <3>2. (k + (d + 1) <= n => goal) => d + 1 \in T
      BY <3>1 DEF goal
    <3> QED
      BY <3>2
  <2> DEFINE m == k + (d + 1)
  <2>1. m \in Nat /\ m # 0 /\ m <= n /\ m - 1 = k + d /\ m \in 1 .. n /\ m - 1 \in Nat /\ k + d <= n
    OBVIOUS
  <2>2. PICK r \in Seq(S) : FlattenSeq(Upto(s, k + d)) = FlattenSeq(Upto(s, k)) \o r
    BY <1>2, <2>1
  <2> HIDE DEF m
  <2> DEFINE t == Upto(s, m)
  <2>3. t \in Lists(S, m) /\ t[m] = s[m]
    <3>1. t \in Lists(S, m) /\ \A i \in 1 .. m : t[i] = s[i]
      <4> HIDE DEF T
      <4> QED
        BY <2>1, UptoType
    <3> QED
      BY <2>1, <3>1
  <2>4. Upto(t, m - 1) = Upto(s, k + d)
    BY <2>1 DEF Upto
  <2>5. FlattenSeq(t) = FlattenSeq(Upto(t, m - 1)) \o t[m]
    <3> HIDE DEF t
    <3> QED
      BY <2>1, <2>3, FlattenStep
  <2>6. FlattenSeq(Upto(s, k)) \in Seq(S)
    BY UptoType, FlattenType
  <2>7. s[m] \in Seq(S) /\ r \o s[m] \in Seq(S)
    BY <2>1 DEF Lists
  <2>8. FlattenSeq(t) = (FlattenSeq(Upto(s, k)) \o r) \o s[m]
    <3> HIDE DEF t
    <3> QED
      BY <2>2, <2>3, <2>4, <2>5
  <2>9. (FlattenSeq(Upto(s, k)) \o r) \o s[m] = FlattenSeq(Upto(s, k)) \o (r \o s[m])
    <3>1. \A a, b, c \in Seq(S) : (a \o b) \o c = a \o (b \o c)
      BY ConcatAssociative
    <3> QED
      BY <2>6, <2>7, <3>1
  <2> QED
    BY <2>7, <2>8, <2>9 DEF m
<1>3. \A d \in Nat : d \in T
  <2> HIDE DEF T
  <2> QED
    BY <1>1, <1>2, Induction
<1>4. n - k \in Nat /\ k + (n - k) = n /\ n <= n
  OBVIOUS
<1>6. \E r \in Seq(S) : FlattenSeq(Upto(s, k + (n - k))) = FlattenSeq(Upto(s, k)) \o r
  BY <1>3, <1>4
<1>5. Upto(s, n) = s
  BY UptoType
<1> QED
  BY <1>4, <1>5, <1>6

\* One more place at a time.
LEMMA FlattenNext ==
    ASSUME NEW S, NEW n \in Nat, NEW s \in Lists(S, n), NEW k \in Nat, k < n
    PROVE  /\ FlattenSeq(Upto(s, k + 1)) = FlattenSeq(Upto(s, k)) \o s[k + 1]
           /\ FlattenSeq(Upto(s, k)) \in Seq(S) /\ s[k + 1] \in Seq(S)
<1> DEFINE t == Upto(s, k + 1)
<1>1. k + 1 \in Nat /\ k + 1 # 0 /\ k + 1 <= n /\ k <= n /\ k + 1 \in 1 .. n /\ (k + 1) - 1 = k
  OBVIOUS
<1>2. t \in Lists(S, k + 1) /\ t[k + 1] = s[k + 1]
  <2>1. t \in Lists(S, k + 1) /\ \A i \in 1 .. k + 1 : t[i] = s[i]
    BY <1>1, UptoType
  <2> QED
    BY <1>1, <2>1
<1>3. Upto(t, (k + 1) - 1) = Upto(s, k)
  BY <1>1 DEF Upto
<1>4. FlattenSeq(t) = FlattenSeq(Upto(t, (k + 1) - 1)) \o t[k + 1]
  <2> HIDE DEF t
  <2> QED
    BY <1>1, <1>2, FlattenStep
<1>5. FlattenSeq(Upto(s, k)) \in Seq(S)
  BY <1>1, UptoType, FlattenType
<1>6. s[k + 1] \in Seq(S)
  BY <1>1 DEF Lists
<1> QED
  BY <1>2, <1>3, <1>4, <1>5, <1>6

\* None of them is nothing.
LEMMA FlattenNone ==
    ASSUME NEW s
    PROVE  FlattenSeq(Upto(s, 0)) = <<>>
<1>1. Upto(s, 0) = <<>> /\ Len(Upto(s, 0)) = 0
  BY DEF Upto
<1> QED
  BY <1>1, FlattenEmpty

\* It has the elements of its parts.
LEMMA FlattenElements ==
    ASSUME NEW S, NEW n \in Nat, NEW s \in Lists(S, n)
    PROVE  /\ \A j \in 1 .. Len(FlattenSeq(s)) :
                 \E i \in 1 .. n : \E k \in 1 .. Len(s[i]) : FlattenSeq(s)[j] = s[i][k]
           /\ \A i \in 1 .. n : \A k \in 1 .. Len(s[i]) :
                 \E j \in 1 .. Len(FlattenSeq(s)) : FlattenSeq(s)[j] = s[i][k]
<1> DEFINE F(m) == FlattenSeq(Upto(s, m))
           In(m) == \A j \in 1 .. Len(F(m)) :
                       \E i \in 1 .. m : \E k \in 1 .. Len(s[i]) : F(m)[j] = s[i][k]
           Out(m) == \A i \in 1 .. m : \A k \in 1 .. Len(s[i]) :
                        \E j \in 1 .. Len(F(m)) : F(m)[j] = s[i][k]
           T == {m \in Nat : m <= n => In(m) /\ Out(m)}
<1>1. 0 \in T
  BY FlattenNone
<1>2. ASSUME NEW m \in Nat, m \in T
      PROVE  m + 1 \in T
  <2>1. CASE ~(m + 1 <= n)
    BY <2>1
  <2>2. CASE m + 1 <= n
    <3>1. /\ F(m + 1) = F(m) \o s[m + 1]
          /\ F(m) \in Seq(S) /\ s[m + 1] \in Seq(S)
      <4>1. m < n
        BY <2>2
      <4> QED
        BY <4>1, FlattenNext
    <3>2. In(m) /\ Out(m)
      BY <1>2, <2>2
    <3> HIDE DEF F
    <3>3. /\ Len(F(m)) \in Nat /\ Len(s[m + 1]) \in Nat
          /\ Len(F(m + 1)) = Len(F(m)) + Len(s[m + 1])
          /\ \A j \in 1 .. Len(F(m)) : F(m + 1)[j] = F(m)[j]
          /\ \A k \in 1 .. Len(s[m + 1]) : F(m + 1)[Len(F(m)) + k] = s[m + 1][k]
      BY <3>1
    <3>4. ASSUME NEW j \in 1 .. Len(F(m + 1))
          PROVE  \E i \in 1 .. m + 1 : \E k \in 1 .. Len(s[i]) : F(m + 1)[j] = s[i][k]
      <4>1. CASE j \in 1 .. Len(F(m))
        <5>1. PICK i \in 1 .. m : \E k \in 1 .. Len(s[i]) : F(m)[j] = s[i][k]
          BY <3>2, <4>1
        <5>2. i \in 1 .. m + 1 /\ F(m + 1)[j] = F(m)[j]
          BY <3>3, <4>1
        <5> QED
          BY <5>1, <5>2
      <4>2. CASE j \notin 1 .. Len(F(m))
        <5> DEFINE k == j - Len(F(m))
        <5>1. k \in 1 .. Len(s[m + 1]) /\ j = Len(F(m)) + k
          BY <3>3, <4>2
        <5>2. F(m + 1)[j] = s[m + 1][k]
          <6> HIDE DEF k
          <6> QED
            BY <3>3, <5>1
        <5>3. m + 1 \in 1 .. m + 1
          OBVIOUS
        <5> QED
          BY <5>1, <5>2, <5>3
      <4> QED
        BY <4>1, <4>2
    <3>5. ASSUME NEW i \in 1 .. m + 1, NEW k \in 1 .. Len(s[i])
          PROVE  \E j \in 1 .. Len(F(m + 1)) : F(m + 1)[j] = s[i][k]
      <4>1. CASE i = m + 1
        <5>1. Len(F(m)) + k \in 1 .. Len(F(m + 1))
          BY <3>3, <4>1
        <5>2. F(m + 1)[Len(F(m)) + k] = s[i][k]
          BY <3>3, <4>1
        <5> QED
          BY <5>1, <5>2
      <4>2. CASE i # m + 1
        <5>1. i \in 1 .. m
          BY <4>2
        <5>2. PICK j \in 1 .. Len(F(m)) : F(m)[j] = s[i][k]
          BY <3>2, <5>1
        <5>3. j \in 1 .. Len(F(m + 1)) /\ F(m + 1)[j] = F(m)[j]
          BY <3>3
        <5> QED
          BY <5>2, <5>3
      <4> QED
        BY <4>1, <4>2
    <3>6. In(m + 1) /\ Out(m + 1)
      BY <3>4, <3>5
    <3> HIDE DEF In, Out
    <3> QED
      BY <3>6
  <2> QED
    BY <2>1, <2>2
<1>3. \A m \in Nat : m \in T
  <2> HIDE DEF T
  <2> QED
    BY <1>1, <1>2, Induction
<1>4. F(n) = FlattenSeq(s)
  BY UptoType
<1>5. In(n) /\ Out(n)
  BY <1>3
<1> QED
  BY <1>4, <1>5

\* Its length is bounded by those of its parts.
LEMMA FlattenLen ==
    ASSUME NEW S, NEW n \in Nat, NEW s \in Lists(S, n), NEW b \in Nat,
           \A i \in 1 .. n : Len(s[i]) <= b
    PROVE  Len(FlattenSeq(s)) <= n * b
<1> DEFINE F(m) == FlattenSeq(Upto(s, m))
           T == {m \in Nat : m <= n => Len(F(m)) <= m * b}
<1>1. 0 \in T
  BY FlattenNone
<1>2. ASSUME NEW m \in Nat, m \in T
      PROVE  m + 1 \in T
  <2> SUFFICES ASSUME m + 1 <= n
               PROVE  Len(F(m + 1)) <= (m + 1) * b
    OBVIOUS
  <2>1. /\ F(m + 1) = F(m) \o s[m + 1]
        /\ F(m) \in Seq(S) /\ s[m + 1] \in Seq(S)
    <3>1. m < n
      OBVIOUS
    <3> QED
      BY <3>1, FlattenNext
  <2>2. Len(F(m)) <= m * b
    BY <1>2
  <2>3. Len(s[m + 1]) <= b
    <3>1. m + 1 \in 1 .. n
      OBVIOUS
    <3> QED
      BY <3>1
  <2> HIDE DEF F
  <2>4. Len(F(m + 1)) = Len(F(m)) + Len(s[m + 1]) /\ Len(F(m)) \in Nat /\ Len(s[m + 1]) \in Nat
    BY <2>1
  <2>5. (m + 1) * b = m * b + b /\ m * b \in Nat
    OBVIOUS
  <2> QED
    BY <2>2, <2>3, <2>4, <2>5
<1>3. \A m \in Nat : m \in T
  <2> HIDE DEF T
  <2> QED
    BY <1>1, <1>2, Induction
<1>4. F(n) = FlattenSeq(s)
  BY UptoType
<1>5. Len(F(n)) <= n * b
  BY <1>3
<1> QED
  BY <1>4, <1>5

\* It begins with the beginning of the first part that is not empty.
LEMMA FlattenHead ==
    ASSUME NEW S, NEW n \in Nat, NEW s \in Lists(S, n), FlattenSeq(s) # <<>>
    PROVE  \E i \in 1 .. n : /\ s[i] # <<>> /\ FlattenSeq(s)[1] = s[i][1]
                             /\ \A j \in 1 .. i - 1 : s[j] = <<>>
<1> DEFINE F(m) == FlattenSeq(Upto(s, m))
           Empty(m) == F(m) = <<>> /\ \A j \in 1 .. m : s[j] = <<>>
           Head1(m) == F(m) # <<>> /\ \E i \in 1 .. m : /\ s[i] # <<>> /\ F(m)[1] = s[i][1]
                                          /\ \A j \in 1 .. i - 1 : s[j] = <<>>
           T == {m \in Nat : m <= n => Empty(m) \/ Head1(m)}
<1>1. 0 \in T
  BY FlattenNone
<1>2. ASSUME NEW m \in Nat, m \in T
      PROVE  m + 1 \in T
  <2>1. CASE ~(m + 1 <= n)
    BY <2>1
  <2>2. CASE m + 1 <= n
    <3>1. /\ F(m + 1) = F(m) \o s[m + 1]
          /\ F(m) \in Seq(S) /\ s[m + 1] \in Seq(S)
      <4>1. m < n
        BY <2>2
      <4> QED
        BY <4>1, FlattenNext
    <3>2. Empty(m) \/ Head1(m)
      BY <1>2, <2>2
    <3> HIDE DEF F
    <3>3. CASE Empty(m) /\ s[m + 1] = <<>>
      <4>1. Empty(m + 1)
        BY <3>1, <3>3
      <4> HIDE DEF Empty, Head1
      <4> QED
        BY <4>1
    <3>4. CASE Empty(m) /\ s[m + 1] # <<>>
      <4>1. F(m + 1) = s[m + 1]
        BY <3>1, <3>4
      <4>2. m + 1 \in 1 .. m + 1 /\ (m + 1) - 1 = m
        OBVIOUS
      <4>3. Head1(m + 1)
        BY <3>4, <4>1, <4>2
      <4> HIDE DEF Empty, Head1
      <4> QED
        BY <4>3
    <3>5. CASE Head1(m)
      <4>1. F(m + 1) # <<>> /\ F(m + 1)[1] = F(m)[1]
        BY <3>1, <3>5
      <4>2. PICK i \in 1 .. m : /\ s[i] # <<>> /\ F(m)[1] = s[i][1]
                                /\ \A j \in 1 .. i - 1 : s[j] = <<>>
        BY <3>5
      <4>3. i \in 1 .. m + 1
        OBVIOUS
      <4>4. Head1(m + 1)
        BY <4>1, <4>2, <4>3
      <4> HIDE DEF Empty, Head1
      <4> QED
        BY <4>4
    <3> QED
      BY <3>2, <3>3, <3>4, <3>5
  <2> QED
    BY <2>1, <2>2
<1>3. \A m \in Nat : m \in T
  <2> HIDE DEF T
  <2> QED
    BY <1>1, <1>2, Induction
<1>4. F(n) = FlattenSeq(s)
  BY UptoType
<1>5. Empty(n) \/ Head1(n)
  BY <1>3
<1> QED
  BY <1>4, <1>5

-----------------------------------------------------------------------------
\* Discovery: aliases, and what is attached.

\* The parts mean the same by it.
LEMMA SameFlatten ==
    ASSUME NEW s
    PROVE  D!FlattenSeq(s) = FlattenSeq(s) /\ E!FlattenSeq(s) = FlattenSeq(s)
BY DEF D!FlattenSeq, E!FlattenSeq, FlattenSeq

\* A set of numbers below a bound has a greatest.
LEMMA HasGreatest ==
    ASSUME NEW n \in Nat, NEW T, T \subseteq 0 .. n, T # {}
    PROVE  \E x \in T : \A y \in T : x >= y
<1> DEFINE U == {n - x : x \in T}
<1>1. PICK u \in U : \A v \in U : u <= v
  <2>0. \A x \in T : n - x \in Nat
    OBVIOUS
  <2>1. U \subseteq Nat /\ U # {}
    BY <2>0
  <2> HIDE DEF U
  <2> QED
    BY <2>1, HasLeast
<1>2. PICK x \in T : u = n - x
  OBVIOUS
<1>3. ASSUME NEW y \in T PROVE x >= y
  <2>1. n - x <= n - y
    BY <1>1, <1>2
  <2>2. x \in 0 .. n /\ y \in 0 .. n
    OBVIOUS
  <2> QED
    BY <2>1, <2>2
<1> QED
  BY <1>3

\* The characters of an alias, and the parts of one: it does not begin with a dash.
Letters == {Kept[c] : c \in DOMAIN Kept}
Chars == Letters \cup {"-"}
Base(s) == s \in Seq(Chars) /\ (s # <<>> => s[1] \in Letters)
Valid(s) == Base(s) /\ Len(s) \in 1 .. MaxAlias

\* The dash is no letter.
LEMMA NoDash ==
    ASSUME D!DiscoveryAssumption
    PROVE  "-" \notin Letters
BY DEF D!DiscoveryAssumption, D!Range, Letters

\* A cut base is one, and not empty unless it must be.
LEMMA CutBase ==
    ASSUME NEW s, Base(s), NEW n \in Nat
    PROVE  /\ Base(D!Cut(s, n)) /\ Len(D!Cut(s, n)) <= n
           /\ s # <<>> /\ n # 0 => D!Cut(s, n) # <<>>
<1> DEFINE m == D!Min({n, Len(s)})
<1>1. s \in Seq(Chars) /\ Len(s) \in Nat
  BY DEF Base
<1>2. m \in {n, Len(s)} /\ m <= n /\ m <= Len(s)
  <2>1. \E x \in {n, Len(s)} : \A y \in {n, Len(s)} : x <= y
    BY <1>1
  <2>2. m = CHOOSE x \in {n, Len(s)} : \A y \in {n, Len(s)} : x <= y
    BY DEF D!Min
  <2> HIDE DEF m
  <2> QED
    BY <2>1, <2>2
<1>3. D!Cut(s, n) = SubSeq(s, 1, m)
  BY DEF D!Cut
<1> HIDE DEF m
<1>4. m \in Nat
  BY <1>1, <1>2
<1>5. SubSeq(s, 1, m) \in Seq(Chars) /\ Len(SubSeq(s, 1, m)) = m /\ \A i \in 1 .. m : SubSeq(s, 1, m)[i] = s[i]
  BY <1>1, <1>2, <1>4
<1>6. SubSeq(s, 1, m) # <<>> => SubSeq(s, 1, m)[1] \in Letters
  <2> SUFFICES ASSUME m # 0 PROVE SubSeq(s, 1, m)[1] \in Letters
    BY <1>5
  <2>1. 1 \in 1 .. m /\ s # <<>>
    BY <1>1, <1>2, <1>4
  <2> QED
    BY <1>5, <2>1 DEF Base
<1>7. s # <<>> /\ n # 0 => m # 0
  BY <1>1, <1>2
<1> QED
  BY <1>2, <1>3, <1>5, <1>6, <1>7 DEF Base

\* A base without its last dashes is one, and still not empty.
LEMMA TrimBase ==
    ASSUME D!DiscoveryAssumption, NEW s, Base(s)
    PROVE  /\ Base(D!TrimEnd(s)) /\ Len(D!TrimEnd(s)) <= Len(s)
           /\ s # <<>> => D!TrimEnd(s) # <<>>
<1> DEFINE T == {0} \cup {i \in DOMAIN s : s[i] # "-"}
           m == D!Max(T)
<1>1. s \in Seq(Chars) /\ Len(s) \in Nat
  BY DEF Base
<1>2. m \in T /\ \A y \in T : m >= y
  <2>1. T \subseteq 0 .. Len(s) /\ T # {}
    BY <1>1
  <2>2. m = CHOOSE x \in T : \A y \in T : x >= y
    BY DEF D!Max
  <2> HIDE DEF T, m
  <2>3. \E x \in T : \A y \in T : x >= y
    BY <1>1, <2>1, HasGreatest
  <2> QED
    BY <2>2, <2>3
<1>3. D!TrimEnd(s) = SubSeq(s, 1, m)
  BY DEF D!TrimEnd
<1>4. m \in Nat /\ m <= Len(s)
  BY <1>1, <1>2
<1>5. s # <<>> => m >= 1
  <2> SUFFICES ASSUME s # <<>> PROVE m >= 1
    OBVIOUS
  <2>1. s[1] # "-" /\ 1 \in DOMAIN s
    BY <1>1, NoDash DEF Base
  <2>2. 1 \in T
    BY <2>1
  <2> HIDE DEF T, m
  <2> QED
    BY <1>2, <2>2
<1> HIDE DEF m
<1>6. SubSeq(s, 1, m) \in Seq(Chars) /\ Len(SubSeq(s, 1, m)) = m /\ \A i \in 1 .. m : SubSeq(s, 1, m)[i] = s[i]
  BY <1>1, <1>4
<1>7. SubSeq(s, 1, m) # <<>> => SubSeq(s, 1, m)[1] \in Letters
  <2> SUFFICES ASSUME m # 0 PROVE SubSeq(s, 1, m)[1] \in Letters
    BY <1>6
  <2>1. 1 \in 1 .. m /\ s # <<>>
    BY <1>1, <1>4
  <2> QED
    BY <1>6, <2>1 DEF Base
<1> QED
  BY <1>3, <1>4, <1>5, <1>6, <1>7 DEF Base

\* Whatever a name is, what sanitize_alias makes of it is a valid alias.
LEMMA SanitizeValid ==
    ASSUME D!DiscoveryAssumption, NEW name \in Seq(STRING)
    PROVE  Valid(D!sanitize_alias(name))
<1> DEFINE s == [i \in DOMAIN name |-> D!AliasChar(name, i)]
           n == Len(name)
<1>1. n \in Nat /\ DOMAIN name = 1 .. n
  OBVIOUS
<1>2. s \in Lists(Chars, n) /\ \A i \in 1 .. n : s[i] = D!AliasChar(name, i)
  <2>1. \A i \in 1 .. n : D!AliasChar(name, i) \in Seq(Chars)
    <3> TAKE i \in 1 .. n
    <3>1. CASE name[i] \in DOMAIN Kept
      <4>1. D!AliasChar(name, i) = <<Kept[name[i]]>>
        BY <3>1 DEF D!AliasChar
      <4>2. Kept[name[i]] \in Chars
        BY <3>1 DEF Chars, Letters
      <4> QED
        BY <4>1, <4>2
    <3>2. CASE name[i] \notin DOMAIN Kept
      <4>1. D!AliasChar(name, i) \in {<<"-">>, <<>>}
        BY <3>2 DEF D!AliasChar
      <4>2. <<"-">> \in Seq(Chars) /\ <<>> \in Seq(Chars)
        <5>1. "-" \in Chars
          BY DEF Chars
        <5> QED
          BY <5>1
      <4> QED
        BY <4>1, <4>2
    <3> QED
      BY <3>1, <3>2
  <2> QED
    BY <1>1, <2>1 DEF Lists
<1> DEFINE f == FlattenSeq(s)
<1>3. Base(f)
  <2>1. f \in Seq(Chars)
    <3> HIDE DEF s
    <3> QED
      BY <1>1, <1>2, FlattenType
  <2>2. ASSUME f # <<>> PROVE f[1] \in Letters
    <3>1. PICK i \in 1 .. n : /\ s[i] # <<>> /\ f[1] = s[i][1]
                              /\ \A j \in 1 .. i - 1 : s[j] = <<>>
      <4> HIDE DEF s
      <4> QED
        BY <1>1, <1>2, <2>2, FlattenHead
    <3>2. CASE name[i] \in DOMAIN Kept
      <4>1. s[i] = <<Kept[name[i]]>>
        BY <1>2, <3>2 DEF D!AliasChar
      <4>2. Kept[name[i]] \in Letters
        BY <3>2 DEF Letters
      <4> HIDE DEF s
      <4> QED
        BY <3>1, <4>1, <4>2
    <3>3. CASE name[i] \notin DOMAIN Kept
      <4>1. i > 1 /\ name[i - 1] \in DOMAIN Kept
        BY <1>2, <3>1, <3>3 DEF D!AliasChar
      <4>2. i - 1 \in 1 .. n /\ i - 1 \in 1 .. i - 1
        BY <4>1
      <4>3. s[i - 1] = <<Kept[name[i - 1]]>>
        BY <1>2, <4>1, <4>2 DEF D!AliasChar
      <4> HIDE DEF s
      <4>4. s[i - 1] # <<>>
        <5>1. Len(<<Kept[name[i - 1]]>>) = 1 /\ Len(<<>>) = 0
          OBVIOUS
        <5> QED
          BY <4>3, <5>1
      <4> QED
        BY <3>1, <4>2, <4>4
    <3> QED
      BY <3>2, <3>3
  <2> QED
    BY <2>1, <2>2 DEF Base
<1> DEFINE cut == D!Cut(f, MaxAlias)
           out == D!TrimEnd(cut)
<1>4. D!sanitize_alias(name) = IF out = <<>> THEN Default ELSE out
  BY SameFlatten DEF D!sanitize_alias
<1> HIDE DEF f
<1>5. MaxAlias \in Nat
  BY DEF D!DiscoveryAssumption
<1>6. Base(cut) /\ Len(cut) <= MaxAlias
  BY <1>3, <1>5, CutBase
<1> HIDE DEF cut
<1>7. Base(out) /\ Len(out) <= Len(cut)
  BY <1>6, TrimBase
<1> HIDE DEF out
<1>8. CASE out = <<>>
  <2>1. Default \in Seq(Letters) /\ Len(Default) \in 1 .. MaxAlias
    BY DEF D!DiscoveryAssumption, D!Range, Letters
  <2>2. Default \in Seq(Chars) /\ Default[1] \in Letters
    BY <2>1 DEF Chars
  <2> QED
    BY <1>4, <1>8, <2>1, <2>2 DEF Valid, Base
<1>9. CASE out # <<>>
  <2>1. Len(out) \in Nat /\ Len(cut) \in Nat /\ Len(out) # 0
    BY <1>6, <1>7, <1>9 DEF Base
  <2>2. Len(out) \in 1 .. MaxAlias
    BY <1>5, <1>6, <1>7, <2>1
  <2> QED
    BY <1>4, <1>7, <1>9, <2>2 DEF Valid
<1> QED
  BY <1>8, <1>9

\* With a number after it an alias is one, if it gives way.
LEMMA CandidateValid ==
    ASSUME D!DiscoveryAssumption, NEW base, Valid(base), NEW n \in DOMAIN Number
    PROVE  /\ Valid(D!Candidate(base, n))
           /\ \E p \in Seq(Chars) : D!Candidate(base, n) = p \o <<"-">> \o Number[n]
<1> DEFINE k == MaxAlias - 1 - Len(Number[n])
           cut == D!Cut(base, k)
           p == D!TrimEnd(cut)
<1>1. Number[n] \in Seq(Letters) /\ Number[n] \in Seq(Chars) /\ Len(Number[n]) \in Nat
  <2>1. Number \in Seq(Seq(Letters))
    BY DEF D!DiscoveryAssumption, D!Range, Letters
  <2>2. Number[n] \in Seq(Letters)
    BY <2>1
  <2> QED
    BY <2>2 DEF Chars
<1>2. MaxAlias \in Nat /\ Len(Number[n]) + 2 <= MaxAlias
  BY DEF D!DiscoveryAssumption
<1>3. k \in Nat /\ k # 0 /\ k + 1 + Len(Number[n]) = MaxAlias
  BY <1>1, <1>2
<1>4. D!Candidate(base, n) = p \o <<"-">> \o Number[n]
  BY DEF D!Candidate
<1> HIDE DEF k
<1>5. Base(base) /\ base # <<>>
  BY DEF Valid, Base
<1>6. Base(cut) /\ Len(cut) <= k /\ cut # <<>>
  BY <1>3, <1>5, CutBase
<1> HIDE DEF cut
<1>7. Base(p) /\ Len(p) <= Len(cut) /\ p # <<>>
  BY <1>6, TrimBase
<1> HIDE DEF p
<1>8. p \in Seq(Chars) /\ p[1] \in Letters /\ Len(p) \in Nat /\ Len(cut) \in Nat /\ Len(p) # 0
  BY <1>6, <1>7 DEF Base
<1> DEFINE c == p \o <<"-">> \o Number[n]
<1>9. c \in Seq(Chars) /\ c[1] = p[1] /\ Len(c) = Len(p) + 1 + Len(Number[n])
  <2>1. <<"-">> \in Seq(Chars) /\ Len(<<"-">>) = 1
    BY DEF Chars
  <2> QED
    BY <1>1, <1>8, <2>1
<1> HIDE DEF c
<1>10. Len(c) \in 1 .. MaxAlias
  BY <1>1, <1>2, <1>3, <1>6, <1>7, <1>8, <1>9
<1>11. Valid(c)
  BY <1>8, <1>9, <1>10 DEF Valid, Base
<1> QED
  BY <1>4, <1>8, <1>11 DEF c

\* The number is what comes after the last dash.
LEMMA SuffixNotShorter ==
    ASSUME D!DiscoveryAssumption, NEW p \in Seq(Chars), NEW q \in Seq(Chars),
           NEW u \in Seq(Letters), NEW v \in Seq(Letters),
           p \o <<"-">> \o u = q \o <<"-">> \o v
    PROVE  Len(p) <= Len(q)
<1>1. u \in Seq(Chars) /\ v \in Seq(Chars) /\ <<"-">> \in Seq(Chars)
  <2>1. "-" \in Chars /\ Letters \subseteq Chars
    BY DEF Chars
  <2> QED
    BY <2>1
<1> DEFINE c == p \o <<"-">> \o u
           d == q \o <<"-">> \o v
<1>2. Len(c) = Len(p) + 1 + Len(u) /\ c[Len(p) + 1] = "-"
  BY <1>1
<1>3. Len(d) = Len(q) + 1 + Len(v) /\ \A i \in 1 .. Len(v) : d[Len(q) + 1 + i] = v[i]
  BY <1>1
<1>4. c = d
  OBVIOUS
<1>5. Len(p) \in Nat /\ Len(q) \in Nat /\ Len(u) \in Nat /\ Len(v) \in Nat
  OBVIOUS
<1> HIDE DEF c, d
<1> SUFFICES ASSUME Len(p) > Len(q) PROVE FALSE
  BY <1>5
<1> DEFINE i == Len(p) - Len(q)
<1>6. i \in 1 .. Len(v) /\ Len(q) + 1 + i = Len(p) + 1
  BY <1>2, <1>3, <1>4, <1>5
<1>7. v[i] = "-"
  <2>1. d[Len(q) + 1 + i] = v[i]
    <3> HIDE DEF i
    <3> QED
      BY <1>3, <1>6
  <2> QED
    BY <1>2, <1>4, <1>6, <2>1
<1>8. v[i] \in Letters
  <2> HIDE DEF i
  <2> QED
    BY <1>6
<1> QED
  BY <1>7, <1>8, NoDash

\* So candidates that are the same have the same number.
LEMMA SuffixSame ==
    ASSUME D!DiscoveryAssumption, NEW p \in Seq(Chars), NEW q \in Seq(Chars),
           NEW u \in Seq(Letters), NEW v \in Seq(Letters),
           p \o <<"-">> \o u = q \o <<"-">> \o v
    PROVE  u = v
<1>1. u \in Seq(Chars) /\ v \in Seq(Chars) /\ <<"-">> \in Seq(Chars)
  <2>1. "-" \in Chars /\ Letters \subseteq Chars
    BY DEF Chars
  <2> QED
    BY <2>1
<1>2. Len(p) = Len(q)
  <2>1. Len(p) <= Len(q)
    BY SuffixNotShorter
  <2>2. Len(q) <= Len(p)
    BY SuffixNotShorter
  <2> QED
    BY <2>1, <2>2
<1> DEFINE c == p \o <<"-">> \o u
           d == q \o <<"-">> \o v
<1>3. Len(c) = Len(p) + 1 + Len(u) /\ \A i \in 1 .. Len(u) : c[Len(p) + 1 + i] = u[i]
  BY <1>1
<1>4. Len(d) = Len(q) + 1 + Len(v) /\ \A i \in 1 .. Len(v) : d[Len(q) + 1 + i] = v[i]
  BY <1>1
<1>5. c = d
  OBVIOUS
<1> HIDE DEF c, d
<1>6. Len(u) = Len(v)
  BY <1>2, <1>3, <1>4, <1>5
<1>7. \A i \in 1 .. Len(u) : u[i] = v[i]
  BY <1>2, <1>3, <1>4, <1>5, <1>6
<1> QED
  BY <1>6, <1>7, SeqEqual

\* No two numbers make the same candidate.
LEMMA CandidatesDiffer ==
    ASSUME D!DiscoveryAssumption, NEW base, Valid(base),
           NEW m \in DOMAIN Number, NEW n \in DOMAIN Number,
           D!Candidate(base, m) = D!Candidate(base, n)
    PROVE  m = n
<1>1. \A k \in DOMAIN Number : Number[k] \in Seq(Letters)
  <2>1. Number \in Seq(Seq(Letters))
    BY DEF D!DiscoveryAssumption, D!Range, Letters
  <2> QED
    BY <2>1
<1>2. PICK p \in Seq(Chars) : D!Candidate(base, m) = p \o <<"-">> \o Number[m]
  BY CandidateValid
<1>3. PICK q \in Seq(Chars) : D!Candidate(base, n) = q \o <<"-">> \o Number[n]
  BY CandidateValid
<1>4. Number[m] = Number[n]
  <2>1. p \o <<"-">> \o Number[m] = q \o <<"-">> \o Number[n]
    BY <1>2, <1>3
  <2> QED
    BY <1>1, <2>1, SuffixSame
<1> QED
  BY <1>4 DEF D!DiscoveryAssumption, D!IsInjective

\* While there are more numbers than servers, one of them is free.
LEMMA UniqueValid ==
    ASSUME D!DiscoveryAssumption, NEW base, Valid(base),
           NEW taken, IsFiniteSet(taken), Cardinality(taken) + 1 < Len(Number)
    PROVE  Valid(D!unique_alias(base, taken)) /\ D!unique_alias(base, taken) \notin taken
<1>1. CASE base \notin taken
  BY <1>1 DEF D!unique_alias
<1>2. CASE base \in taken
  <2> DEFINE L == Len(Number)
             C == [n \in DOMAIN Number |-> D!Candidate(base, n)]
             free == {n \in DOMAIN C \ {1} : C[n] \notin taken}
  <2>1. L \in Nat /\ DOMAIN Number = 1 .. L
    BY DEF D!DiscoveryAssumption
  <2>2. free # {}
    <3> SUFFICES ASSUME free = {} PROVE FALSE
      OBVIOUS
    <3> DEFINE f == [n \in 2 .. L |-> D!Candidate(base, n)]
    <3>1. \A n \in 2 .. L : n \in DOMAIN Number /\ D!Candidate(base, n) \in taken
      <4>1. \A n \in 2 .. L : n \in DOMAIN C \ {1} /\ C[n] = D!Candidate(base, n)
        BY <2>1
      <4> QED
        BY <2>1, <4>1
    <3>2. f \in [2 .. L -> taken]
      BY <3>1
    <3>3. \A m, n \in 2 .. L : f[m] = f[n] => m = n
      BY <3>1, CandidatesDiffer
    <3> HIDE DEF f
    <3>4. f \in Injection(2 .. L, taken)
      BY <3>2, <3>3 DEF Injection, IsInjective
    <3>5. IsFiniteSet(2 .. L) /\ Cardinality(2 .. L) = IF 2 > L THEN 0 ELSE L - 2 + 1
      BY <2>1, FS_Interval
    <3>6. Cardinality(2 .. L) <= Cardinality(taken)
      BY <3>4, <3>5, FS_Injection
    <3>7. Cardinality(taken) \in Nat
      BY FS_CardinalityType
    <3> QED
      BY <2>1, <3>5, <3>6, <3>7
  <2>3. D!Min(free) \in free
    <3>1. free \subseteq Nat
      BY <2>1
    <3> HIDE DEF free
    <3>2. \E x \in free : \A y \in free : x <= y
      BY <2>2, <3>1, HasLeast
    <3> QED
      BY <3>2 DEF D!Min
  <2>4. D!unique_alias(base, taken) = C[D!Min(free)]
    BY <1>2 DEF D!unique_alias, D!FirstFree
  <2> DEFINE n == D!Min(free)
  <2>5. n \in DOMAIN Number /\ D!unique_alias(base, taken) = D!Candidate(base, n)
        /\ D!Candidate(base, n) \notin taken
    <3>1. \A k \in free : k \in DOMAIN Number /\ C[k] = D!Candidate(base, k) /\ C[k] \notin taken
      OBVIOUS
    <3> HIDE DEF free, C
    <3> QED
      BY <2>3, <2>4, <3>1
  <2> HIDE DEF n
  <2> QED
    BY <2>5, CandidateValid
<1> QED
  BY <1>1, <1>2

\* What discover makes of what it found.
Entries == [name : Seq(STRING), def : Def, dir : D!Range(File)]
Servers == [name : Seq(STRING), def : Def, dir : D!Range(File), alias : Seq(Chars)]

Aliased(d, given) ==
    [name |-> d.name, def |-> d.def, dir |-> d.dir,
     alias |-> D!unique_alias(D!sanitize_alias(d.name), {e.alias : e \in D!Range(given)})]

\* The function it is defined by.
NamedBy(g, list, n) ==
    g = [k \in 0 .. n |-> IF k = 0 THEN <<>> ELSE Append(g[k - 1], Aliased(list[k], g[k - 1]))]

\* There is one for every list.
LEMMA NamedExists ==
    ASSUME NEW list, NEW n \in Nat
    PROVE  \E g : NamedBy(g, list, n)
<1> DEFINE T == {k \in Nat : \E g : NamedBy(g, list, k)}
<1>1. 0 \in T
  <2> DEFINE g == [k \in 0 .. 0 |-> <<>>]
  <2>1. g = [k \in 0 .. 0 |-> IF k = 0 THEN <<>> ELSE Append(g[k - 1], Aliased(list[k], g[k - 1]))]
    OBVIOUS
  <2>2. NamedBy(g, list, 0)
    <3> HIDE DEF g
    <3> QED
      BY <2>1 DEF NamedBy
  <2> QED
    BY <2>2
<1>2. ASSUME NEW k \in Nat, k \in T
      PROVE  k + 1 \in T
  <2>1. PICK g : NamedBy(g, list, k)
    BY <1>2
  <2> DEFINE last == Append(g[k], Aliased(list[k + 1], g[k]))
             h == [i \in 0 .. k + 1 |-> IF i = k + 1 THEN last ELSE g[i]]
             e == [i \in 0 .. k + 1 |-> IF i = 0 THEN <<>>
                                        ELSE Append(h[i - 1], Aliased(list[i], h[i - 1]))]
  <2>2. ASSUME NEW i \in 0 .. k + 1
        PROVE  h[i] = e[i]
    <3>0. e[i] = IF i = 0 THEN <<>> ELSE Append(h[i - 1], Aliased(list[i], h[i - 1]))
      <4> HIDE DEF h
      <4> QED
        OBVIOUS
    <3>1. CASE i = k + 1
      <4>1. h[i] = last /\ h[i - 1] = g[k] /\ i # 0
        BY <3>1
      <4> HIDE DEF h, e
      <4> QED
        BY <3>0, <3>1, <4>1
    <3>2. CASE i # k + 1
      <4>1. i \in 0 .. k /\ h[i] = g[i]
        BY <3>2
      <4>2. g[i] = IF i = 0 THEN <<>> ELSE Append(g[i - 1], Aliased(list[i], g[i - 1]))
        BY <2>1, <4>1 DEF NamedBy
      <4>3. i # 0 => h[i - 1] = g[i - 1]
        BY <4>1
      <4> HIDE DEF h, e
      <4> QED
        BY <3>0, <4>1, <4>2, <4>3
    <3> QED
      BY <3>1, <3>2
  <2>3. h = e
    <3> HIDE DEF last
    <3>1. DOMAIN h = 0 .. k + 1 /\ DOMAIN e = 0 .. k + 1
      OBVIOUS
    <3> QED
      BY <2>2, <3>1
  <2>4. NamedBy(h, list, k + 1)
    <3> HIDE DEF h
    <3> QED
      BY <2>3 DEF NamedBy
  <2> QED
    BY <2>4
<1>3. \A k \in Nat : k \in T
  <2> HIDE DEF T
  <2> QED
    BY <1>1, <1>2, Induction
<1> QED
  BY <1>3

\* The first servers of a list with their aliases.
Told(l, list, k) ==
    /\ l \in Seq(Servers) /\ Len(l) = k
    /\ \A i \in 1 .. k : l[i].name = list[i].name /\ l[i].def = list[i].def
                         /\ l[i].dir = list[i].dir /\ Valid(l[i].alias)
    /\ \A i, j \in 1 .. k : i # j => l[i].alias # l[j].alias

\* One more keeps them apart.
LEMMA AliasedTold ==
    ASSUME D!DiscoveryAssumption, NEW list \in Seq(Entries), Len(list) <= Len(File) * Len(Name),
           NEW k \in Nat, k < Len(list), NEW l, Told(l, list, k)
    PROVE  Told(Append(l, Aliased(list[k + 1], l)), list, k + 1)
<1> DEFINE d == list[k + 1]
           taken == {e.alias : e \in D!Range(l)}
           a == D!unique_alias(D!sanitize_alias(d.name), taken)
<1>1. k + 1 \in 1 .. Len(list) /\ d \in Entries /\ Len(list) \in Nat
  OBVIOUS
<1>2. d.name \in Seq(STRING) /\ d.def \in Def /\ d.dir \in D!Range(File)
  BY <1>1 DEF Entries
<1>3. l \in Seq(Servers) /\ Len(l) = k /\ DOMAIN l = 1 .. k
  BY DEF Told
<1>4. taken = {l[i].alias : i \in 1 .. k}
  BY <1>3 DEF D!Range
<1>5. IsFiniteSet(taken) /\ Cardinality(taken) <= k
  <2>1. IsFiniteSet(1 .. k) /\ Cardinality(1 .. k) = k
    <3>1. 1 \in Int /\ k \in Int /\ (IF 1 > k THEN 0 ELSE k - 1 + 1) = k
      OBVIOUS
    <3> QED
      BY <3>1, FS_Interval
  <2> DEFINE f == [i \in 1 .. k |-> l[i].alias]
  <2>2. f \in Surjection(1 .. k, taken)
    BY <1>4 DEF Surjection
  <2> QED
    BY <2>1, <2>2, FS_Surjection
<1>6. Cardinality(taken) + 1 < Len(Number)
  <2>1. Len(Number) \in Nat /\ Len(File) * Len(Name) < Len(Number)
    BY DEF D!DiscoveryAssumption
  <2>2. Len(File) \in Nat /\ Len(Name) \in Nat
    BY DEF D!DiscoveryAssumption
  <2>3. Len(File) * Len(Name) \in Nat
    BY <2>2
  <2>4. Cardinality(taken) \in Nat
    BY <1>5, FS_CardinalityType
  <2> QED
    BY <1>1, <1>5, <2>1, <2>3, <2>4
<1> HIDE DEF taken
<1>7. Valid(a) /\ a \notin taken
  <2>1. Valid(D!sanitize_alias(d.name))
    BY <1>2, SanitizeValid
  <2> QED
    BY <1>5, <1>6, <2>1, UniqueValid
<1>8. Aliased(d, l) = [name |-> d.name, def |-> d.def, dir |-> d.dir, alias |-> a]
  BY DEF Aliased, taken
<1> HIDE DEF a
<1>9. a \in Seq(Chars)
  BY <1>7 DEF Valid, Base
<1> DEFINE s == Aliased(d, l)
           m == Append(l, s)
<1>10. /\ s \in Servers /\ s.name = d.name /\ s.def = d.def /\ s.dir = d.dir /\ s.alias = a
  BY <1>2, <1>8, <1>9 DEF Servers
<1> HIDE DEF s
<1>11. /\ m \in Seq(Servers) /\ Len(m) = k + 1 /\ m[k + 1] = s
       /\ \A i \in 1 .. k : m[i] = l[i]
  BY <1>3, <1>10
<1> HIDE DEF m
<1>12. \A i \in 1 .. k + 1 : i = k + 1 \/ i \in 1 .. k
  OBVIOUS
<1>13. ASSUME NEW i \in 1 .. k + 1
       PROVE  m[i].name = list[i].name /\ m[i].def = list[i].def
              /\ m[i].dir = list[i].dir /\ Valid(m[i].alias)
  BY <1>7, <1>10, <1>11, <1>12 DEF Told
<1>14. ASSUME NEW i \in 1 .. k
       PROVE  m[i].alias # a
  BY <1>4, <1>7, <1>11
<1>15. ASSUME NEW i \in 1 .. k + 1, NEW j \in 1 .. k + 1, i # j
       PROVE  m[i].alias # m[j].alias
  <2>1. CASE i \in 1 .. k /\ j \in 1 .. k
    BY <1>11, <1>15, <2>1 DEF Told
  <2>2. CASE i = k + 1 /\ j \in 1 .. k
    BY <1>10, <1>11, <1>14, <2>2
  <2>3. CASE j = k + 1 /\ i \in 1 .. k
    BY <1>10, <1>11, <1>14, <2>3
  <2> QED
    BY <1>12, <1>15, <2>1, <2>2, <2>3
<1> QED
  BY <1>11, <1>13, <1>15 DEF Told, m, s

\* So all the aliases of a list are valid and differ.
LEMMA NamedTold ==
    ASSUME D!DiscoveryAssumption, NEW list \in Seq(Entries), Len(list) <= Len(File) * Len(Name)
    PROVE  Told(D!Named(list), list, Len(list))
<1> DEFINE n == Len(list)
           f == CHOOSE g : NamedBy(g, list, n)
<1>1. n \in Nat
  OBVIOUS
<1>2. NamedBy(f, list, n)
  BY <1>1, NamedExists
<1>3. D!Named(list) = f[n]
  BY DEF D!Named, NamedBy, Aliased
<1> HIDE DEF f
<1> DEFINE T == {k \in Nat : k <= n => Told(f[k], list, k)}
<1>4. 0 \in T
  <2>1. f[0] = <<>>
    <3>1. 0 \in 0 .. n
      OBVIOUS
    <3> QED
      BY <1>2, <3>1 DEF NamedBy
  <2>2. Told(<<>>, list, 0)
    BY DEF Told
  <2> QED
    BY <2>1, <2>2
<1>5. ASSUME NEW k \in Nat, k \in T
      PROVE  k + 1 \in T
  <2> SUFFICES ASSUME k + 1 <= n PROVE Told(f[k + 1], list, k + 1)
    OBVIOUS
  <2>1. k < Len(list) /\ k + 1 \in 0 .. n /\ k + 1 # 0 /\ (k + 1) - 1 = k
    OBVIOUS
  <2>2. Told(f[k], list, k)
    BY <1>5
  <2>3. f[k + 1] = Append(f[k], Aliased(list[k + 1], f[k]))
    <3>1. f[k + 1] = IF k + 1 = 0 THEN <<>>
                     ELSE Append(f[(k + 1) - 1], Aliased(list[k + 1], f[(k + 1) - 1]))
      BY <1>2, <2>1 DEF NamedBy
    <3> QED
      BY <2>1, <3>1
  <2> QED
    BY <2>1, <2>2, <2>3, AliasedTold
<1>6. \A k \in Nat : k \in T
  <2> HIDE DEF T
  <2> QED
    BY <1>4, <1>5, Induction
<1> QED
  BY <1>3, <1>6

TablesOK == tables \in [DOMAIN File -> [DOMAIN Name -> Def \cup {None}]]

\* No more is found than there is room for in the files.
LEMMA FindsBounded ==
    ASSUME D!DiscoveryAssumption, TablesOK
    PROVE  D!Finds \in Seq(Entries) /\ Len(D!Finds) <= Len(File) * Len(Name)
<1> DEFINE entry(f, n) == [name |-> Name[n], def |-> tables[f][n], dir |-> File[f]]
           cell(f, n) == IF tables[f][n] = None THEN <<>> ELSE <<entry(f, n)>>
           row(f) == [n \in DOMAIN Name |-> cell(f, n)]
           rows == [f \in DOMAIN File |-> FlattenSeq(row(f))]
<1>1. D!Finds = FlattenSeq(rows)
  BY SameFlatten DEF D!Finds
<1>2. /\ Len(Name) \in Nat /\ DOMAIN Name = 1 .. Len(Name)
      /\ Len(File) \in Nat /\ DOMAIN File = 1 .. Len(File)
      /\ \A n \in DOMAIN Name : Name[n] \in Seq(STRING)
  BY DEF D!DiscoveryAssumption
<1>3. ASSUME NEW f \in DOMAIN File
      PROVE  FlattenSeq(row(f)) \in Seq(Entries) /\ Len(FlattenSeq(row(f))) <= Len(Name)
  <2>1. ASSUME NEW n \in DOMAIN Name
        PROVE  cell(f, n) \in Seq(Entries) /\ Len(cell(f, n)) <= 1
    <3>1. CASE tables[f][n] = None
      BY <3>1
    <3>2. CASE tables[f][n] # None
      <4>1. tables[f][n] \in Def /\ File[f] \in D!Range(File)
        BY <3>2 DEF TablesOK, D!Range
      <4>2. entry(f, n) \in Entries
        BY <1>2, <4>1 DEF Entries
      <4>3. cell(f, n) = <<entry(f, n)>>
        BY <3>2
      <4> HIDE DEF cell, entry
      <4> QED
        BY <4>2, <4>3
    <3> QED
      BY <3>1, <3>2
  <2> HIDE DEF cell
  <2>2. row(f) \in Lists(Entries, Len(Name)) /\ \A n \in 1 .. Len(Name) : Len(row(f)[n]) <= 1
    BY <1>2, <2>1 DEF Lists
  <2> HIDE DEF row
  <2>3. FlattenSeq(row(f)) \in Seq(Entries)
    BY <1>2, <2>2, FlattenType
  <2>4. Len(FlattenSeq(row(f))) <= Len(Name) * 1
    BY <1>2, <2>2, FlattenLen
  <2> QED
    BY <1>2, <2>3, <2>4
<1> HIDE DEF row
<1>4. rows \in Lists(Entries, Len(File)) /\ \A f \in 1 .. Len(File) : Len(rows[f]) <= Len(Name)
  BY <1>2, <1>3 DEF Lists
<1> HIDE DEF rows
<1>5. FlattenSeq(rows) \in Seq(Entries)
  BY <1>2, <1>4, FlattenType
<1>6. Len(FlattenSeq(rows)) <= Len(File) * Len(Name)
  BY <1>2, <1>4, FlattenLen
<1> QED
  BY <1>1, <1>5, <1>6

\* What is added once is no more than what was found.
LEMMA AddBounded ==
    ASSUME NEW all \in Seq(Entries)
    PROVE  D!add(all) \in Seq(Entries) /\ Len(D!add(all)) <= Len(all)
<1> DEFINE repeated(k) == \E j \in 1 .. k - 1 : all[j].name = all[k].name /\ all[j].def = all[k].def
           s == [k \in DOMAIN all |-> IF repeated(k) THEN <<>> ELSE <<all[k]>>]
           n == Len(all)
<1>1. D!add(all) = FlattenSeq(s)
  BY SameFlatten DEF D!add
<1> HIDE DEF repeated
<1>2. n \in Nat /\ DOMAIN all = 1 .. n
  OBVIOUS
<1>3. \A k \in 1 .. n : s[k] \in Seq(Entries) /\ Len(s[k]) <= 1
  <2> TAKE k \in 1 .. n
  <2>1. s[k] = <<>> \/ s[k] = <<all[k]>>
    BY <1>2
  <2>2. all[k] \in Entries
    OBVIOUS
  <2>3. <<all[k]>> \in Seq(Entries) /\ Len(<<all[k]>>) = 1
    BY <2>2
  <2>4. <<>> \in Seq(Entries) /\ Len(<<>>) = 0
    OBVIOUS
  <2> HIDE DEF s
  <2>5. CASE s[k] = <<>>
    BY <2>4, <2>5
  <2>6. CASE s[k] = <<all[k]>>
    BY <2>3, <2>6
  <2> QED
    BY <2>1, <2>5, <2>6
<1>4. s \in Lists(Entries, n)
  BY <1>2, <1>3 DEF Lists
<1> HIDE DEF s
<1>5. FlattenSeq(s) \in Seq(Entries)
  BY <1>2, <1>4, FlattenType
<1>6. Len(FlattenSeq(s)) <= n * 1
  BY <1>2, <1>3, <1>4, FlattenLen
<1> QED
  BY <1>1, <1>2, <1>5, <1>6

\* What was found, as the aliases are concerned.
FoundOK ==
    /\ found \in Seq(Servers)
    /\ \A i \in DOMAIN found : Valid(found[i].alias)
    /\ \A i, j \in DOMAIN found : i # j => found[i].alias # found[j].alias

\* What discover leaves has valid aliases, no two the same.
LEMMA DiscoverFinds ==
    ASSUME D!DiscoveryAssumption, TablesOK, D!discover
    PROVE  FoundOK'
<1> DEFINE list == D!add(D!Finds)
<1>1. list \in Seq(Entries) /\ Len(list) <= Len(File) * Len(Name)
  <2>1. D!Finds \in Seq(Entries) /\ Len(D!Finds) <= Len(File) * Len(Name)
    BY FindsBounded
  <2>2. list \in Seq(Entries) /\ Len(list) <= Len(D!Finds)
    BY <2>1, AddBounded
  <2>3. Len(File) \in Nat /\ Len(Name) \in Nat
    BY DEF D!DiscoveryAssumption
  <2>4. Len(File) * Len(Name) \in Nat
    BY <2>3
  <2>5. Len(list) \in Nat /\ Len(D!Finds) \in Nat
    BY <2>1, <2>2
  <2> HIDE DEF list
  <2> QED
    BY <2>1, <2>2, <2>4, <2>5
<1>2. found' = D!Named(list)
  BY DEF D!discover
<1> HIDE DEF list
<1>3. Told(D!Named(list), list, Len(list))
  BY <1>1, NamedTold
<1>4. Told(found', list, Len(list))
  BY <1>2, <1>3
<1>5. DOMAIN (found') = 1 .. Len(list)
  BY <1>4 DEF Told
<1> QED
  BY <1>4, <1>5 DEF Told, FoundOK

AliasInv == TablesOK /\ FoundOK

\* Nothing is found yet.
LEMMA AliasInit ==
    ASSUME D!DiscoveryAssumption, D!Init
    PROVE  AliasInv
BY DEF D!DiscoveryAssumption, D!Init, AliasInv, TablesOK, FoundOK

\* Only discover finds, a new run forgets, and the files stay of their kind.
LEMMA AliasNext ==
    ASSUME D!DiscoveryAssumption, AliasInv, [D!Next]_(D!vars)
    PROVE  AliasInv'
<1>1. CASE D!discover
  <2>1. FoundOK'
    BY <1>1, DiscoverFinds DEF AliasInv
  <2> QED
    BY <1>1, <2>1 DEF D!discover, AliasInv, TablesOK
<1>2. CASE D!Again
  BY <1>2 DEF D!Again, AliasInv, TablesOK, FoundOK
<1>3. CASE UNCHANGED <<tables, found>>
  BY <1>3 DEF AliasInv, TablesOK, FoundOK
<1>4. CASE D!PickNamed
  BY <1>3, <1>4 DEF D!PickNamed, D!Pick
<1>5. CASE D!PickAsked
  BY <1>3, <1>5 DEF D!PickAsked, D!Pick
<1>6. CASE D!AttachNext
  BY <1>3, <1>6 DEF D!AttachNext
<1>7. CASE D!Finish
  BY <1>3, <1>7 DEF D!Finish
<1>8. CASE UNCHANGED D!vars
  BY <1>3, <1>8 DEF D!vars
<1>9. CASE D!Edit
  BY <1>9 DEF D!Edit, D!DiscoveryAssumption, AliasInv, TablesOK, FoundOK
<1> QED
  BY <1>1, <1>2, <1>4, <1>5, <1>6, <1>7, <1>8, <1>9 DEF D!Next

\* The invariant says it.
LEMMA AliasInvFits ==
    ASSUME D!DiscoveryAssumption, AliasInv
    PROVE  AliasesFit
<1>1. D!Range(Kept) = Letters
  BY DEF D!Range, Letters
<1>2. ASSUME NEW d \in D!Range(found)
      PROVE  /\ Len(d.alias) \in 1 .. MaxAlias /\ d.alias[1] \in Letters
             /\ D!Range(d.alias) \subseteq Letters \cup {"-"}
  <2>1. Valid(d.alias)
    BY <1>2 DEF AliasInv, FoundOK, D!Range
  <2>2. d.alias \in Seq(Chars) /\ Len(d.alias) \in 1 .. MaxAlias /\ d.alias # <<>>
    BY <2>1 DEF Valid, Base
  <2>3. d.alias[1] \in Letters
    BY <2>1, <2>2 DEF Valid, Base
  <2>4. D!Range(d.alias) \subseteq Chars
    BY <2>2 DEF D!Range
  <2> QED
    BY <2>2, <2>3, <2>4 DEF Chars
<1>3. \A i, j \in DOMAIN found : i # j => found[i].alias # found[j].alias
  BY DEF AliasInv, FoundOK
<1> QED
  BY <1>1, <1>2, <1>3 DEF AliasesFit, D!AliasesFit

\* Whatever the files of other tools call their servers and however many there
\* are, every alias `discover` gives is one that attach accepts, and no two
\* servers get the same.
THEOREM AliasesAlwaysFit == D!Spec => []AliasesFit
<1> USE DiscoveryPart
<1>1. D!Init => AliasInv
  BY AliasInit
<1>2. AliasInv /\ [D!Next]_(D!vars) => AliasInv'
  BY AliasNext
<1>3. AliasInv => AliasesFit
  BY AliasInvFits
<1> QED
  BY <1>1, <1>2, <1>3, PTL DEF D!Spec

\* Each once is still each.
LEMMA OnceElements ==
    ASSUME NEW S, NEW s \in Seq(S)
    PROVE  /\ D!Once(s) \in Seq(S)
           /\ \A i \in DOMAIN D!Once(s) : \E j \in DOMAIN s : D!Once(s)[i] = s[j]
           /\ \A j \in DOMAIN s : \E i \in DOMAIN D!Once(s) : D!Once(s)[i] = s[j]
<1> DEFINE again(i) == \E j \in 1 .. i - 1 : s[j] = s[i]
           t == [i \in DOMAIN s |-> IF again(i) THEN <<>> ELSE <<s[i]>>]
           n == Len(s)
           f == FlattenSeq(t)
<1>1. D!Once(s) = f
  BY SameFlatten DEF D!Once
<1>2. n \in Nat /\ DOMAIN s = 1 .. n
  OBVIOUS
<1>3. \A k \in 1 .. n : (again(k) /\ t[k] = <<>>) \/ (~again(k) /\ t[k] = <<s[k]>>)
  <2> HIDE DEF again
  <2> QED
    BY <1>2
<1>4. t \in Lists(S, n)
  <2>1. \A k \in 1 .. n : t[k] \in Seq(S)
    <3> TAKE k \in 1 .. n
    <3>1. <<s[k]>> \in Seq(S) /\ <<>> \in Seq(S)
      BY <1>2
    <3> HIDE DEF t
    <3>2. CASE t[k] = <<>>
      BY <3>1, <3>2
    <3>3. CASE t[k] = <<s[k]>>
      BY <3>1, <3>3
    <3> QED
      BY <1>3, <3>2, <3>3
  <2>2. t = [i \in 1 .. n |-> t[i]]
    BY <1>2
  <2> HIDE DEF t
  <2> QED
    BY <2>1, <2>2 DEF Lists
<1> HIDE DEF t
<1>5. f \in Seq(S)
  BY <1>2, <1>4, FlattenType
<1>6. /\ \A j \in 1 .. Len(f) : \E i \in 1 .. n : \E k \in 1 .. Len(t[i]) : f[j] = t[i][k]
      /\ \A i \in 1 .. n : \A k \in 1 .. Len(t[i]) : \E j \in 1 .. Len(f) : f[j] = t[i][k]
  <2>1. n \in Nat
    BY <1>2
  <2>2. \A j \in 1 .. Len(FlattenSeq(t)) :
           \E i \in 1 .. n : \E k \in 1 .. Len(t[i]) : FlattenSeq(t)[j] = t[i][k]
    <3> HIDE DEF n
    <3> QED
      BY <1>4, <2>1, FlattenElements
  <2>3. \A i \in 1 .. n : \A k \in 1 .. Len(t[i]) :
           \E j \in 1 .. Len(FlattenSeq(t)) : FlattenSeq(t)[j] = t[i][k]
    <3> HIDE DEF n
    <3> QED
      BY <1>4, <2>1, FlattenElements
  <2> QED
    BY <2>2, <2>3
<1> HIDE DEF f
<1>7. ASSUME NEW j \in 1 .. Len(f)
      PROVE  \E i \in 1 .. n : f[j] = s[i]
  <2>1. PICK i \in 1 .. n : \E k \in 1 .. Len(t[i]) : f[j] = t[i][k]
    BY <1>6
  <2>2. t[i] = <<s[i]>>
    <3>1. CASE t[i] = <<>>
      BY <2>1, <3>1
    <3> QED
      BY <1>3, <3>1
  <2>3. Len(<<s[i]>>) = 1 /\ <<s[i]>>[1] = s[i]
    OBVIOUS
  <2> QED
    BY <2>1, <2>2, <2>3
<1>8. ASSUME NEW i \in 1 .. n
      PROVE  \E j \in 1 .. Len(f) : f[j] = s[i]
  <2> DEFINE same == {j \in 1 .. n : s[j] = s[i]}
  <2>1. same \subseteq Nat /\ i \in same
    OBVIOUS
  <2>2. PICK k \in same : \A j \in same : k <= j
    <3> HIDE DEF same
    <3> QED
      BY <2>1, HasLeast
  <2>3. k \in 1 .. n /\ s[k] = s[i] /\ ~again(k)
    BY <2>2
  <2>4. t[k] = <<s[k]>>
    <3> HIDE DEF again
    <3> QED
      BY <1>3, <2>3
  <2>5. 1 \in 1 .. Len(t[k]) /\ t[k][1] = s[k]
    BY <2>4
  <2> HIDE DEF same, again
  <2> QED
    BY <1>6, <2>3, <2>5
<1>9. DOMAIN f = 1 .. Len(f)
  BY <1>5
<1> QED
  BY <1>1, <1>2, <1>5, <1>7, <1>8, <1>9

\* What the user's word for a server means, when `servers` were found.
Means(servers, w, d) ==
    \/ d.alias = w
    \/ d.name = w /\ \A e \in D!Range(servers) \ {d} :
                         e.alias # w /\ (e.name = w => ~D!Attachable(e))

\* What a name is resolved to is what it means.
LEMMA ResolveMeans ==
    ASSUME FoundOK, NEW w, NEW d \in D!resolve(w)
    PROVE  d \in D!Range(found) /\ D!Attachable(d) /\ Means(found, w, d)
<1> DEFINE all == D!Range(found)
           aliased == {e \in all : e.alias = w}
           named == {e \in all : e.name = w /\ D!Attachable(e)}
<1>1. D!resolve(w) = CASE aliased # {} -> {e \in aliased : D!Attachable(e)}
                       [] aliased = {} /\ Cardinality(named) = 1 -> named
                       [] OTHER -> {}
  BY DEF D!resolve
<1>5. IsFiniteSet(all)
  <2> DEFINE n == Len(found)
  <2>1. n \in Nat /\ DOMAIN found = 1 .. n
    BY DEF FoundOK
  <2>2. found \in Surjection(1 .. n, all)
    <3>1. found \in [1 .. n -> all]
      BY <2>1 DEF FoundOK, D!Range
    <3> QED
      BY <2>1, <3>1 DEF Surjection, D!Range
  <2>3. IsFiniteSet(1 .. n)
    BY <2>1, FS_Interval
  <2> QED
    BY <2>2, <2>3, FS_Surjection
<1> HIDE DEF all
<1>2. CASE aliased # {}
  <2>1. D!resolve(w) = {e \in aliased : D!Attachable(e)}
    <3> HIDE DEF aliased, named
    <3> QED
      BY <1>1, <1>2
  <2> QED
    BY <2>1 DEF Means, all
<1>3. CASE aliased = {} /\ Cardinality(named) = 1
  <2>1. D!resolve(w) = named
    <3> HIDE DEF aliased, named
    <3> QED
      BY <1>1, <1>3
  <2>2. PICK x : named = {x}
    <3> HIDE DEF named
    <3>1. IsFiniteSet(named)
      <4>1. named \subseteq all
        BY DEF named
      <4> HIDE DEF named
      <4> QED
        BY <1>5, <4>1, FS_Subset
    <3> QED
      BY <1>3, <3>1, FS_Singleton
  <2>3. d \in all /\ d.name = w /\ D!Attachable(d)
    BY <2>1
  <2>4. ASSUME NEW e \in all \ {d}
        PROVE  e.alias # w /\ (e.name = w => ~D!Attachable(e))
    BY <1>3, <2>1, <2>2
  <2> QED
    BY <2>3, <2>4 DEF Means, all
<1>4. CASE aliased = {} /\ Cardinality(named) # 1
  <2>1. D!resolve(w) = {}
    <3> HIDE DEF aliased, named
    <3> QED
      BY <1>1, <1>4
  <2> QED
    BY <2>1
<1> QED
  BY <1>2, <1>3, <1>4

\* What config.toml may hold: what it held, and what was found.
Had == UNION {D!Range(b) : b \in Before}
Entered == {D!Entry(d) : d \in Servers}
Held == Had \cup Entered

\* A server the user asked for, in a run that found `servers`.
Wanted(servers, what, d) ==
    d \in D!Range(servers) /\ D!Attachable(d) /\ \E w \in what : Means(servers, w, d)

\* The run attached this server, or its alias was in use before.
Settled(then, now, d) ==
    \/ \E i \in DOMAIN now : i > Len(then) /\ now[i] = D!Entry(d)
    \/ \E i \in DOMAIN then : then[i].alias = d.alias

\* One the user asked for is about to be attached, or is settled.
Served(servers, left, then, now, w) ==
    \E d \in D!Range(servers) :
        /\ Means(servers, w, d)
        /\ (\E k \in DOMAIN left : left[k] = d) \/ Settled(then, now, d)

AttachTyped ==
    /\ AliasInv
    /\ cfg \in Seq(Held) /\ before \in Seq(Held) /\ picked \in Seq(Servers)
    /\ pc \in {"start", "pick", "attach", "done"}

Grown ==
    /\ Len(before) <= Len(cfg)
    /\ \A i \in 1 .. Len(before) : cfg[i] = before[i]
    /\ \A i, j \in DOMAIN cfg : i # j /\ i > Len(before) => cfg[i].alias # cfg[j].alias
    /\ \A i \in DOMAIN cfg : i > Len(before) =>
         \E d \in D!Range(found) : Wanted(found, chosen, d) /\ D!Entry(d) = cfg[i]

AttachInv ==
    /\ AttachTyped /\ Grown
    /\ pc \in {"start", "pick"} => cfg = before /\ picked = <<>>
    /\ \A k \in DOMAIN picked : Wanted(found, chosen, picked[k])
    /\ pc \in {"attach", "done"} => \A w \in chosen : Served(found, picked, before, cfg, w)
    /\ pc = "done" => picked = <<>>

\* Nothing is picked yet.
LEMMA AttachInit ==
    ASSUME D!DiscoveryAssumption, D!Init
    PROVE  AttachInv
<1>1. AliasInv
  BY AliasInit
<1>2. cfg \in Seq(Held)
  <2>1. cfg \in Before /\ cfg \in Seq(D!Range(cfg))
    BY DEF D!DiscoveryAssumption, D!Init
  <2>2. D!Range(cfg) \subseteq Held
    BY <2>1 DEF Held, Had
  <2>3. cfg \in [1 .. Len(cfg) -> D!Range(cfg)] /\ Len(cfg) \in Nat
    BY <2>1
  <2>4. cfg \in [1 .. Len(cfg) -> Held]
    <3> HIDE DEF Held
    <3> QED
      BY <2>2, <2>3
  <2> QED
    BY <2>3, <2>4
<1>3. before = cfg /\ picked = <<>> /\ pc = "start"
  BY DEF D!Init
<1>4. AttachTyped
  BY <1>1, <1>2, <1>3 DEF AttachTyped
<1>5. Grown
  BY <1>2, <1>3 DEF Grown
<1> QED
  BY <1>3, <1>4, <1>5 DEF AttachInv

\* A selection is one when every server of it was asked for, and it has one for all.
LEMMA PickOK ==
    ASSUME AttachInv, pc = "pick", NEW servers \in Seq(Servers), NEW what,
           \A k \in DOMAIN servers : Wanted(found, what, servers[k]),
           \A w \in what : \E k \in DOMAIN servers : Means(found, w, servers[k]),
           D!Pick(servers, what)
    PROVE  AttachInv'
<1>1. /\ picked' = servers /\ chosen' = what /\ pc' = "attach"
      /\ tables' = tables /\ found' = found /\ cfg' = cfg /\ before' = before
  BY DEF D!Pick
<1>2. AliasInv'
  BY <1>1 DEF AttachInv, AttachTyped, AliasInv, TablesOK, FoundOK
<1>3. AttachTyped'
  BY <1>1, <1>2 DEF AttachInv, AttachTyped
<1>4. cfg = before
  BY DEF AttachInv
<1>5. Grown'
  BY <1>1, <1>3, <1>4 DEF AttachTyped, Grown
<1>6. \A k \in DOMAIN picked' : Wanted(found', chosen', picked'[k])
  BY <1>1
<1>7. ASSUME NEW w \in chosen'
      PROVE  Served(found', picked', before', cfg', w)
  <2>1. PICK k \in DOMAIN servers : Means(found, w, servers[k])
    BY <1>1, <1>7
  <2>2. servers[k] \in D!Range(found)
    BY DEF Wanted
  <2> QED
    BY <1>1, <2>1, <2>2 DEF Served
<1> QED
  BY <1>1, <1>3, <1>5, <1>6, <1>7 DEF AttachInv

\* Discovery attaches nothing.
LEMMA AttachDiscover ==
    ASSUME D!DiscoveryAssumption, AttachInv, D!discover
    PROVE  AttachInv'
<1>1. AliasInv'
  BY AliasNext DEF AttachInv, AttachTyped, D!Next
<1>2. /\ pc = "start" /\ pc' = "pick" /\ cfg' = cfg /\ before' = before
      /\ chosen' = chosen /\ picked' = picked
  BY DEF D!discover
<1>3. cfg = before /\ picked = <<>>
  BY <1>2 DEF AttachInv
<1>4. AttachTyped'
  BY <1>1, <1>2 DEF AttachInv, AttachTyped
<1>5. Grown'
  BY <1>2, <1>3, <1>4 DEF AttachTyped, Grown
<1> QED
  BY <1>2, <1>3, <1>4, <1>5 DEF AttachInv

\* Bounded sequences are sequences.
LEMMA BoundedIsSeq ==
    ASSUME NEW S, NEW n, NEW s \in D!BoundedSeq(S, n)
    PROVE  s \in Seq(S)
<1>1. PICK m \in 0 .. n : s \in [1 .. m -> S]
  BY DEF D!BoundedSeq, D!SeqOf
<1> QED
  BY <1>1

\* What was found are servers.
LEMMA FoundRange ==
    ASSUME AliasInv
    PROVE  D!Range(found) \subseteq Servers
BY DEF AliasInv, FoundOK, D!Range

\* Servers named are servers asked for.
LEMMA AttachNamed ==
    ASSUME D!DiscoveryAssumption, AttachInv, D!PickNamed
    PROVE  AttachInv'
<1> DEFINE words == {d.alias : d \in D!Range(found)} \cup D!Range(Name)
<1>1. PICK wanted \in D!BoundedSeq(words, MaxPicks) :
        /\ \A i \in DOMAIN wanted : D!resolve(wanted[i]) # {}
        /\ D!Pick(D!Once([i \in DOMAIN wanted |-> CHOOSE d \in D!resolve(wanted[i]) : TRUE]),
                  D!Range(wanted))
  BY DEF D!PickNamed
<1> HIDE DEF words
<1>2. wanted \in Seq(words)
  BY BoundedIsSeq
<1> DEFINE each == [i \in DOMAIN wanted |-> CHOOSE d \in D!resolve(wanted[i]) : TRUE]
           what == D!Range(wanted)
           once == D!Once(each)
<1>3. ASSUME NEW i \in DOMAIN wanted
      PROVE  /\ each[i] \in Servers /\ each[i] \in D!Range(found) /\ D!Attachable(each[i])
             /\ Means(found, wanted[i], each[i])
  <2>1. each[i] \in D!resolve(wanted[i])
    BY <1>1
  <2> HIDE DEF each
  <2>2. FoundOK /\ AliasInv
    BY DEF AttachInv, AttachTyped, AliasInv
  <2>3. each[i] \in D!Range(found) /\ D!Attachable(each[i]) /\ Means(found, wanted[i], each[i])
    BY <2>1, <2>2, ResolveMeans
  <2> QED
    BY <2>2, <2>3, FoundRange
<1>4. DOMAIN each = DOMAIN wanted /\ each \in Seq(Servers)
  <2>1. DOMAIN wanted = 1 .. Len(wanted) /\ Len(wanted) \in Nat
    BY <1>2
  <2>2. each = [i \in 1 .. Len(wanted) |-> each[i]]
    BY <2>1
  <2> HIDE DEF each
  <2> QED
    BY <1>3, <2>1, <2>2
<1> HIDE DEF each
<1>5. /\ once \in Seq(Servers)
      /\ \A i \in DOMAIN once : \E j \in DOMAIN each : once[i] = each[j]
      /\ \A j \in DOMAIN each : \E i \in DOMAIN once : once[i] = each[j]
  BY <1>4, OnceElements
<1>6. D!Pick(once, what)
  BY <1>1 DEF each
<1> HIDE DEF once
<1>7. \A k \in DOMAIN once : Wanted(found, what, once[k])
  BY <1>3, <1>4, <1>5 DEF Wanted, D!Range
<1>8. \A w \in what : \E k \in DOMAIN once : Means(found, w, once[k])
  BY <1>3, <1>4, <1>5 DEF D!Range
<1>9. pc = "pick"
  BY DEF D!PickNamed
<1> HIDE DEF what
<1> QED
  BY <1>5, <1>6, <1>7, <1>8, <1>9, PickOK

\* Servers numbered are servers offered.
LEMMA AttachAsked ==
    ASSUME D!DiscoveryAssumption, AttachInv, D!PickAsked
    PROVE  AttachInv'
<1> DEFINE cell(i) == IF D!Attachable(found[i]) THEN <<found[i]>> ELSE <<>>
           t == [i \in DOMAIN found |-> cell(i)]
           offered == FlattenSeq(t)
           n == Len(found)
<1>1. PICK numbers \in D!BoundedSeq(0 .. Len(offered) + 1, MaxPicks) :
        LET numbered == D!parse_selection(numbers, Len(offered)) IN
        /\ numbered # <<0>>
        /\ D!Pick([i \in DOMAIN numbered |-> offered[numbered[i]]],
                  {offered[numbered[i]].alias : i \in DOMAIN numbered})
  <2>1. D!FlattenSeq(t) = offered
    BY SameFlatten
  <2> QED
    BY <2>1 DEF D!PickAsked
<1>2. n \in Nat /\ DOMAIN found = 1 .. n /\ \A i \in 1 .. n : found[i] \in Servers
  BY DEF AttachInv, AttachTyped, AliasInv, FoundOK
<1>3. \A i \in 1 .. n : \/ t[i] = <<found[i]>> /\ D!Attachable(found[i])
                        \/ t[i] = <<>>
  BY <1>2
<1>4. t \in Lists(Servers, n)
  <2>1. ASSUME NEW i \in 1 .. n
        PROVE  t[i] \in Seq(Servers)
    <3>1. <<found[i]>> \in Seq(Servers) /\ <<>> \in Seq(Servers)
      BY <1>2
    <3> HIDE DEF t
    <3>2. CASE t[i] = <<>>
      BY <3>1, <3>2
    <3>3. CASE t[i] = <<found[i]>>
      BY <3>1, <3>3
    <3> QED
      BY <1>3, <3>2, <3>3
  <2>2. t = [i \in 1 .. n |-> t[i]]
    BY <1>2
  <2> HIDE DEF t
  <2> QED
    BY <2>1, <2>2 DEF Lists
<1> HIDE DEF t
<1>5. offered \in Seq(Servers)
  BY <1>2, <1>4, FlattenType
<1>6. \A j \in 1 .. Len(offered) : \E i \in 1 .. n : \E k \in 1 .. Len(t[i]) : offered[j] = t[i][k]
  <2>1. n \in Nat
    BY <1>2
  <2> HIDE DEF n
  <2> QED
    BY <1>4, <2>1, FlattenElements
<1> HIDE DEF offered
<1>7. ASSUME NEW j \in 1 .. Len(offered)
      PROVE  offered[j] \in Servers /\ offered[j] \in D!Range(found) /\ D!Attachable(offered[j])
  <2>1. PICK i \in 1 .. n : \E k \in 1 .. Len(t[i]) : offered[j] = t[i][k]
    BY <1>6
  <2>2. t[i] = <<found[i]>> /\ D!Attachable(found[i])
    <3>1. CASE t[i] = <<>>
      BY <2>1, <3>1
    <3> QED
      BY <1>3, <3>1
  <2>3. Len(<<found[i]>>) = 1 /\ <<found[i]>>[1] = found[i]
    OBVIOUS
  <2>4. offered[j] = found[i]
    BY <2>1, <2>2, <2>3
  <2> QED
    BY <1>2, <2>2, <2>4 DEF D!Range
<1> DEFINE numbered == D!parse_selection(numbers, Len(offered))
           servers == [i \in DOMAIN numbered |-> offered[numbered[i]]]
           what == {offered[numbered[i]].alias : i \in DOMAIN numbered}
<1>8. numbered # <<0>> /\ D!Pick(servers, what)
  BY <1>1
<1>9. numbered = D!Once(numbers) /\ numbers \in Seq(1 .. Len(offered))
  <2>1. numbers \in Seq(0 .. Len(offered) + 1)
    BY BoundedIsSeq
  <2>2. \A i \in DOMAIN numbers : numbers[i] \in 1 .. Len(offered)
    BY <1>8 DEF D!parse_selection
  <2> QED
    BY <1>8, <2>1, <2>2 DEF D!parse_selection
<1>10. /\ numbered \in Seq(1 .. Len(offered))
  BY <1>9, OnceElements
<1> HIDE DEF numbered
<1>11. servers \in Seq(Servers) /\ DOMAIN servers = DOMAIN numbered
  <2>1. Len(numbered) \in Nat /\ DOMAIN numbered = 1 .. Len(numbered)
    BY <1>10
  <2>2. \A i \in 1 .. Len(numbered) : offered[numbered[i]] \in Servers
    BY <1>7, <1>10
  <2> QED
    BY <2>1, <2>2
<1>12. ASSUME NEW k \in DOMAIN servers
       PROVE  /\ servers[k] \in D!Range(found) /\ D!Attachable(servers[k])
              /\ servers[k].alias \in what /\ Means(found, servers[k].alias, servers[k])
  <2>1. k \in DOMAIN numbered /\ servers[k] = offered[numbered[k]] /\ numbered[k] \in 1 .. Len(offered)
    BY <1>10, <1>11
  <2> QED
    BY <1>7, <2>1 DEF Means
<1>13. \A w \in what : \E k \in DOMAIN servers : Means(found, w, servers[k])
  BY <1>11 DEF Means
<1> HIDE DEF what, servers
<1>14. \A k \in DOMAIN servers : Wanted(found, what, servers[k])
  BY <1>12 DEF Wanted
<1>15. pc = "pick"
  BY DEF D!PickAsked
<1> QED
  BY <1>8, <1>11, <1>13, <1>14, <1>15, PickOK

\* The config may hold any server.
LEMMA HeldEntry ==
    ASSUME NEW e \in Servers
    PROVE  D!Entry(e) \in Held
<1>1. D!Entry(e) \in Entered
  BY Zenon DEF Entered
<1> QED
  BY <1>1 DEF Held

\* The next one is attached, unless its alias is.
LEMMA AttachOne ==
    ASSUME AttachInv, D!AttachNext
    PROVE  AttachInv'
<1> DEFINE d == Head(picked)
           had == \E s \in D!Range(cfg) : s.alias = d.alias
<1>1. /\ pc = "attach" /\ picked # <<>> /\ picked' = Tail(picked)
      /\ cfg' = IF had THEN cfg ELSE Append(cfg, D!Entry(d))
      /\ tables' = tables /\ found' = found /\ before' = before /\ pc' = pc /\ chosen' = chosen
  BY DEF D!AttachNext
<1>2. /\ AliasInv /\ cfg \in Seq(Held) /\ before \in Seq(Held) /\ picked \in Seq(Servers)
  BY DEF AttachInv, AttachTyped
<1>3. /\ Len(picked) \in Nat \ {0} /\ DOMAIN picked = 1 .. Len(picked) /\ 1 \in DOMAIN picked
      /\ d = picked[1] /\ Tail(picked) \in Seq(Servers)
      /\ Len(Tail(picked)) = Len(picked) - 1
      /\ \A k \in 1 .. Len(picked) - 1 : Tail(picked)[k] = picked[k + 1]
  BY <1>1, <1>2
<1>4. d \in Servers /\ Wanted(found, chosen, d)
  BY <1>2, <1>3 DEF AttachInv
<1> HIDE DEF d
<1>5. D!Entry(d) \in Held /\ D!Entry(d).alias = d.alias
  <2>1. D!Entry(d) \in Held
    BY <1>4, HeldEntry
  <2>2. D!Entry(d).alias = d.alias
    BY DEF D!Entry
  <2> QED
    BY <2>1, <2>2
<1>6. Len(cfg) \in Nat /\ DOMAIN cfg = 1 .. Len(cfg) /\ Len(before) \in Nat
  BY <1>2
<1>7. /\ cfg' \in Seq(Held) /\ Len(cfg) <= Len(cfg')
      /\ \A i \in 1 .. Len(cfg) : cfg'[i] = cfg[i]
      /\ \E i \in DOMAIN cfg' : cfg'[i].alias = d.alias
      /\ DOMAIN cfg' = 1 .. Len(cfg')
      /\ \/ cfg' = cfg
         \/ /\ Len(cfg') = Len(cfg) + 1 /\ cfg'[Len(cfg) + 1] = D!Entry(d)
            /\ \A i \in 1 .. Len(cfg) : cfg[i].alias # d.alias
  <2>1. CASE had
    <3>1. cfg' = cfg
      BY <1>1, <2>1
    <3> QED
      BY <1>2, <1>6, <2>1, <3>1 DEF D!Range
  <2>2. CASE ~had
    <3>1. cfg' = Append(cfg, D!Entry(d))
      BY <1>1, <2>2
    <3>2. \A i \in 1 .. Len(cfg) : cfg[i].alias # d.alias
      BY <1>6, <2>2 DEF D!Range
    <3>3. /\ cfg' \in Seq(Held) /\ Len(cfg') = Len(cfg) + 1 /\ cfg'[Len(cfg) + 1] = D!Entry(d)
          /\ \A i \in 1 .. Len(cfg) : cfg'[i] = cfg[i]
      BY <1>2, <1>5, <1>6, <3>1
    <3>4. Len(cfg) + 1 \in DOMAIN cfg' /\ DOMAIN cfg' = 1 .. Len(cfg')
      BY <1>6, <3>3
    <3> QED
      BY <1>5, <1>6, <3>2, <3>3, <3>4
  <2> QED
    BY <2>1, <2>2
<1> HIDE DEF had
<1>8. AttachTyped'
  BY <1>1, <1>2, <1>3, <1>7 DEF AttachInv, AttachTyped, AliasInv, TablesOK, FoundOK
<1>9. Grown'
  <2>1. Grown
    BY DEF AttachInv
  <2>2. CASE cfg' = cfg
    BY <1>1, <2>1, <2>2 DEF Grown
  <2>3. CASE /\ Len(cfg') = Len(cfg) + 1 /\ cfg'[Len(cfg) + 1] = D!Entry(d)
             /\ \A i \in 1 .. Len(cfg) : cfg[i].alias # d.alias
    <3>1. Len(before') <= Len(cfg') /\ \A i \in 1 .. Len(before') : cfg'[i] = before'[i]
      <4>1. Len(before) <= Len(cfg) /\ \A i \in 1 .. Len(before) : cfg[i] = before[i]
        BY <2>1 DEF Grown
      <4>2. Len(before) <= Len(cfg')
        BY <1>6, <2>3, <4>1
      <4>3. ASSUME NEW i \in 1 .. Len(before)
            PROVE  cfg'[i] = before[i]
        <5>1. i \in 1 .. Len(cfg)
          BY <1>6, <4>1
        <5> QED
          BY <1>7, <4>1, <5>1
      <4> QED
        BY <1>1, <4>2, <4>3
    <3>2. ASSUME NEW i \in DOMAIN cfg', NEW j \in DOMAIN cfg', i # j, i > Len(before')
          PROVE  cfg'[i].alias # cfg'[j].alias
      <4>1. i \in 1 .. Len(cfg) \/ (i = Len(cfg) + 1 /\ cfg'[i].alias = d.alias)
        BY <1>5, <1>6, <1>7, <2>3
      <4>2. j \in 1 .. Len(cfg) \/ (j = Len(cfg) + 1 /\ cfg'[j].alias = d.alias)
        BY <1>5, <1>6, <1>7, <2>3
      <4>3. i \in 1 .. Len(cfg) => cfg'[i] = cfg[i]
        BY <1>7
      <4>4. j \in 1 .. Len(cfg) => cfg'[j] = cfg[j]
        BY <1>7
      <4>5. i \in 1 .. Len(cfg) /\ j \in 1 .. Len(cfg) => cfg[i].alias # cfg[j].alias
        BY <1>1, <1>6, <2>1, <3>2 DEF Grown
      <4> QED
        BY <2>3, <3>2, <4>1, <4>2, <4>3, <4>4, <4>5
    <3>3. ASSUME NEW i \in DOMAIN cfg', i > Len(before')
          PROVE  \E e \in D!Range(found') : Wanted(found', chosen', e) /\ D!Entry(e) = cfg'[i]
      <4>1. CASE i \in 1 .. Len(cfg)
        <5>1. cfg'[i] = cfg[i] /\ i \in DOMAIN cfg /\ i > Len(before)
          BY <1>1, <1>6, <1>7, <3>3, <4>1
        <5> QED
          BY <1>1, <2>1, <5>1 DEF Grown
      <4>2. CASE i = Len(cfg) + 1
        BY <1>1, <1>4, <2>3, <4>2 DEF Wanted
      <4> QED
        BY <1>6, <1>7, <2>3, <4>1, <4>2
    <3> QED
      BY <3>1, <3>2, <3>3 DEF Grown
  <2> QED
    BY <1>7, <2>2, <2>3
<1>10. \A k \in DOMAIN picked' : Wanted(found', chosen', picked'[k])
  <2> TAKE k \in DOMAIN picked'
  <2>1. k \in 1 .. Len(picked) - 1 /\ picked'[k] = picked[k + 1] /\ k + 1 \in DOMAIN picked
    BY <1>1, <1>3
  <2> QED
    BY <1>1, <2>1 DEF AttachInv
<1>11. Settled(before', cfg', d)
  <2>1. CASE cfg' = Append(cfg, D!Entry(d))
    <3>1. Len(cfg) + 1 \in DOMAIN cfg' /\ cfg'[Len(cfg) + 1] = D!Entry(d)
      BY <1>2, <1>5, <1>6, <2>1
    <3>2. Len(cfg) + 1 > Len(before')
      <4>1. Len(before) <= Len(cfg)
        BY DEF AttachInv, Grown
      <4> QED
        BY <1>1, <1>6, <4>1
    <3> QED
      BY <3>1, <3>2 DEF Settled
  <2>2. CASE cfg' = cfg
    <3>1. PICK i \in DOMAIN cfg : cfg[i].alias = d.alias
      BY <1>7, <2>2
    <3>2. CASE i > Len(before)
      <4>1. PICK e \in D!Range(found) : D!Entry(e) = cfg[i]
        BY <3>2 DEF AttachInv, Grown
      <4>2. e.alias = d.alias
        BY <3>1, <4>1 DEF D!Entry
      <4>3. e = d
        BY <1>2, <1>4, <4>2 DEF Wanted, AliasInv, FoundOK, D!Range
      <4> QED
        BY <1>1, <2>2, <3>2, <4>1, <4>3 DEF Settled
    <3>3. CASE ~(i > Len(before))
      <4>1. i \in 1 .. Len(before)
        BY <1>6, <3>3
      <4>2. cfg[i] = before[i] /\ i \in DOMAIN before
        BY <1>2, <4>1 DEF AttachInv, Grown
      <4> QED
        BY <1>1, <3>1, <4>2 DEF Settled
    <3> QED
      BY <3>2, <3>3
  <2> QED
    BY <1>1, <2>1, <2>2
<1>12. ASSUME NEW w \in chosen'
       PROVE  Served(found', picked', before', cfg', w)
  <2>1. Served(found, picked, before, cfg, w)
    BY <1>1, <1>12 DEF AttachInv
  <2>2. PICK e \in D!Range(found) :
           /\ Means(found, w, e)
           /\ (\E k \in DOMAIN picked : picked[k] = e) \/ Settled(before, cfg, e)
    BY <2>1 DEF Served
  <2>3. (\E k \in DOMAIN picked' : picked'[k] = e) \/ Settled(before', cfg', e)
    <3>1. CASE \E i \in DOMAIN before : before[i].alias = e.alias
      BY <1>1, <3>1 DEF Settled
    <3>2. CASE \E i \in DOMAIN cfg : i > Len(before) /\ cfg[i] = D!Entry(e)
      <4>1. PICK i \in 1 .. Len(cfg) : i > Len(before) /\ cfg[i] = D!Entry(e)
        BY <1>6, <3>2
      <4>2. i \in 1 .. Len(cfg')
        <5>1. cfg' \in Seq(Held) /\ Len(cfg) <= Len(cfg')
          BY <1>7
        <5>2. Len(cfg') \in Nat
          BY <5>1
        <5> QED
          BY <1>6, <4>1, <5>1, <5>2
      <4>3. cfg'[i] = cfg[i] /\ i \in DOMAIN cfg'
        BY <1>7, <4>1, <4>2
      <4> QED
        BY <1>1, <4>1, <4>3 DEF Settled
    <3>3. CASE \E k \in DOMAIN picked : picked[k] = e
      <4>1. PICK k \in DOMAIN picked : picked[k] = e
        BY <3>3
      <4>2. CASE k = 1
        BY <1>3, <1>11, <4>1, <4>2
      <4>3. CASE k # 1
        <5>1. k - 1 \in DOMAIN picked' /\ (k - 1) + 1 = k /\ k - 1 \in 1 .. Len(picked) - 1
          BY <1>1, <1>3, <4>3
        <5> QED
          BY <1>1, <1>3, <4>1, <5>1
      <4> QED
        BY <4>2, <4>3
    <3> QED
      BY <2>2, <3>1, <3>2, <3>3 DEF Settled
  <2> QED
    BY <1>1, <2>2, <2>3 DEF Served
<1> QED
  BY <1>1, <1>8, <1>9, <1>10, <1>12 DEF AttachInv

\* A run ends with nothing left, or leaves what it has attached to the next, for
\* which the files may have changed.
LEMMA AttachRest ==
    ASSUME D!DiscoveryAssumption, AttachInv, D!Finish \/ D!Again \/ D!Edit \/ UNCHANGED D!vars
    PROVE  AttachInv'
<1>1. CASE D!Finish
  <2>1. /\ tables' = tables /\ found' = found /\ cfg' = cfg /\ before' = before
        /\ chosen' = chosen /\ picked' = picked /\ pc = "attach" /\ pc' = "done" /\ picked = <<>>
    BY <1>1 DEF D!Finish
  <2> QED
    BY <2>1 DEF AttachInv, AttachTyped, Grown, AliasInv, TablesOK, FoundOK
<1>2. CASE D!Again
  <2>1. /\ tables' = tables /\ found' = <<>> /\ cfg' = cfg /\ before' = cfg
        /\ chosen' = {} /\ picked' = <<>> /\ pc' = "start"
    BY <1>2 DEF D!Again
  <2>2. AttachTyped'
    <3>1. <<>> \in Seq(Servers)
      OBVIOUS
    <3> QED
      BY <2>1, <3>1 DEF AttachInv, AttachTyped, AliasInv, TablesOK, FoundOK
  <2>3. Grown'
    BY <2>1, <2>2 DEF AttachTyped, Grown
  <2> QED
    BY <2>1, <2>2, <2>3 DEF AttachInv
<1>3. CASE UNCHANGED D!vars
  BY <1>3 DEF D!vars, AttachInv, AttachTyped, Grown, AliasInv, TablesOK, FoundOK
<1>4. CASE D!Edit
  <2>1. AliasInv'
    BY <1>4, AliasNext DEF D!Next, AttachInv, AttachTyped
  <2>2. UNCHANGED <<found, cfg, before, pc, chosen, picked>>
    BY <1>4 DEF D!Edit
  <2> QED
    BY <2>1, <2>2 DEF AttachInv, AttachTyped, Grown
<1> QED
  BY <1>1, <1>2, <1>3, <1>4

\* The invariant says it.
LEMMA AttachInvMeans ==
    ASSUME AttachInv
    PROVE  AttachesWhatWasAsked
<1> DEFINE all == D!Range(found)
           means(w, d) == d.alias = w \/ (d.name = w /\ \A e \in all \ {d} :
                                             e.alias # w /\ (e.name = w => ~D!Attachable(e)))
<1>1. \A w, d : means(w, d) <=> Means(found, w, d)
  BY DEF Means
<1> HIDE DEF means
<1>2. /\ cfg \in Seq(Held) /\ before \in Seq(Held) /\ Grown
  BY DEF AttachInv, AttachTyped
<1>3. D!IsPrefix(before, cfg)
  <2>1. SubSeq(before, 1, Len(before)) = before
    BY <1>2
  <2>2. Len(before) \in Nat /\ Len(cfg) \in Nat /\ Len(before) <= Len(cfg)
    BY <1>2 DEF Grown
  <2>3. SubSeq(cfg, 1, Len(before)) \in Seq(Held) /\ Len(SubSeq(cfg, 1, Len(before))) = Len(before)
        /\ \A i \in 1 .. Len(before) : SubSeq(cfg, 1, Len(before))[i] = before[i]
    BY <1>2, <2>2 DEF Grown
  <2>4. SubSeq(cfg, 1, Len(before)) = before
    BY <1>2, <2>3
  <2> QED
    BY <2>1, <2>2, <2>4 DEF D!IsPrefix
<1>4. \A i, j \in DOMAIN cfg : i # j /\ i > Len(before) => cfg[i].alias # cfg[j].alias
  BY <1>2 DEF Grown
<1>5. ASSUME NEW i \in Len(before) + 1 .. Len(cfg)
      PROVE  \E d \in all, w \in chosen : D!Entry(d) = cfg[i] /\ D!Attachable(d) /\ means(w, d)
  <2>1. i \in DOMAIN cfg /\ i > Len(before)
    BY <1>2
  <2> QED
    BY <1>1, <1>2, <2>1 DEF Grown, Wanted
<1>6. ASSUME pc = "done", NEW w \in chosen
      PROVE  \E d \in all :
                /\ means(w, d)
                /\ \/ D!Entry(d) \in {cfg[i] : i \in Len(before) + 1 .. Len(cfg)}
                   \/ \E s \in D!Range(before) : s.alias = d.alias
  <2>1. Served(found, picked, before, cfg, w) /\ picked = <<>>
    BY <1>6 DEF AttachInv
  <2>2. PICK d \in all : Means(found, w, d) /\ Settled(before, cfg, d)
    BY <2>1 DEF Served
  <2>3. CASE \E i \in DOMAIN cfg : i > Len(before) /\ cfg[i] = D!Entry(d)
    <3>1. PICK i \in DOMAIN cfg : i > Len(before) /\ cfg[i] = D!Entry(d)
      BY <2>3
    <3>2. i \in Len(before) + 1 .. Len(cfg)
      BY <1>2, <3>1
    <3> QED
      BY <1>1, <2>2, <3>1, <3>2
  <2>4. CASE \E i \in DOMAIN before : before[i].alias = d.alias
    BY <1>1, <2>2, <2>4 DEF D!Range
  <2> QED
    BY <2>2, <2>3, <2>4 DEF Settled
<1> QED
  BY <1>3, <1>4, <1>5, <1>6 DEF AttachesWhatWasAsked, D!AttachesWhatWasAsked, means

\* Whatever was found, whatever is named or numbered, wherever a run of `up` fails
\* and is repeated, and whatever other tools change in their files in between:
\* nothing but what the user asked for is attached, as this run found it, nothing
\* attached gives way, and a run that ends well has attached all of it but the
\* servers whose alias was in use.
THEOREM AttachedAsAsked == D!Spec => []AttachesWhatWasAsked
<1> USE DiscoveryPart
<1>1. D!Init => AttachInv
  BY AttachInit
<1>2. AttachInv /\ [D!Next]_(D!vars) => AttachInv'
  BY AttachDiscover, AttachNamed, AttachAsked, AttachOne, AttachRest DEF D!Next
<1>3. AttachInv => AttachesWhatWasAsked
  BY AttachInvMeans
<1> QED
  BY <1>1, <1>2, <1>3, PTL DEF D!Spec

-----------------------------------------------------------------------------
\* The decoder of event streams.

\* The provers do not see that the last two are strings.
Tokens == STRING \cup {"lf", "cr"}

\* What a body is made of, and how each line of it was written.
Lines == [text : Line, eol : Eol]
Written(x) == x.text \o x.eol
Whole(b) == [i \in 1 .. Len(b) |-> Written(b[i])]
Body(b) == b \in Seq(Lines)

\* Where its first k lines end.
EndOf(b, k) == Len(FlattenSeq(Upto(Whole(b), k)))

\* A sequence over a set is one over a larger set.
LEMMA SeqWithin ==
    ASSUME NEW S, NEW T, S \subseteq T, NEW s \in Seq(S)
    PROVE  s \in Seq(T)
OBVIOUS

\* A line is text and an ending.
LEMMA LineTyped ==
    ASSUME E!EventStreamAssumption, NEW x \in Lines
    PROVE  /\ x.text \in Seq(Tokens) /\ x.eol \in {<<"lf">>, <<"cr", "lf">>}
           /\ \A i \in 1 .. Len(x.text) : x.text[i] # "lf"
           /\ x.text # <<>> => x.text[Len(x.text)] # "cr"
           /\ Written(x) \in Seq(Tokens) /\ Len(Written(x)) \in Nat \ {0}
<1>1. x.text \in Line /\ x.eol \in Eol
  BY DEF Lines
<1>2. x.text \in Seq(Tokens) /\ x.eol \in {<<"lf">>, <<"cr", "lf">>}
  <2>1. x.text \in Seq(STRING) /\ x.eol \in {<<"lf">>, <<"cr", "lf">>}
    BY <1>1 DEF E!EventStreamAssumption
  <2>2. STRING \subseteq Tokens
    BY DEF Tokens
  <2>3. x.text \in Seq(Tokens)
    BY <2>1, <2>2, SeqWithin
  <2> QED
    BY <2>1, <2>3
<1>3. \A i \in 1 .. Len(x.text) : x.text[i] # "lf"
  BY <1>1 DEF E!EventStreamAssumption, E!Contains
<1>4. x.text # <<>> => x.text[Len(x.text)] # "cr"
  BY <1>1 DEF E!EventStreamAssumption, E!Last
<1>5. x.eol \in Seq(Tokens) /\ Len(x.eol) \in {1, 2}
  <2>0. "lf" \in Tokens /\ "cr" \in Tokens
    BY DEF Tokens
  <2>1. <<"lf">> \in Seq(Tokens) /\ <<"cr", "lf">> \in Seq(Tokens)
    BY <2>0
  <2>2. Len(<<"lf">>) = 1 /\ Len(<<"cr", "lf">>) = 2
    OBVIOUS
  <2>3. CASE x.eol = <<"lf">>
    BY <2>1, <2>2, <2>3
  <2>4. CASE x.eol = <<"cr", "lf">>
    BY <2>1, <2>2, <2>4
  <2> QED
    BY <1>2, <2>3, <2>4
<1>6. Written(x) \in Seq(Tokens) /\ Len(Written(x)) \in Nat \ {0}
  <2> DEFINE a == x.text
             c == x.eol
  <2>1. a \in Seq(Tokens) /\ c \in Seq(Tokens) /\ Len(c) \in {1, 2}
    BY <1>2, <1>5
  <2>2. Written(x) = a \o c
    BY DEF Written
  <2> HIDE DEF a, c
  <2> QED
    BY <2>1, <2>2
<1> QED
  BY <1>2, <1>3, <1>4, <1>6

\* A line feed ends a line and is nowhere else in it, and what stands before it
\* is the text, with or without a carriage return.
LEMMA LineEnds ==
    ASSUME E!EventStreamAssumption, NEW x \in Lines
    PROVE  /\ \A i \in 1 .. Len(Written(x)) : Written(x)[i] = "lf" <=> i = Len(Written(x))
           /\ E!Chomp(SubSeq(Written(x), 1, Len(Written(x)) - 1)) = x.text
<1> DEFINE t == x.text
           n == Len(t)
<1>1. /\ t \in Seq(Tokens) /\ x.eol \in {<<"lf">>, <<"cr", "lf">>}
      /\ \A i \in 1 .. n : t[i] # "lf"
      /\ t # <<>> => t[n] # "cr"
      /\ Written(x) = t \o x.eol /\ n \in Nat
  <2>1. x.text \in Seq(Tokens) /\ x.eol \in {<<"lf">>, <<"cr", "lf">>}
    BY LineTyped
  <2>2. \A i \in 1 .. Len(x.text) : x.text[i] # "lf"
    BY LineTyped
  <2>3. x.text # <<>> => x.text[Len(x.text)] # "cr"
    BY LineTyped
  <2> QED
    BY <2>1, <2>2, <2>3 DEF Written
<1> HIDE DEF t
<1>2. CASE x.eol = <<"lf">>
  <2> DEFINE w == t \o <<"lf">>
  <2>1. Len(w) = n + 1 /\ w[n + 1] = "lf" /\ \A i \in 1 .. n : w[i] = t[i]
    BY <1>1
  <2>2. SubSeq(w, 1, n) = t
    BY <1>1
  <2>3. \A i \in 1 .. Len(w) : w[i] = "lf" <=> i = Len(w)
    BY <1>1, <2>1
  <2>4. E!Chomp(t) = t
    BY <1>1 DEF E!Chomp, E!Last
  <2>5. Written(x) = w /\ Len(w) - 1 = n
    BY <1>1, <1>2, <2>1
  <2> HIDE DEF w
  <2> QED
    BY <2>2, <2>3, <2>4, <2>5 DEF t
<1>3. CASE x.eol = <<"cr", "lf">>
  <2> DEFINE w == t \o <<"cr", "lf">>
  <2>1. Len(w) = n + 2 /\ w[n + 1] = "cr" /\ w[n + 2] = "lf" /\ \A i \in 1 .. n : w[i] = t[i]
    BY <1>1
  <2>2. SubSeq(w, 1, n + 1) = Append(t, "cr")
    BY <1>1, <2>1
  <2>3. \A i \in 1 .. Len(w) : w[i] = "lf" <=> i = Len(w)
    BY <1>1, <2>1
  <2>4. E!Chomp(Append(t, "cr")) = t
    <3> DEFINE u == Append(t, "cr")
    <3>1. u \in Seq(Tokens) /\ u # <<>> /\ Len(u) = n + 1 /\ u[n + 1] = "cr" /\ SubSeq(u, 1, n) = t
      <4>0. "cr" \in Tokens
        BY DEF Tokens
      <4>1. u \in Seq(Tokens) /\ Len(u) = n + 1 /\ u[n + 1] = "cr"
        BY <1>1, <4>0
      <4>2. SubSeq(u, 1, n) = t
        BY <1>1
      <4> HIDE DEF u
      <4> QED
        BY <1>1, <4>1, <4>2
    <3>2. Len(u) - 1 = n
      BY <1>1, <3>1
    <3> HIDE DEF u
    <3>3. E!Chomp(u) = t
      BY <3>1, <3>2 DEF E!Chomp, E!Last, E!Front
    <3> QED
      BY <3>3 DEF u
  <2>5. Written(x) = w /\ Len(w) - 1 = n + 1
    BY <1>1, <1>3, <2>1
  <2> HIDE DEF w
  <2> QED
    BY <2>2, <2>3, <2>4, <2>5 DEF t
<1> QED
  BY <1>1, <1>2, <1>3

\* So is every line of a body.
LEMMA WholeTyped ==
    ASSUME E!EventStreamAssumption, NEW b, Body(b)
    PROVE  /\ Len(b) \in Nat /\ Whole(b) \in Lists(Tokens, Len(b))
           /\ \A i \in 1 .. Len(b) : b[i] \in Lines /\ Whole(b)[i] = Written(b[i])
<1>1. Len(b) \in Nat /\ \A i \in 1 .. Len(b) : b[i] \in Lines
  BY DEF Body
<1>2. \A i \in 1 .. Len(b) : Written(b[i]) \in Seq(Tokens)
  BY <1>1, LineTyped
<1> QED
  BY <1>1, <1>2 DEF Whole, Lists

\* The ends of the lines, one after another.
LEMMA EndStep ==
    ASSUME E!EventStreamAssumption, NEW b, Body(b), NEW k \in Nat, k < Len(b)
    PROVE  /\ EndOf(b, k) \in Nat
           /\ EndOf(b, k + 1) = EndOf(b, k) + Len(Written(b[k + 1]))
           /\ Len(Written(b[k + 1])) \in Nat \ {0}
<1> DEFINE s == Whole(b)
           n == Len(b)
<1>1. n \in Nat /\ s \in Lists(Tokens, n) /\ k + 1 \in 1 .. n /\ b[k + 1] \in Lines
      /\ s[k + 1] = Written(b[k + 1])
  BY WholeTyped
<1> HIDE DEF s, n
<1>2. k < n
  BY DEF n
<1>3. /\ FlattenSeq(Upto(s, k + 1)) = FlattenSeq(Upto(s, k)) \o s[k + 1]
      /\ FlattenSeq(Upto(s, k)) \in Seq(Tokens) /\ s[k + 1] \in Seq(Tokens)
  BY <1>1, <1>2, FlattenNext
<1>4. Len(FlattenSeq(Upto(s, k + 1))) = Len(FlattenSeq(Upto(s, k))) + Len(s[k + 1])
      /\ Len(FlattenSeq(Upto(s, k))) \in Nat
  BY <1>3
<1>5. Len(Written(b[k + 1])) \in Nat \ {0}
  BY <1>1, LineTyped
<1> QED
  BY <1>1, <1>4, <1>5 DEF EndOf, s

\* None of its lines end at the beginning.
LEMMA EndFirst ==
    ASSUME NEW b
    PROVE  EndOf(b, 0) = 0
BY FlattenNone DEF EndOf

\* They end somewhere.
LEMMA EndTyped ==
    ASSUME E!EventStreamAssumption, NEW b, Body(b), NEW k \in Nat, k <= Len(b)
    PROVE  EndOf(b, k) \in Nat
<1>1. Len(b) \in Nat
  BY DEF Body
<1>2. CASE k = Len(b)
  <2>1. CASE k = 0
    BY <2>1, EndFirst
  <2>2. CASE k # 0
    <3>1. k - 1 \in Nat /\ k - 1 < Len(b) /\ (k - 1) + 1 = k
      BY <1>1, <1>2, <2>2
    <3>2. /\ EndOf(b, k - 1) \in Nat
          /\ EndOf(b, (k - 1) + 1) = EndOf(b, k - 1) + Len(Written(b[(k - 1) + 1]))
          /\ Len(Written(b[(k - 1) + 1])) \in Nat \ {0}
      BY <3>1, EndStep
    <3> QED
      BY <3>1, <3>2
  <2> QED
    BY <2>1, <2>2
<1>3. CASE k < Len(b)
  BY <1>3, EndStep
<1> QED
  BY <1>1, <1>2, <1>3

\* Later lines end later.
LEMMA EndsGrow ==
    ASSUME E!EventStreamAssumption, NEW b, Body(b), NEW k \in 0 .. Len(b), NEW m \in 0 .. Len(b), k <= m
    PROVE  EndOf(b, k) \in Nat /\ EndOf(b, m) \in Nat /\ EndOf(b, k) <= EndOf(b, m)
<1> DEFINE n == Len(b)
           T == {j \in Nat : j <= n => EndOf(b, j) \in Nat /\ (k <= j => EndOf(b, k) <= EndOf(b, j))}
<1>0. n \in Nat
  BY DEF Body
<1>1. 0 \in T
  BY <1>0, EndFirst
<1>2. ASSUME NEW j \in Nat, j \in T
      PROVE  j + 1 \in T
  <2> SUFFICES ASSUME j + 1 <= n
               PROVE  EndOf(b, j + 1) \in Nat /\ (k <= j + 1 => EndOf(b, k) <= EndOf(b, j + 1))
    OBVIOUS
  <2>1. j < n
    BY <1>0
  <2>2. /\ EndOf(b, j) \in Nat
        /\ EndOf(b, j + 1) = EndOf(b, j) + Len(Written(b[j + 1]))
        /\ Len(Written(b[j + 1])) \in Nat \ {0}
    BY <2>1, EndStep
  <2>3. EndOf(b, j + 1) \in Nat /\ EndOf(b, j) <= EndOf(b, j + 1)
    BY <2>2
  <2>4. CASE k <= j
    <3>1. EndOf(b, k) <= EndOf(b, j) /\ k <= n /\ k \in Nat
      BY <1>0, <1>2, <2>1, <2>4
    <3>2. EndOf(b, k) \in Nat
      BY <3>1, EndTyped
    <3> QED
      BY <2>2, <2>3, <3>1, <3>2
  <2>5. CASE k = j + 1
    BY <2>3, <2>5
  <2> QED
    BY <1>0, <2>3, <2>4, <2>5
<1>3. \A j \in Nat : j \in T
  <2> HIDE DEF T
  <2> QED
    BY <1>1, <1>2, Induction
<1> QED
  BY <1>0, <1>3

\* The value of a field is part of the line.
LEMMA ValueTyped ==
    ASSUME NEW l \in Seq(Tokens)
    PROVE  E!Value(l) \in Seq(Tokens)
<1> DEFINE J == {i \in 1 .. Len(l) : l[i] = ":"}
           c == E!SelectInSeq(l, LAMBDA t : t = ":")
           rest == IF E!Contains(l, ":") THEN SubSeq(l, c + 1, Len(l)) ELSE <<>>
<1>1. rest \in Seq(Tokens)
  <2>1. CASE E!Contains(l, ":")
    <3>1. J # {} /\ J \subseteq Nat
      BY <2>1 DEF E!Contains
    <3>2. c = E!Min(J)
      BY <3>1 DEF E!SelectInSeq
    <3>3. E!Min(J) \in J
      <4> HIDE DEF J
      <4>1. \E x \in J : \A y \in J : x <= y
        BY <3>1, HasLeast
      <4> QED
        BY <4>1 DEF E!Min
    <3>4. c \in 1 .. Len(l)
      BY <3>2, <3>3
    <3> HIDE DEF c
    <3> QED
      BY <2>1, <3>4
  <2> QED
    BY <2>1
<1>2. E!Value(l) = IF rest # <<>> /\ Head(rest) = " " THEN Tail(rest) ELSE rest
  BY DEF E!Value
<1> HIDE DEF rest
<1>3. rest # <<>> => Tail(rest) \in Seq(Tokens)
  BY <1>1
<1> QED
  BY <1>1, <1>2, <1>3


\* The data of a body's lines, as the module says it of the body.
Says(l) == IF E!Field(l) = <<"data">> THEN <<"lf">> \o E!Value(l) ELSE <<>>
Blank(b, k) == {j \in 1 .. k : b[j].text = <<>>}
Saying(b, k) == [j \in 1 .. k |-> IF \E i \in Blank(b, k) : j <= i THEN <<>> ELSE Says(b[j].text)]
Pay(b, k) == FlattenSeq(Saying(b, k))
Event(b, k) == IF k \in Blank(b, k) /\ Pay(b, k - 1) # <<>> THEN <<Tail(Pay(b, k - 1))>> ELSE <<>>
Evented(b, n) == [k \in 1 .. n |-> Event(b, k)]
Exp(b, n) == FlattenSeq(Evented(b, n))

\* They are the definitions of the module.
LEMMA PayloadIs ==
    ASSUME NEW k
    PROVE  E!Payload(k) = Pay(body, k)
BY SameFlatten DEF E!Payload, E!Blanks, Pay, Saying, Blank, Says

\* And what is expected is the same.
LEMMA ExpectedIs == E!Expected = Exp(body, E!WholeLines)
BY SameFlatten, PayloadIs DEF E!Expected, E!Blanks, Exp, Evented, Event, Blank

\* What a line says are tokens.
LEMMA SaysTyped ==
    ASSUME E!EventStreamAssumption, NEW x \in Lines
    PROVE  Says(x.text) \in Seq(Tokens)
<1>1. x.text \in Seq(Tokens)
  BY LineTyped
<1>2. E!Value(x.text) \in Seq(Tokens)
  BY <1>1, ValueTyped
<1>3. "lf" \in Tokens
  BY DEF Tokens
<1>4. <<"lf">> \in Seq(Tokens)
  BY <1>3
<1>5. <<"lf">> \o E!Value(x.text) \in Seq(Tokens)
  BY <1>2, <1>4
<1>6. <<>> \in Seq(Tokens)
  OBVIOUS
<1> QED
  BY <1>5, <1>6 DEF Says

\* So is what all of them say.
LEMMA SayingTyped ==
    ASSUME E!EventStreamAssumption, NEW b, Body(b), NEW k \in Nat, k <= Len(b)
    PROVE  Saying(b, k) \in Lists(Tokens, k) /\ Pay(b, k) \in Seq(Tokens)
<1>1. \A j \in 1 .. k : Says(b[j].text) \in Seq(Tokens)
  <2> TAKE j \in 1 .. k
  <2>1. b[j] \in Lines
    BY DEF Body
  <2> QED
    BY <2>1, SaysTyped
<1>2. <<>> \in Seq(Tokens)
  OBVIOUS
<1>3. Saying(b, k) \in Lists(Tokens, k)
  BY <1>1, <1>2 DEF Saying, Lists
<1> QED
  BY <1>3, FlattenType DEF Pay

\* No lines say nothing.
LEMMA PayFirst ==
    ASSUME NEW b
    PROVE  Pay(b, 0) = <<>> /\ Exp(b, 0) = <<>>
<1>1. Saying(b, 0) = Upto(Saying(b, 0), 0) /\ Evented(b, 0) = Upto(Evented(b, 0), 0)
  BY DEF Saying, Evented, Upto
<1> QED
  BY <1>1, FlattenNone DEF Pay, Exp

\* A blank line forgets, another line adds what it says.
LEMMA PayStep ==
    ASSUME E!EventStreamAssumption, NEW b, Body(b), NEW k \in Nat, k < Len(b)
    PROVE  /\ b[k + 1].text = <<>> => Pay(b, k + 1) = <<>>
           /\ b[k + 1].text # <<>> => Pay(b, k + 1) = Pay(b, k) \o Says(b[k + 1].text)
<1> DEFINE s == Saying(b, k + 1)
           n == k + 1
<1>1. n \in Nat /\ n <= Len(b) /\ n \in 1 .. n /\ k < n /\ Len(b) \in Nat
  BY DEF Body
<1>2. s \in Lists(Tokens, n)
  BY <1>1, SayingTyped
<1>3. CASE b[k + 1].text = <<>>
  <2>1. n \in Blank(b, n)
    BY <1>1, <1>3 DEF Blank
  <2>2. \A j \in 1 .. n : s[j] = <<>>
    BY <1>1, <2>1 DEF Saying
  <2>3. \A j \in 1 .. n : Len(s[j]) <= 0
    BY <2>2
  <2> HIDE DEF s, n
  <2>4. Len(FlattenSeq(s)) <= n * 0 /\ FlattenSeq(s) \in Seq(Tokens)
    BY <1>1, <1>2, <2>3, FlattenLen, FlattenType
  <2>5. FlattenSeq(s) = <<>>
    BY <1>1, <2>4
  <2> QED
    BY <1>3, <2>5 DEF Pay, s, n
<1>4. CASE b[k + 1].text # <<>>
  <2>1. Blank(b, n) = Blank(b, k)
    <3>1. \A j : j \in 1 .. n <=> (j \in 1 .. k \/ j = k + 1)
      OBVIOUS
    <3> QED
      BY <1>4, <3>1 DEF Blank
  <2>2. \A i \in Blank(b, k) : i \in 1 .. k
    BY DEF Blank
  <2>3. Upto(s, k) = Saying(b, k)
    <3>1. \A j \in 1 .. k : s[j] = Saying(b, k)[j]
      BY <2>1 DEF Saying
    <3> QED
      BY <3>1 DEF Upto, Saying
  <2>4. s[k + 1] = Says(b[k + 1].text)
    <3>1. ~\E i \in Blank(b, n) : n <= i
      BY <2>1, <2>2
    <3> QED
      BY <1>1, <3>1 DEF Saying
  <2>5. Upto(s, n) = s
    BY DEF Upto, Saying
  <2> HIDE DEF s
  <2>6. FlattenSeq(Upto(s, k + 1)) = FlattenSeq(Upto(s, k)) \o s[k + 1]
    <3> HIDE DEF n
    <3> QED
      BY <1>1, <1>2, FlattenNext
  <2> QED
    BY <1>4, <2>3, <2>4, <2>5, <2>6 DEF Pay, s
<1> QED
  BY <1>3, <1>4

\* A line adds its event, if it ends one.
LEMMA ExpStep ==
    ASSUME E!EventStreamAssumption, NEW b, Body(b), NEW k \in Nat, k < Len(b)
    PROVE  /\ Exp(b, k) \in Seq(Seq(Tokens))
           /\ Exp(b, k + 1) = Exp(b, k) \o Event(b, k + 1)
<1> DEFINE s == Evented(b, k + 1)
           n == k + 1
<1>1. n \in Nat /\ n <= Len(b) /\ k < n /\ k <= n /\ Len(b) \in Nat
  BY DEF Body
<1>2. \A j \in 1 .. n : Event(b, j) \in Seq(Seq(Tokens))
  <2> TAKE j \in 1 .. n
  <2>1. j - 1 \in Nat /\ j - 1 <= Len(b)
    BY <1>1
  <2> DEFINE p == Pay(b, j - 1)
  <2>2. p \in Seq(Tokens)
    BY <2>1, SayingTyped
  <2> HIDE DEF p
  <2>3. p # <<>> => Tail(p) \in Seq(Tokens)
    BY <2>2
  <2>4. p # <<>> => <<Tail(p)>> \in Seq(Seq(Tokens))
    BY <2>3
  <2>5. <<>> \in Seq(Seq(Tokens))
    OBVIOUS
  <2>6. Event(b, j) = IF j \in Blank(b, j) /\ p # <<>> THEN <<Tail(p)>> ELSE <<>>
    BY DEF Event, p
  <2> QED
    BY <2>4, <2>5, <2>6
<1>3. s \in Lists(Seq(Tokens), n)
  BY <1>2 DEF Evented, Lists
<1>4. Upto(s, k) = Evented(b, k) /\ Upto(s, n) = s /\ s[k + 1] = Event(b, k + 1)
  BY <1>1 DEF Upto, Evented
<1> HIDE DEF s, n
<1>5. /\ FlattenSeq(Upto(s, k + 1)) = FlattenSeq(Upto(s, k)) \o s[k + 1]
      /\ FlattenSeq(Upto(s, k)) \in Seq(Seq(Tokens))
  BY <1>1, <1>3, FlattenNext
<1> QED
  BY <1>4, <1>5 DEF Exp, s, n

\* What a line more does not change.
LEMMA SameBefore ==
    ASSUME NEW b, Body(b), NEW x, NEW c, c = Append(b, x), NEW k \in Nat, k <= Len(b)
    PROVE  EndOf(c, k) = EndOf(b, k) /\ Pay(c, k) = Pay(b, k) /\ Exp(c, k) = Exp(b, k)
<1>1. Len(b) \in Nat /\ Len(c) = Len(b) + 1 /\ \A i \in 1 .. Len(b) : c[i] = b[i]
  BY DEF Body
<1>2. \A j \in Nat : j <= Len(b) => Blank(c, j) = Blank(b, j)
  <2> SUFFICES ASSUME NEW j \in Nat, j <= Len(b) PROVE Blank(c, j) = Blank(b, j)
    OBVIOUS
  <2>1. \A i \in 1 .. j : c[i] = b[i]
    BY <1>1
  <2> QED
    BY <2>1 DEF Blank
<1>3. \A j \in Nat : j <= Len(b) => Pay(c, j) = Pay(b, j)
  <2> SUFFICES ASSUME NEW j \in Nat, j <= Len(b) PROVE Pay(c, j) = Pay(b, j)
    OBVIOUS
  <2>1. \A i \in 1 .. j : c[i] = b[i]
    BY <1>1
  <2>2. Blank(c, j) = Blank(b, j)
    BY <1>2
  <2>3. Saying(c, j) = Saying(b, j)
    BY <2>1, <2>2 DEF Saying
  <2> QED
    BY <2>3 DEF Pay
<1>4. Exp(c, k) = Exp(b, k)
  <2>1. ASSUME NEW j \in 1 .. k
        PROVE  Event(c, j) = Event(b, j)
    <3>1. Blank(c, j) = Blank(b, j) /\ Pay(c, j - 1) = Pay(b, j - 1)
      BY <1>1, <1>2, <1>3
    <3> QED
      BY <3>1 DEF Event
  <2>2. Evented(c, k) = Evented(b, k)
    BY <2>1 DEF Evented
  <2> QED
    BY <2>2 DEF Exp
<1>5. EndOf(c, k) = EndOf(b, k)
  <2>1. \A i \in 1 .. k : Whole(c)[i] = Whole(b)[i]
    BY <1>1 DEF Whole
  <2>2. Upto(Whole(c), k) = Upto(Whole(b), k)
    BY <2>1 DEF Upto
  <2> QED
    BY <2>2 DEF EndOf
<1> QED
  BY <1>3, <1>4, <1>5

Parsers == [line : Seq(Tokens), data : Seq(Tokens), has : BOOLEAN, out : Seq(Seq(Tokens))]

\* A parser has the data of the first w lines, and with `ev` their events are out.
Knows(b, p, ev, w) ==
    /\ p \in Parsers /\ ev \in Seq(Seq(Tokens))
    /\ p.has <=> Pay(b, w) # <<>>
    /\ p.has => p.data = Tail(Pay(b, w))
    /\ ~p.has => p.data = <<>>
    /\ ev \o p.out = Exp(b, w)

\* It has read q tokens, the first w lines and part of the next.
Reads(b, q, p, ev, w) ==
    /\ Knows(b, p, ev, w)
    /\ w \in 0 .. Len(b)
    /\ \/ w = Len(b) /\ q = EndOf(b, w) /\ p.line = <<>>
       \/ /\ w < Len(b) /\ q - EndOf(b, w) \in 0 .. Len(Written(b[w + 1])) - 1
          /\ p.line = SubSeq(Written(b[w + 1]), 1, q - EndOf(b, w))

\* A line is taken as the format says.
LEMMA TakesLine ==
    ASSUME E!EventStreamAssumption, NEW b, Body(b), NEW w \in Nat, w < Len(b),
           NEW p, NEW ev, Knows(b, p, ev, w)
    PROVE  Knows(b, E!TakeLine(p, b[w + 1].text), ev, w + 1) /\ E!TakeLine(p, b[w + 1].text).line = <<>>
<1> DEFINE l == b[w + 1].text
           P == Pay(b, w)
           Q == Pay(b, w + 1)
           r == E!TakeLine(p, l)
<1>1. /\ p.line \in Seq(Tokens) /\ p.data \in Seq(Tokens) /\ p.has \in BOOLEAN
      /\ p.out \in Seq(Seq(Tokens)) /\ ev \in Seq(Seq(Tokens)) /\ p \in Parsers
  BY DEF Knows, Parsers
<1>2. /\ p.has <=> P # <<>>
      /\ p.has => p.data = Tail(P)
      /\ ~p.has => p.data = <<>>
      /\ ev \o p.out = Exp(b, w)
  BY DEF Knows
<1>3. P \in Seq(Tokens) /\ Len(b) \in Nat /\ b[w + 1] \in Lines
  <2>1. Len(b) \in Nat /\ w + 1 \in 1 .. Len(b) /\ w <= Len(b)
    BY DEF Body
  <2>2. b[w + 1] \in Lines
    BY <2>1 DEF Body
  <2> QED
    BY <2>1, <2>2, SayingTyped
<1>4. /\ l = <<>> => Q = <<>>
      /\ l # <<>> => Q = P \o Says(l)
  BY PayStep
<1>5. Exp(b, w + 1) = Exp(b, w) \o Event(b, w + 1) /\ Exp(b, w) \in Seq(Seq(Tokens))
  BY ExpStep
<1>6. Event(b, w + 1) = IF l = <<>> /\ P # <<>> THEN <<Tail(P)>> ELSE <<>>
  <2>1. w + 1 \in Blank(b, w + 1) <=> l = <<>>
    BY DEF Blank
  <2>2. (w + 1) - 1 = w
    OBVIOUS
  <2> QED
    BY <2>1, <2>2 DEF Event
<1>7. E!Value(l) \in Seq(Tokens)
  BY <1>3, LineTyped, ValueTyped
<1>8. <<>> \in Seq(Tokens)
  OBVIOUS
<1> HIDE DEF l, P, Q
<1>9. Exp(b, w) \o <<>> = Exp(b, w)
  BY <1>5
<1>10. CASE l = <<>>
  <2>1. r = E!Dispatch(p)
    BY <1>10 DEF E!TakeLine
  <2> HIDE DEF r
  <2>2. CASE p.has
    <3>1. r = [line |-> <<>>, data |-> <<>>, has |-> FALSE, out |-> Append(p.out, p.data)]
      BY <2>1, <2>2 DEF E!Dispatch
    <3>2. Append(p.out, p.data) \in Seq(Seq(Tokens))
      BY <1>1
    <3>3. ev \o Append(p.out, p.data) = (ev \o p.out) \o <<p.data>>
      BY <1>1
    <3>4. ev \o Append(p.out, p.data) = Exp(b, w + 1)
      BY <1>2, <1>5, <1>6, <1>10, <2>2, <3>3
    <3>5. r \in Parsers /\ r.has = FALSE /\ r.data = <<>> /\ r.line = <<>> /\ r.out = Append(p.out, p.data)
      BY <1>8, <3>1, <3>2 DEF Parsers
    <3> QED
      BY <1>1, <1>4, <1>10, <3>4, <3>5 DEF Knows, l, Q, r
  <2>3. CASE ~p.has
    <3>1. r = [p EXCEPT !.line = <<>>]
      BY <2>1, <2>3 DEF E!Dispatch
    <3>2. r \in Parsers /\ r.has = p.has /\ r.data = p.data /\ r.line = <<>> /\ r.out = p.out
      BY <1>1, <1>8, <3>1 DEF Parsers
    <3>3. ev \o r.out = Exp(b, w + 1)
      BY <1>2, <1>5, <1>6, <1>9, <2>3, <3>2
    <3> QED
      BY <1>1, <1>2, <1>4, <1>10, <2>3, <3>2, <3>3 DEF Knows, l, Q, r
  <2> QED
    BY <1>1, <2>2, <2>3
<1>11. CASE l # <<>> /\ E!Field(l) = <<"data">>
  <2> DEFINE v == E!Value(l)
             d1 == (IF p.has THEN Append(p.data, "lf") ELSE p.data) \o v
  <2>1. r = [p EXCEPT !.line = <<>>, !.has = TRUE,
                      !.data = (IF p.has THEN Append(@, "lf") ELSE @) \o v]
    BY <1>11 DEF E!TakeLine
  <2>2. Q = P \o (<<"lf">> \o v)
    BY <1>4, <1>11 DEF Says
  <2> HIDE DEF v, r
  <2>3. v \in Seq(Tokens) /\ "lf" \in Tokens
    BY <1>7 DEF v, Tokens
  <2>4. d1 \in Seq(Tokens) /\ Q \in Seq(Tokens) /\ Q # <<>> /\ Tail(Q) = d1
    <3>1. <<"lf">> \in Seq(Tokens) /\ <<"lf">> \o v \in Seq(Tokens) /\ Len(<<"lf">> \o v) = 1 + Len(v)
          /\ Tail(<<"lf">> \o v) = v /\ Len(v) \in Nat
      BY <2>3
    <3>2. CASE P = <<>>
      <4>1. Q = <<"lf">> \o v
        BY <2>2, <3>1, <3>2
      <4>2. p.data = <<>> /\ p.has = FALSE
        BY <1>1, <1>2, <3>2
      <4>3. d1 = v
        BY <2>3, <4>2
      <4>4. Q # <<>>
        BY <3>1, <4>1
      <4> HIDE DEF d1
      <4> QED
        BY <2>3, <3>1, <4>1, <4>3, <4>4
    <3>3. CASE P # <<>>
      <4>1. p.data = Tail(P) /\ p.has = TRUE
        BY <1>1, <1>2, <3>3
      <4>2. d1 = Append(Tail(P), "lf") \o v
        BY <4>1
      <4>3. Append(Tail(P), "lf") = Tail(P) \o <<"lf">>
        BY <1>3, <2>3, <3>3
      <4>4. Tail(P) \in Seq(Tokens) /\ Len(P) \in Nat \ {0}
        BY <1>3, <3>3
      <4>5. d1 = Tail(P) \o (<<"lf">> \o v)
        <5>1. <<"lf">> \in Seq(Tokens)
          BY <2>3
        <5>2. (Tail(P) \o <<"lf">>) \o v = Tail(P) \o (<<"lf">> \o v)
          BY <2>3, <4>4, <5>1, ConcatAssociative
        <5> QED
          BY <4>2, <4>3, <5>2
      <4> HIDE DEF d1
      <4> DEFINE u == <<"lf">> \o v
      <4>6. u \in Seq(Tokens)
        BY <3>1
      <4> HIDE DEF u
      <4>7. Q \in Seq(Tokens) /\ Q # <<>> /\ Tail(Q) = Tail(P) \o u
        <5>1. Q = P \o u
          BY <2>2 DEF u
        <5> QED
          BY <1>3, <4>4, <4>6, <5>1
      <4>8. Tail(P) \o u \in Seq(Tokens)
        BY <4>4, <4>6
      <4> QED
        BY <4>5, <4>7, <4>8 DEF u
    <3> QED
      BY <3>2, <3>3
  <2>5. r = [p EXCEPT !.line = <<>>, !.has = TRUE, !.data = d1]
    BY <2>1
  <2> HIDE DEF d1
  <2>6. r \in Parsers /\ r.has = TRUE /\ r.data = d1 /\ r.line = <<>> /\ r.out = p.out
    BY <1>1, <1>8, <2>4, <2>5 DEF Parsers
  <2>7. ev \o r.out = Exp(b, w + 1)
    BY <1>2, <1>5, <1>6, <1>9, <1>11, <2>6
  <2> QED
    BY <1>1, <2>4, <2>6, <2>7 DEF Knows, l, Q, r
<1>12. CASE l # <<>> /\ E!Field(l) # <<"data">>
  <2>1. r = [p EXCEPT !.line = <<>>]
    BY <1>12 DEF E!TakeLine
  <2> HIDE DEF r
  <2>2. r \in Parsers /\ r.has = p.has /\ r.data = p.data /\ r.line = <<>> /\ r.out = p.out
    BY <1>1, <1>8, <2>1 DEF Parsers
  <2>3. ev \o r.out = Exp(b, w + 1)
    BY <1>2, <1>5, <1>6, <1>9, <1>12, <2>2
  <2>4. Q = P
    <3>1. Q = P \o <<>>
      BY <1>4, <1>12 DEF Says
    <3> QED
      BY <1>3, <3>1
  <2> QED
    BY <1>1, <1>2, <2>2, <2>3, <2>4 DEF Knows, l, P, Q, r
<1> QED
  BY <1>10, <1>11, <1>12

\* A line of the body stands in it where the lines before it end.
LEMMA SentAt ==
    ASSUME E!EventStreamAssumption, NEW b, Body(b), NEW w \in Nat, w < Len(b),
           NEW i \in 1 .. Len(Written(b[w + 1]))
    PROVE  FlattenSeq(Whole(b))[EndOf(b, w) + i] = Written(b[w + 1])[i]
<1> DEFINE s == Whole(b)
           n == Len(b)
           f == FlattenSeq(Upto(s, w))
           x == s[w + 1]
<1>1. n \in Nat /\ s \in Lists(Tokens, n) /\ w + 1 \in 1 .. n /\ w < n /\ w + 1 \in Nat /\ w + 1 <= n
      /\ x = Written(b[w + 1])
  BY WholeTyped
<1> HIDE DEF s, n
<1>2. FlattenSeq(Upto(s, w + 1)) = f \o x /\ f \in Seq(Tokens) /\ x \in Seq(Tokens)
  BY <1>1, FlattenNext
<1>3. PICK r \in Seq(Tokens) : FlattenSeq(s) = FlattenSeq(Upto(s, w + 1)) \o r
  BY <1>1, FlattenPrefix
<1> HIDE DEF f, x
<1>4. i \in 1 .. Len(x)
  BY <1>1
<1>5. (f \o x)[Len(f) + i] = x[i] /\ Len(f) + i \in 1 .. Len(f \o x) /\ f \o x \in Seq(Tokens)
  BY <1>2, <1>4
<1>6. ((f \o x) \o r)[Len(f) + i] = x[i]
  BY <1>5
<1> QED
  BY <1>1, <1>2, <1>3, <1>6 DEF f, s, EndOf

\* All the lines are the body.
LEMMA EndLast ==
    ASSUME E!EventStreamAssumption, NEW b, Body(b)
    PROVE  EndOf(b, Len(b)) = Len(FlattenSeq(Whole(b)))
<1>1. Len(b) \in Nat /\ Whole(b) \in Lists(Tokens, Len(b))
  BY WholeTyped
<1>2. Upto(Whole(b), Len(b)) = Whole(b)
  BY <1>1, UptoType
<1> QED
  BY <1>2 DEF EndOf

\* One token more: part of the line, or its end.
LEMMA ReadsToken ==
    ASSUME E!EventStreamAssumption, NEW b, Body(b), NEW q \in Nat, q < Len(FlattenSeq(Whole(b))),
           NEW p, NEW ev, NEW w, Reads(b, q, p, ev, w)
    PROVE  \E k : Reads(b, q + 1, E!Byte(p, FlattenSeq(Whole(b))[q + 1]), ev, k)
<1> DEFINE W == Written(b[w + 1])
           r == q - EndOf(b, w)
           t == FlattenSeq(Whole(b))[q + 1]
           z == E!Byte(p, t)
<1>1. Len(b) \in Nat /\ w \in 0 .. Len(b) /\ Knows(b, p, ev, w)
  BY DEF Body, Reads
<1>2. w < Len(b)
  <2>1. CASE w = Len(b)
    <3>1. EndOf(b, w) = Len(FlattenSeq(Whole(b)))
      BY <2>1, EndLast
    <3>2. q = EndOf(b, w)
      BY <1>1, <2>1 DEF Reads
    <3> QED
      BY <3>1, <3>2
  <2> QED
    BY <1>1, <2>1
<1>3. r \in 0 .. Len(W) - 1 /\ p.line = SubSeq(W, 1, r)
  BY <1>1, <1>2 DEF Reads
<1>4. w \in Nat /\ w + 1 \in 1 .. Len(b) /\ b[w + 1] \in Lines
  BY <1>1, <1>2, WholeTyped
<1>5. W \in Seq(Tokens) /\ Len(W) \in Nat \ {0}
  BY <1>4, LineTyped
<1>6. EndOf(b, w) \in Nat /\ EndOf(b, w + 1) = EndOf(b, w) + Len(W)
  BY <1>2, <1>4, EndStep
<1>7. r + 1 \in 1 .. Len(W) /\ EndOf(b, w) + (r + 1) = q + 1
  BY <1>3, <1>5, <1>6
<1>8. t = W[r + 1]
  <2> HIDE DEF r
  <2>1. FlattenSeq(Whole(b))[EndOf(b, w) + (r + 1)] = Written(b[w + 1])[r + 1]
    BY <1>2, <1>4, <1>7, SentAt
  <2> QED
    BY <1>7, <2>1
<1>9. /\ t = "lf" <=> r + 1 = Len(W)
      /\ E!Chomp(SubSeq(W, 1, Len(W) - 1)) = b[w + 1].text
  <2> HIDE DEF r, t
  <2>1. \A i \in 1 .. Len(Written(b[w + 1])) :
           Written(b[w + 1])[i] = "lf" <=> i = Len(Written(b[w + 1]))
    BY <1>4, LineEnds
  <2>2. E!Chomp(SubSeq(Written(b[w + 1]), 1, Len(Written(b[w + 1])) - 1)) = b[w + 1].text
    BY <1>4, LineEnds
  <2> QED
    BY <1>7, <1>8, <2>1, <2>2
<1>10. p \in Parsers
  BY <1>1 DEF Knows
<1>11. CASE t # "lf"
  <2>1. z = [p EXCEPT !.line = Append(@, t)]
    BY <1>11 DEF E!Byte
  <2>2. r + 1 \in 0 .. Len(W) - 1 /\ r + 1 = (q + 1) - EndOf(b, w)
    BY <1>3, <1>5, <1>6, <1>7, <1>9, <1>11
  <2> HIDE DEF z
  <2>3. Append(SubSeq(W, 1, r), W[r + 1]) = SubSeq(W, 1, r + 1)
    <3> HIDE DEF r, W
    <3> QED
      BY <1>3, <1>5, <1>7
  <2>4. t \in Tokens
    BY <1>5, <1>7, <1>8
  <2> HIDE DEF t
  <2>5. Append(p.line, t) \in Seq(Tokens)
    BY <1>10, <2>4 DEF Parsers
  <2>6. /\ z \in Parsers /\ z.has = p.has /\ z.data = p.data /\ z.out = p.out
        /\ z.line = Append(p.line, t)
    BY <1>10, <2>1, <2>5 DEF Parsers
  <2>7. z.line = SubSeq(W, 1, r + 1)
    BY <1>3, <1>8, <2>3, <2>6
  <2>8. Knows(b, z, ev, w)
    BY <1>1, <2>6 DEF Knows
  <2>9. Reads(b, q + 1, z, ev, w)
    BY <1>1, <1>2, <2>2, <2>7, <2>8 DEF Reads
  <2> QED
    BY <2>9 DEF z, t
<1>12. CASE t = "lf"
  <2>1. r = Len(W) - 1
    BY <1>3, <1>5, <1>9, <1>12
  <2>2. z = E!TakeLine(p, b[w + 1].text)
    <3>1. E!Chomp(p.line) = b[w + 1].text
      BY <1>3, <1>9, <2>1
    <3> QED
      BY <1>12, <3>1 DEF E!Byte
  <2>3. Knows(b, z, ev, w + 1) /\ z.line = <<>>
    <3>1. Knows(b, E!TakeLine(p, b[w + 1].text), ev, w + 1)
          /\ E!TakeLine(p, b[w + 1].text).line = <<>>
      BY <1>1, <1>2, <1>4, TakesLine
    <3> QED
      BY <2>2, <3>1
  <2>4. q + 1 = EndOf(b, w + 1)
    BY <1>5, <1>6, <1>7, <2>1
  <2> HIDE DEF z
  <2>5. CASE w + 1 = Len(b)
    <3>1. Reads(b, q + 1, z, ev, w + 1)
      BY <1>4, <2>3, <2>4, <2>5 DEF Reads
    <3> QED
      BY <3>1 DEF z
  <2>6. CASE w + 1 < Len(b)
    <3>1. w + 1 \in Nat /\ (w + 1) + 1 \in 1 .. Len(b)
      BY <1>4, <2>6
    <3>2. b[(w + 1) + 1] \in Lines
      BY <3>1, WholeTyped
    <3> DEFINE V == Written(b[(w + 1) + 1])
    <3>3. V \in Seq(Tokens) /\ Len(V) \in Nat \ {0}
      BY <3>2, LineTyped
    <3>4. (q + 1) - EndOf(b, w + 1) = 0
      BY <2>4
    <3>5. SubSeq(V, 1, 0) = <<>> /\ 0 \in 0 .. Len(V) - 1
      BY <3>3
    <3>6. Reads(b, q + 1, z, ev, w + 1)
      BY <1>4, <2>3, <2>6, <3>4, <3>5 DEF Reads
    <3> QED
      BY <3>6 DEF z
  <2> QED
    BY <1>1, <1>2, <2>5, <2>6
<1> QED
  BY <1>11, <1>12

\* The function `push` is defined by.
Fed(g, p, c, n) == g = [i \in 0 .. n |-> IF i = 0 THEN p ELSE E!Byte(g[i - 1], c[i])]

\* There is one for every chunk.
LEMMA FedExists ==
    ASSUME NEW p, NEW c, NEW n \in Nat
    PROVE  \E g : Fed(g, p, c, n)
<1> DEFINE T == {k \in Nat : \E g : Fed(g, p, c, k)}
<1>1. 0 \in T
  <2> DEFINE g == [k \in 0 .. 0 |-> p]
  <2>1. g = [k \in 0 .. 0 |-> IF k = 0 THEN p ELSE E!Byte(g[k - 1], c[k])]
    OBVIOUS
  <2>2. Fed(g, p, c, 0)
    <3> HIDE DEF g
    <3> QED
      BY <2>1 DEF Fed
  <2> QED
    BY <2>2
<1>2. ASSUME NEW k \in Nat, k \in T
      PROVE  k + 1 \in T
  <2>1. PICK g : Fed(g, p, c, k)
    BY <1>2
  <2> DEFINE last == E!Byte(g[k], c[k + 1])
             h == [i \in 0 .. k + 1 |-> IF i = k + 1 THEN last ELSE g[i]]
             e == [i \in 0 .. k + 1 |-> IF i = 0 THEN p ELSE E!Byte(h[i - 1], c[i])]
  <2>2. ASSUME NEW i \in 0 .. k + 1
        PROVE  h[i] = e[i]
    <3>0. e[i] = IF i = 0 THEN p ELSE E!Byte(h[i - 1], c[i])
      <4> HIDE DEF h
      <4> QED
        OBVIOUS
    <3>1. CASE i = k + 1
      <4>1. h[i] = last /\ h[i - 1] = g[k] /\ i # 0
        BY <3>1
      <4> HIDE DEF h, e
      <4> QED
        BY <3>0, <3>1, <4>1
    <3>2. CASE i # k + 1
      <4>1. i \in 0 .. k /\ h[i] = g[i]
        BY <3>2
      <4>2. g[i] = IF i = 0 THEN p ELSE E!Byte(g[i - 1], c[i])
        BY <2>1, <4>1 DEF Fed
      <4>3. i # 0 => h[i - 1] = g[i - 1]
        BY <4>1
      <4> HIDE DEF h, e
      <4> QED
        BY <3>0, <4>1, <4>2, <4>3
    <3> QED
      BY <3>1, <3>2
  <2>3. h = e
    <3> HIDE DEF last
    <3>1. DOMAIN h = 0 .. k + 1 /\ DOMAIN e = 0 .. k + 1
      OBVIOUS
    <3> QED
      BY <2>2, <3>1
  <2>4. Fed(h, p, c, k + 1)
    <3> HIDE DEF h
    <3> QED
      BY <2>3 DEF Fed
  <2> QED
    BY <2>4
<1>3. \A k \in Nat : k \in T
  <2> HIDE DEF T
  <2> QED
    BY <1>1, <1>2, Induction
<1> QED
  BY <1>3

\* However a body is cut into chunks, a chunk is read to its end.
LEMMA ReadsChunk ==
    ASSUME E!EventStreamAssumption, NEW b, Body(b), NEW q \in Nat, NEW n \in Nat,
           q + n <= Len(FlattenSeq(Whole(b))), NEW c,
           \A i \in 1 .. n : c[i] = FlattenSeq(Whole(b))[q + i],
           NEW p, NEW ev, NEW w, Reads(b, q, p, ev, w), NEW g, Fed(g, p, c, n)
    PROVE  \E k : Reads(b, q + n, g[n], ev, k)
<1> DEFINE T == {i \in Nat : i <= n => \E k : Reads(b, q + i, g[i], ev, k)}
<1>1. 0 \in T
  <2>1. g[0] = p /\ q + 0 = q
    BY DEF Fed
  <2> QED
    BY <2>1
<1>2. ASSUME NEW i \in Nat, i \in T
      PROVE  i + 1 \in T
  <2> SUFFICES ASSUME i + 1 <= n
               PROVE  \E k : Reads(b, q + (i + 1), g[i + 1], ev, k)
    OBVIOUS
  <2>1. PICK k : Reads(b, q + i, g[i], ev, k)
    BY <1>2
  <2>2. i + 1 \in 1 .. n /\ q + i \in Nat /\ (q + i) + 1 = q + (i + 1)
    OBVIOUS
  <2>3. q + i < Len(FlattenSeq(Whole(b)))
    <3>1. Whole(b) \in Lists(Tokens, Len(b)) /\ Len(b) \in Nat
      BY WholeTyped
    <3>2. FlattenSeq(Whole(b)) \in Seq(Tokens)
      BY <3>1, FlattenType
    <3>3. Len(FlattenSeq(Whole(b))) \in Nat
      BY <3>2
    <3> QED
      BY <3>3
  <2>4. \E j : Reads(b, (q + i) + 1, E!Byte(g[i], FlattenSeq(Whole(b))[(q + i) + 1]), ev, j)
    BY <2>1, <2>2, <2>3, ReadsToken
  <2>5. g[i + 1] = E!Byte(g[i], c[i + 1])
    <3>1. i + 1 \in 0 .. n /\ i + 1 # 0 /\ (i + 1) - 1 = i
      <4>1. i \in Nat /\ n \in Nat /\ i + 1 <= n
        OBVIOUS
      <4> HIDE DEF T
      <4> QED
        BY <4>1
    <3>2. \A m \in 0 .. n : g[m] = IF m = 0 THEN p ELSE E!Byte(g[m - 1], c[m])
      BY DEF Fed
    <3>3. g[i + 1] = E!Byte(g[(i + 1) - 1], c[i + 1])
      BY <3>1, <3>2
    <3> QED
      BY <3>1, <3>3
  <2>6. c[i + 1] = FlattenSeq(Whole(b))[(q + i) + 1]
    BY <2>2
  <2> QED
    BY <2>2, <2>4, <2>5, <2>6
<1>3. \A i \in Nat : i \in T
  <2> HIDE DEF T
  <2> QED
    BY <1>1, <1>2, Induction
<1> QED
  BY <1>3

StreamTyped == Body(body) /\ pos \in Nat

EventInv ==
    /\ StreamTyped
    /\ \E w : Reads(body, pos, E!Parser, events, w)
    /\ done = "too_large" => Len(line) + Len(data) > MaxBuffered

\* What is sent is the body.
LEMMA SentIs ==
    ASSUME Body(body)
    PROVE  E!Sent = FlattenSeq(Whole(body))
<1>1. DOMAIN body = 1 .. Len(body)
  BY DEF Body
<1>2. [i \in DOMAIN body |-> body[i].text \o body[i].eol] = Whole(body)
  BY <1>1 DEF Whole, Written
<1> QED
  BY <1>2, SameFlatten DEF E!Sent

\* Nothing is written, and nothing read.
LEMMA EventInit ==
    ASSUME E!Init
    PROVE  EventInv
<1>1. body = <<>> /\ pos = 0 /\ line = <<>> /\ data = <<>> /\ hasData = FALSE
      /\ events = <<>> /\ done = "no"
  BY DEF E!Init
<1>2. <<>> \in Seq(Lines) /\ Len(<<>>) = 0 /\ <<>> \in Seq(Tokens) /\ <<>> \in Seq(Seq(Tokens))
      /\ <<>> \o <<>> = <<>>
  OBVIOUS
<1>3. StreamTyped
  BY <1>1, <1>2 DEF StreamTyped, Body
<1> DEFINE p == E!Parser
<1>4. p \in Parsers /\ p.has = FALSE /\ p.data = <<>> /\ p.line = <<>> /\ p.out = <<>>
  BY <1>1, <1>2 DEF E!Parser, Parsers
<1>5. Pay(body, 0) = <<>> /\ Exp(body, 0) = <<>> /\ EndOf(body, 0) = 0
  BY PayFirst, EndFirst
<1> HIDE DEF p
<1>6. Knows(body, p, events, 0)
  BY <1>1, <1>2, <1>4, <1>5 DEF Knows
<1>7. Reads(body, pos, p, events, 0)
  BY <1>1, <1>2, <1>4, <1>5, <1>6 DEF Reads
<1> QED
  BY <1>1, <1>3, <1>7 DEF EventInv, p

\* The server writes a line behind what is read.
LEMMA EventWrite ==
    ASSUME E!EventStreamAssumption, EventInv, E!Write
    PROVE  EventInv'
<1>1. PICK x \in Lines : body' = Append(body, x)
  <2>1. PICK l \in Line, e \in Eol : body' = Append(body, [text |-> l, eol |-> e])
    BY DEF E!Write
  <2>2. [text |-> l, eol |-> e] \in Lines
    BY DEF Lines
  <2> QED
    BY <2>1, <2>2
<1>2. pos' = pos /\ events' = events /\ line' = line /\ data' = data /\ hasData' = hasData
      /\ done' = done
  BY DEF E!Write
<1>3. Body(body) /\ pos \in Nat /\ Len(body) \in Nat
  BY DEF EventInv, StreamTyped, Body
<1>4. /\ body' \in Seq(Lines) /\ Len(body') = Len(body) + 1 /\ body'[Len(body) + 1] = x
      /\ \A i \in 1 .. Len(body) : body'[i] = body[i]
  BY <1>1, <1>3 DEF Body
<1>5. StreamTyped'
  BY <1>2, <1>3, <1>4 DEF StreamTyped, Body
<1>6. E!Parser' = E!Parser
  BY <1>2 DEF E!Parser
<1> DEFINE p == E!Parser
<1>7. PICK w : Reads(body, pos, p, events, w)
  BY DEF EventInv
<1> HIDE DEF p
<1>8. w \in 0 .. Len(body) /\ w \in Nat /\ w <= Len(body) /\ Knows(body, p, events, w)
  BY <1>3, <1>7 DEF Reads
<1>9. EndOf(body', w) = EndOf(body, w) /\ Pay(body', w) = Pay(body, w) /\ Exp(body', w) = Exp(body, w)
  BY <1>1, <1>3, <1>8, SameBefore
<1>10. Knows(body', p, events, w)
  BY <1>8, <1>9 DEF Knows
<1>11. w \in 0 .. Len(body') /\ w < Len(body')
  BY <1>3, <1>4, <1>8
<1>12. /\ pos - EndOf(body', w) \in 0 .. Len(Written(body'[w + 1])) - 1
       /\ p.line = SubSeq(Written(body'[w + 1]), 1, pos - EndOf(body', w))
  <2>1. CASE w = Len(body)
    <3>1. pos = EndOf(body, w) /\ p.line = <<>>
      BY <1>3, <1>7, <2>1 DEF Reads
    <3>2. body'[w + 1] = x
      BY <1>4, <2>1
    <3> DEFINE V == Written(x)
    <3>3. V \in Seq(Tokens) /\ Len(V) \in Nat \ {0}
      BY LineTyped
    <3>4. pos - EndOf(body', w) = 0
      BY <1>3, <1>9, <3>1
    <3>5. SubSeq(V, 1, 0) = <<>> /\ 0 \in 0 .. Len(V) - 1
      BY <3>3
    <3> QED
      BY <3>1, <3>2, <3>4, <3>5
  <2>2. CASE w < Len(body)
    <3>1. w + 1 \in 1 .. Len(body)
      BY <1>3, <1>8, <2>2
    <3>2. body'[w + 1] = body[w + 1]
      BY <1>4, <3>1
    <3>3. /\ pos - EndOf(body, w) \in 0 .. Len(Written(body[w + 1])) - 1
          /\ p.line = SubSeq(Written(body[w + 1]), 1, pos - EndOf(body, w))
      BY <1>3, <1>7, <2>2 DEF Reads
    <3> QED
      BY <1>9, <3>2, <3>3
  <2> QED
    BY <1>3, <1>8, <2>1, <2>2
<1>13. Reads(body', pos, p, events, w)
  BY <1>10, <1>11, <1>12 DEF Reads
<1> QED
  BY <1>2, <1>5, <1>6, <1>13 DEF EventInv, p

\* A chunk is read to its end, and its events go out.
LEMMA EventChunk ==
    ASSUME E!EventStreamAssumption, EventInv, NEW n \in Nat, E!Chunk(n)
    PROVE  EventInv'
<1> DEFINE c == SubSeq(E!Sent, pos + 1, pos + n)
           f == FlattenSeq(Whole(body))
           p == E!push(c)
<1>1. /\ pos + n <= Len(E!Sent) /\ pos' = pos + n /\ body' = body
      /\ line' = p.line /\ data' = p.data /\ hasData' = p.has /\ events' = events \o p.out
      /\ done' = IF E!buffered(p) > MaxBuffered THEN "too_large" ELSE "no"
  BY DEF E!Chunk
<1>2. Body(body) /\ pos \in Nat
  BY DEF EventInv, StreamTyped
<1>3. E!Sent = f
  BY <1>2, SentIs
<1>4. f \in Seq(Tokens) /\ Len(f) \in Nat
  <2>1. Whole(body) \in Lists(Tokens, Len(body)) /\ Len(body) \in Nat
    BY <1>2, WholeTyped
  <2>2. f \in Seq(Tokens)
    BY <2>1, FlattenType
  <2> QED
    BY <2>2
<1>5. Len(c) = n /\ \A i \in 1 .. n : c[i] = f[pos + i]
  <2>1. pos + 1 \in Nat /\ pos + n \in Nat /\ pos + n <= Len(f)
    BY <1>1, <1>2, <1>3
  <2> HIDE DEF f
  <2>2. Len(c) = n
    BY <1>2, <1>3, <1>4, <2>1
  <2>3. \A i \in 1 .. n : c[i] = f[(pos + 1) + i - 1]
    BY <1>2, <1>3, <1>4, <2>1
  <2>4. \A i \in 1 .. n : (pos + 1) + i - 1 = pos + i
    BY <1>2
  <2> HIDE DEF c
  <2> QED
    BY <2>2, <2>3, <2>4
<1> DEFINE g == CHOOSE h : Fed(h, E!Parser, c, Len(c))
<1>6. p = g[Len(c)]
  BY DEF E!push, Fed
<1>7. Fed(g, E!Parser, c, n)
  <2> HIDE DEF c
  <2>1. \E h : Fed(h, E!Parser, c, Len(c))
    BY <1>5, FedExists
  <2> QED
    BY <1>5, <2>1
<1>8. PICK w : Reads(body, pos, E!Parser, events, w)
  BY DEF EventInv
<1> HIDE DEF c, g, p
<1>9. PICK k : Reads(body, pos + n, g[n], events, k)
  BY <1>1, <1>2, <1>3, <1>5, <1>7, <1>8, ReadsChunk
<1>10. Reads(body, pos + n, p, events, k)
  BY <1>5, <1>6, <1>9
<1>11. /\ p.line \in Seq(Tokens) /\ p.data \in Seq(Tokens) /\ p.has \in BOOLEAN
       /\ p.out \in Seq(Seq(Tokens)) /\ events \in Seq(Seq(Tokens))
  BY <1>10 DEF Reads, Knows, Parsers
<1> DEFINE r == [line |-> p.line, data |-> p.data, has |-> p.has, out |-> <<>>]
<1>12. E!Parser' = r
  BY <1>1 DEF E!Parser
<1>13. r \in Parsers /\ r.line = p.line /\ r.data = p.data /\ r.has = p.has /\ r.out = <<>>
  <2>1. <<>> \in Seq(Seq(Tokens))
    OBVIOUS
  <2> QED
    BY <1>11, <2>1 DEF Parsers
<1> HIDE DEF r
<1>14. events' \in Seq(Seq(Tokens)) /\ events' \o r.out = events \o p.out
  <2>1. events' = events \o p.out
    BY <1>1
  <2>2. events \o p.out \in Seq(Seq(Tokens))
    BY <1>11
  <2>3. (events \o p.out) \o <<>> = events \o p.out
    BY <2>2
  <2> QED
    BY <1>13, <2>1, <2>2, <2>3
<1>15. Knows(body, r, events', k)
  BY <1>10, <1>13, <1>14 DEF Reads, Knows
<1>16. Reads(body, pos + n, r, events', k)
  BY <1>10, <1>13, <1>15 DEF Reads
<1>17. done' = "too_large" => Len(line') + Len(data') > MaxBuffered
  BY <1>1 DEF E!buffered
<1>18. StreamTyped'
  BY <1>1, <1>2 DEF StreamTyped
<1> QED
  BY <1>1, <1>12, <1>16, <1>17, <1>18 DEF EventInv

\* A body that ends changes nothing of what was read.
LEMMA EventNext ==
    ASSUME E!EventStreamAssumption, EventInv, [E!Next]_(E!vars)
    PROVE  EventInv'
<1>1. CASE E!Write
  BY <1>1, EventWrite
<1>2. CASE \E n \in 1 .. MaxChunk : E!Chunk(n)
  <2>1. PICK n \in 1 .. MaxChunk : E!Chunk(n)
    BY <1>2
  <2> QED
    BY <2>1, EventChunk
<1>3. CASE E!End \/ UNCHANGED E!vars
  <2>1. /\ body' = body /\ pos' = pos /\ line' = line /\ data' = data /\ hasData' = hasData
        /\ events' = events
        /\ done' = "too_large" => done = "too_large"
    BY <1>3 DEF E!End, E!vars
  <2>2. E!Parser' = E!Parser
    BY <2>1 DEF E!Parser
  <2> QED
    BY <2>1, <2>2 DEF EventInv, StreamTyped
<1> QED
  BY <1>1, <1>2, <1>3 DEF E!Next

\* The lines read to their end are the first w.
LEMMA EventInvWritten ==
    ASSUME E!EventStreamAssumption, EventInv
    PROVE  EventsAsWritten
<1>1. PICK w : Reads(body, pos, E!Parser, events, w)
  BY DEF EventInv
<1>2. Body(body) /\ pos \in Nat /\ Len(body) \in Nat
  BY DEF EventInv, StreamTyped, Body
<1>3. w \in 0 .. Len(body) /\ w \in Nat
  BY <1>1, <1>2 DEF Reads
<1>3a. DOMAIN body = 1 .. Len(body)
  BY <1>2 DEF Body
<1>4. events = Exp(body, w)
  <2>1. events \in Seq(Seq(Tokens)) /\ events \o E!Parser.out = Exp(body, w)
    BY <1>1 DEF Reads, Knows
  <2>2. E!Parser.out = <<>>
    BY DEF E!Parser
  <2>3. events \o <<>> = events
    BY <2>1
  <2> QED
    BY <2>1, <2>2, <2>3
<1>5. EndOf(body, w) <= pos /\ (w < Len(body) => pos < EndOf(body, w + 1))
  <2>1. EndOf(body, w) \in Nat
    BY <1>2, <1>3, EndTyped
  <2>2. CASE w = Len(body)
    BY <1>1, <1>2, <2>1, <2>2 DEF Reads
  <2>3. CASE w < Len(body)
    <3>1. pos - EndOf(body, w) \in 0 .. Len(Written(body[w + 1])) - 1
      BY <1>1, <1>2, <2>3 DEF Reads
    <3>2. EndOf(body, w + 1) = EndOf(body, w) + Len(Written(body[w + 1]))
          /\ Len(Written(body[w + 1])) \in Nat \ {0}
      BY <1>2, <1>3, <2>3, EndStep
    <3> QED
      BY <1>2, <2>1, <3>1, <3>2
  <2>4. w = Len(body) \/ w < Len(body)
    BY <1>2, <1>3
  <2> QED
    BY <2>2, <2>3, <2>4
<1>6. \A k \in 1 .. Len(body) : E!Ends(k) = EndOf(body, k)
  <2> TAKE k \in 1 .. Len(body)
  <2>1. [i \in 1 .. k |-> body[i].text \o body[i].eol] = Upto(Whole(body), k)
    <3>1. \A i \in 1 .. k : body[i].text \o body[i].eol = Whole(body)[i]
      <4> TAKE i \in 1 .. k
      <4>1. i \in 1 .. Len(body)
        BY <1>2
      <4> QED
        BY <4>1 DEF Whole, Written
    <3> QED
      BY <3>1 DEF Upto
  <2> QED
    BY <2>1, SameFlatten DEF E!Ends, EndOf
<1>7. ASSUME NEW k \in 1 .. Len(body)
      PROVE  E!Ends(k) <= pos <=> k <= w
  <2>1. k \in 0 .. Len(body) /\ E!Ends(k) = EndOf(body, k)
    BY <1>2, <1>6
  <2>2. CASE k <= w
    <3>1. EndOf(body, k) \in Nat /\ EndOf(body, w) \in Nat /\ EndOf(body, k) <= EndOf(body, w)
      BY <1>2, <1>3, <2>1, <2>2, EndsGrow
    <3> QED
      BY <1>2, <1>5, <2>1, <2>2, <3>1
  <2>3. CASE ~(k <= w)
    <3>1. w < Len(body) /\ w + 1 \in 0 .. Len(body) /\ w + 1 <= k
      BY <1>2, <1>3, <2>3
    <3>2. EndOf(body, w + 1) \in Nat /\ EndOf(body, k) \in Nat /\ EndOf(body, w + 1) <= EndOf(body, k)
      BY <1>2, <2>1, <3>1, EndsGrow
    <3> QED
      BY <1>2, <1>5, <2>1, <2>3, <3>1, <3>2
  <2> QED
    BY <2>2, <2>3
<1>8. {k \in DOMAIN body : E!Ends(k) <= pos} = 1 .. w
  BY <1>2, <1>3, <1>3a, <1>7
<1>9. Cardinality(1 .. w) = w
  BY <1>3, FS_Interval
<1>10. E!WholeLines = w
  BY <1>8, <1>9 DEF E!WholeLines, E!Cardinality, Cardinality
<1>11. events = E!Expected
  BY <1>4, <1>10, ExpectedIs
<1> QED
  BY <1>11 DEF EventInv, EventsAsWritten, E!EventsAsWritten

\* Whatever a server writes and wherever the chunks end, the decoder relays the
\* events of the lines read so far, each once, whole and in order, and gives up
\* only with more than the limit in hand.
THEOREM EventsAlwaysAsWritten == E!Spec => []EventsAsWritten
<1> USE EventStreamPart
<1>1. E!Init => EventInv
  BY EventInit
<1>2. EventInv /\ [E!Next]_(E!vars) => EventInv'
  BY EventNext
<1>3. EventInv => EventsAsWritten
  BY EventInvWritten
<1> QED
  BY <1>1, <1>2, <1>3, PTL DEF E!Spec
=============================================================================
