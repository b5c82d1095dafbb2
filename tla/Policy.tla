------------------------------- MODULE Policy --------------------------------
(***************************************************************************)
(* The tool policy of one session (policy.rs): which calls of the agent    *)
(* reach the server, and what of the server's tool listings reaches the    *)
(* agent.  The policy knows a tool only from the listings that passed      *)
(* through it (the catalog), and it knows that an answer is a listing only *)
(* by the id of the request (`listing`), in a session where                *)
(*   - requests overlap, and answers come back in any order,               *)
(*   - the server numbers its own requests, out of the same ids,           *)
(*   - the server changes its tools and lists them page by page,           *)
(*   - a call may wait for the owner, and a listing be cancelled.          *)
(* As JSON-RPC asks of it, the agent does not use an id again that is      *)
(* still open.                                                             *)
(*                                                                         *)
(* A tool's hints are told apart as far as the code does: "reads" is       *)
(* readOnlyHint true, "adds" is destructiveHint false without it, "changes"*)
(* is the rest.                                                            *)
(***************************************************************************)
EXTENDS Naturals, FiniteSets

CONSTANTS
    Tool,         \* tool names
    Long,         \* those of them past TOOL_NAME_MAX
    Id,           \* request ids, as JSON text
    Policies,     \* the `tools` rules a session may start with
    Confirms,     \* the `confirm` rules a session may start with
    MaxRequests   \* bound: requests the agent makes

All == [rule |-> "all"]
ReadOnly == [rule |-> "read_only"]
Allow(names) == [rule |-> "allow", names |-> names]

ASSUME PolicyAssumption ==
    /\ Long \subseteq Tool
    /\ Policies \subseteq {All, ReadOnly} \cup {Allow(names) : names \in SUBSET (Tool \ Long)}
    /\ Confirms \subseteq {"never", "destructive", "always"}
    /\ MaxRequests \in Nat

VARIABLES
    tools, confirm,   \* the session's rules
    catalog,          \* what each listed tool's hints are
    listing,          \* ids of tools/list requests not yet answered
    open,             \* the agent's requests that are not answered
    at_server,        \* those the server has to answer
    held,             \* calls that wait for the owner
    replies,          \* the server's messages on their way through the policy
    made,             \* how many requests the agent made
    shown,            \* history: tools the agent was shown and no later listing took back
    delivered,        \* history: the last listing, as the server sent it and as it went out
    harmless,         \* history: tools some listing said change nothing
    asked             \* history: calls the owner was asked about

rules == <<tools, confirm>>
agentVars == <<open, made>>
history == <<shown, delivered, harmless, asked>>
vars == <<rules, catalog, listing, agentVars, at_server, held, replies, history>>

Hints == {"reads", "adds", "changes"}
Requests == [kind : {"tools/list"}, id : Id] \cup [kind : {"tools/call"}, id : Id, tool : Tool]
Pages == UNION {[T -> Hints] : T \in SUBSET Tool}
Messages == [kind : {"listing"}, id : Id, page : Pages] \cup [kind : {"error", "result", "request"}, id : Id]
Nothing == [page |-> <<>>, out |-> {}]

-----------------------------------------------------------------------------
(* The rules.                                                              *)

Listed(name) == name \in DOMAIN catalog

\* ToolPolicy::allows, with the catalog `cat`.
Allows(name, cat) ==
    CASE tools.rule = "all"       -> TRUE
      [] tools.rule = "read_only" -> name \in DOMAIN cat /\ cat[name] = "reads"
      [] tools.rule = "allow"     -> name \in tools.names

Needed_UnknownIsHarmless(name) ==                               \* mutant
    \/ confirm = "always"
    \/ confirm = "destructive" /\ Listed(name) /\ catalog[name] = "changes"

\* Confirm::needed; a tool not listed yet counts as able to change things.
Needed(name) ==
    \/ confirm = "always"
    \/ confirm = "destructive" /\ (Listed(name) => catalog[name] = "changes")

learn(page) ==
    [t \in DOMAIN catalog \cup (DOMAIN page \ Long) |->
        IF t \in DOMAIN page THEN page[t] ELSE catalog[t]]

-----------------------------------------------------------------------------
Init ==
    /\ tools \in Policies /\ confirm \in Confirms
    /\ catalog = <<>> /\ listing = {}
    /\ open = {} /\ made = 0 /\ at_server = {} /\ held = {} /\ replies = {}
    /\ shown = {} /\ delivered = Nothing /\ harmless = {} /\ asked = {}

FreshId(i) == i \notin {r.id : r \in open}

\* The agent makes the request `r`, and the policy leaves it open.
Make(r) ==
    /\ FreshId(r.id) /\ made < MaxRequests
    /\ made' = made + 1
    /\ open' = open \cup {r}

inbound_list(i) ==
    LET r == [kind |-> "tools/list", id |-> i]
    IN /\ Make(r)
       /\ listing' = listing \cup {i}
       /\ at_server' = at_server \cup {r}
       /\ UNCHANGED <<rules, catalog, held, replies, history>>

\* What becomes of a call: refused with an error, held for the owner, or forwarded.
Refused(name) == name \in Long \/ ~Allows(name, catalog)

inbound_refused(i, name) ==
    /\ FreshId(i) /\ made < MaxRequests
    /\ Refused(name)
    /\ made' = made + 1
    /\ UNCHANGED <<rules, catalog, listing, open, at_server, held, replies, history>>

inbound_confirm(i, name) ==
    LET r == [kind |-> "tools/call", id |-> i, tool |-> name]
    IN /\ ~Refused(name) /\ Needed(name)
       /\ Make(r)
       /\ held' = held \cup {r}
       /\ asked' = asked \cup {r}
       /\ UNCHANGED <<rules, catalog, listing, at_server, replies, shown, delivered, harmless>>

inbound_forward(i, name) ==
    LET r == [kind |-> "tools/call", id |-> i, tool |-> name]
    IN /\ ~Refused(name) /\ ~Needed(name)
       /\ Make(r)
       /\ at_server' = at_server \cup {r}
       /\ asked' = asked \ {r}
       /\ UNCHANGED <<rules, catalog, listing, held, replies, shown, delivered, harmless>>

\* The owner allows the call or denies it.
Allowed(r) ==
    /\ r \in held
    /\ held' = held \ {r}
    /\ at_server' = at_server \cup {r}
    /\ UNCHANGED <<rules, catalog, listing, agentVars, replies, history>>

Denied(r) ==
    /\ r \in held
    /\ held' = held \ {r}
    /\ open' = open \ {r}
    /\ UNCHANGED <<rules, catalog, listing, made, at_server, replies, history>>

-----------------------------------------------------------------------------
(* The server.                                                             *)

\* It answers a listing with a page of the tools it has by then, or with an error.
Answers(r) ==
    /\ r \in at_server
    /\ at_server' = at_server \ {r}
    /\ \E msg \in
            IF r.kind = "tools/list"
            THEN [kind : {"listing"}, id : {r.id}, page : Pages] \cup {[kind |-> "error", id |-> r.id]}
            ELSE {[kind |-> "result", id |-> r.id]} :
        replies' = replies \cup {msg}
    /\ UNCHANGED <<rules, catalog, listing, agentVars, held, history>>

\* It drops a request the agent cancelled; the id stays open.
Cancelled(r) ==
    /\ r \in at_server
    /\ at_server' = at_server \ {r}
    /\ UNCHANGED <<rules, catalog, listing, agentVars, held, replies, history>>

\* It makes a request of its own.
Asks(i) ==
    /\ replies' = replies \cup {[kind |-> "request", id |-> i]}
    /\ UNCHANGED <<rules, catalog, listing, agentVars, at_server, held, history>>

-----------------------------------------------------------------------------
(* outbound: one message of the server, on its way to the agent.           *)

is_listing_AnyMessage(msg) == msg.id \in listing                \* mutant

is_listing(msg) == msg.kind # "request" /\ msg.id \in listing

\* The agent has its answer: the request is no longer open.
Answered(msg) ==
    open' = IF msg.kind = "request" THEN open ELSE {r \in open : r.id # msg.id}

outbound_other(msg) ==
    /\ msg \in replies /\ ~is_listing(msg)
    /\ replies' = replies \ {msg}
    /\ Answered(msg)
    /\ delivered' = IF msg.kind = "listing"
                    THEN [page |-> msg.page, out |-> DOMAIN msg.page] ELSE delivered
    /\ UNCHANGED <<rules, catalog, listing, made, at_server, held, shown, harmless, asked>>

\* An error, or whatever else has no result, answers a tools/list.
outbound_error(msg) ==
    /\ msg \in replies /\ is_listing(msg) /\ msg.kind # "listing"
    /\ listing' = listing \ {msg.id}
    /\ replies' = replies \ {msg}
    /\ Answered(msg)
    /\ UNCHANGED <<rules, catalog, made, at_server, held, history>>

outbound_listing_FiltersFirst(msg) ==                           \* mutant
    /\ msg \in replies /\ is_listing(msg) /\ msg.kind = "listing"
    /\ listing' = listing \ {msg.id}
    /\ catalog' = learn(msg.page)
    /\ LET out == {t \in DOMAIN msg.page : Allows(t, catalog)}
       IN /\ delivered' = [page |-> msg.page, out |-> out]
          /\ shown' = (shown \ DOMAIN msg.page) \cup out
    /\ harmless' = harmless \cup {t \in DOMAIN msg.page : msg.page[t] # "changes"}
    /\ replies' = replies \ {msg}
    /\ Answered(msg)
    /\ UNCHANGED <<rules, made, at_server, held, asked>>

\* The catalog learns the page, then the page loses what is not allowed.
outbound_listing(msg) ==
    /\ msg \in replies /\ is_listing(msg) /\ msg.kind = "listing"
    /\ listing' = listing \ {msg.id}
    /\ catalog' = learn(msg.page)
    /\ LET out == {t \in DOMAIN msg.page : Allows(t, catalog')}
       IN /\ delivered' = [page |-> msg.page, out |-> out]
          /\ shown' = (shown \ DOMAIN msg.page) \cup out
    /\ harmless' = harmless \cup {t \in DOMAIN msg.page : msg.page[t] # "changes"}
    /\ replies' = replies \ {msg}
    /\ Answered(msg)
    /\ UNCHANGED <<rules, made, at_server, held, asked>>

inbound ==
    \E i \in Id :
        \/ inbound_list(i)
        \/ \E name \in Tool :
            inbound_refused(i, name) \/ inbound_confirm(i, name) \/ inbound_forward(i, name)

outbound == \E msg \in replies : outbound_other(msg) \/ outbound_error(msg) \/ outbound_listing(msg)

Owner == \E r \in held : Allowed(r) \/ Denied(r)

Server ==
    \/ \E r \in at_server : Answers(r) \/ Cancelled(r)
    \/ \E i \in Id : Asks(i)

Next == inbound \/ outbound \/ Owner \/ Server

Spec == Init /\ [][Next]_vars

-----------------------------------------------------------------------------
(* Properties.                                                             *)

TypeOK ==
    /\ tools \in Policies /\ confirm \in Confirms
    /\ DOMAIN catalog \subseteq Tool \ Long /\ \A t \in DOMAIN catalog : catalog[t] \in Hints
    /\ listing \subseteq Id
    /\ open \subseteq Requests /\ at_server \subseteq open /\ held \subseteq open
    /\ replies \subseteq Messages
    /\ made \in 0..MaxRequests
    /\ shown \subseteq Tool /\ harmless \subseteq Tool /\ asked \subseteq Requests
    /\ delivered.page \in Pages /\ delivered.out \subseteq Tool

\* The ids remembered are exactly those of the listings still open: none is forgotten
\* when the server's own request or another answer passes, and none is left behind to
\* take a later answer for a listing.
ListingExact == listing = {r.id : r \in {q \in open : q.kind = "tools/list"}}

\* "`tools/list` never shows it" (src/src/policy.rs:4): of every listing the agent gets
\* exactly what the rule admits, judged by that listing alone.
ListingsFiltered ==
    delivered.out = {t \in DOMAIN delivered.page :
                        CASE tools.rule = "all"       -> TRUE
                          [] tools.rule = "read_only" -> t \notin Long /\ delivered.page[t] = "reads"
                          [] tools.rule = "allow"     -> t \in tools.names}

\* The two directions agree: a tool the agent was shown, and that no later listing took
\* back, is not refused when it calls it.  (A name past the limit is.)
ShownIsCallable == \A t \in shown \ Long : ~Refused(t)

\* A call the server has, and that the owner was not asked about, needs no asking: under
\* `destructive`, a listing that passed said its tool changes nothing.
UnaskedIsHarmless ==
    \A r \in at_server : r.kind = "tools/call" /\ r \notin asked =>
        \/ confirm = "never"
        \/ confirm = "destructive" /\ r.tool \in harmless
=============================================================================
