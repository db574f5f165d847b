----------------------------- MODULE ToolSupply -----------------------------
(***************************************************************************)
(* Where the tools of a run come from and which of them a call reaches:    *)
(* the built-in set, the MCP servers internal/mcpclient starts one by one, *)
(* and the narrowing and dispatch of cmd/anyrun.                           *)
(*                                                                         *)
(* A map is ranged over in any order.  What tools do is left out.          *)
(***************************************************************************)
EXTENDS Integers, FiniteSets

CONSTANTS
    Servers,   \* the servers --mcp-config names
    Tools,     \* names a server may give its tools
    McpNames,  \* the names those tools go by
    FullName,  \* of tool t of server s: "mcp__" + s + "__" + t
    Narrowings \* what the flags and the environment may ask for

FileTools == {"read_file", "edit_file", "write_file", "list_dir"}
Builtins == FileTools \cup {"bash"}
Own == "anyrun"

Names == Builtins \cup McpNames

Flags == [allowBash : BOOLEAN, tools : SUBSET Builtins, disallowed : SUBSET Names]

ASSUME ToolAssumption ==
    /\ Narrowings \subseteq Flags
    /\ FullName \in [Servers -> [Tools -> McpNames]]
    /\ McpNames \cap Builtins = {}
    /\ Own \notin Servers
    \* The prefix of a server leaves its tools apart.
    /\ \A s \in Servers, t, u \in Tools : FullName[s][t] = FullName[s][u] => t = u

VARIABLES
    flags,    \* --allow-bash, --tools (its names), --disallowedTools (its matches)
    pc,       \* "connect", "list", "serve", "done", "failed"
    untried,  \* servers the current loop has not come to
    clients,  \* Pool.clients
    open,     \* servers connected and not closed
    defs,     \* tools found: [name, server, tool]
    routes,   \* Pool.routes, by name: [server, tool]
    exposed,  \* names of the tools the model is offered
    ran       \* tools executed: [server, tool]

vars == <<flags, pc, untried, clients, open, defs, routes, exposed, ran>>

OwnDef(n) == [name |-> n, server |-> Own, tool |-> n]

\* Set.Defs
Defs == { OwnDef(n) : n \in FileTools \cup (IF flags.allowBash THEN {"bash"} ELSE {}) }

\* A slip (see AgentTurn): a tool is defined and not handled.
HandlesFewer(n) == n \in FileTools \ {"list_dir"} \/ (n = "bash" /\ flags.allowBash)

\* Set.Handles
Handles(n) == n \in FileTools \/ (n = "bash" /\ flags.allowBash)

selectBuiltins(ds) == { d \in ds : d.name \in flags.tools }

filterTools(ds) == { d \in ds : d.name \notin flags.disallowed }

Init ==
    /\ flags \in Narrowings
    /\ pc = "connect"
    /\ untried = Servers
    /\ clients = {} /\ open = {} /\ defs = {}
    /\ routes = [n \in {} |-> n]
    /\ exposed = {} /\ ran = {}

-----------------------------------------------------------------------------
Connect(s) ==
    /\ pc = "connect"
    /\ s \in untried
    /\ untried' = untried \ {s}
    /\ \/ clients' = clients \cup {s} /\ open' = open \cup {s}
       \/ UNCHANGED <<clients, open>>  \* unavailable, skipping
    /\ UNCHANGED <<flags, pc, defs, routes, exposed, ran>>

\* A slip: the second loop is over the configured servers.
ConnectedAll ==
    /\ pc = "connect"
    /\ untried = {}
    /\ pc' = IF clients = {} /\ Servers # {} THEN "failed" ELSE "list"
    /\ untried' = Servers
    /\ UNCHANGED <<flags, clients, open, defs, routes, exposed, ran>>

\* Only now is it an error that there is no server.
Connected ==
    /\ pc = "connect"
    /\ untried = {}
    /\ pc' = IF clients = {} /\ Servers # {} THEN "failed" ELSE "list"
    /\ untried' = clients
    /\ UNCHANGED <<flags, clients, open, defs, routes, exposed, ran>>

\* A slip: the tools keep the names their server gave them.
ListUnprefixed(s, tools) ==
    /\ pc = "list"
    /\ s \in untried
    /\ untried' = untried \ {s}
    /\ defs' = defs \cup { [name |-> t, server |-> s, tool |-> t] : t \in tools }
    /\ UNCHANGED <<flags, pc, clients, open, routes, exposed, ran>>

\* A slip: every route of a server is the last one.
ListLast(s, tools) ==
    /\ pc = "list"
    /\ s \in untried
    /\ untried' = untried \ {s}
    /\ defs' = defs \cup
           { [name |-> FullName[s][t], server |-> s, tool |-> t] : t \in tools }
    /\ routes' =
           [n \in DOMAIN routes \cup { FullName[s][t] : t \in tools } |->
               IF \E t \in tools : n = FullName[s][t]
               THEN [server |-> s, tool |-> CHOOSE t \in tools : TRUE]
               ELSE routes[n]]
    /\ UNCHANGED <<flags, pc, clients, open, exposed, ran>>

\* The route of a name is that of the tool added last.
List(s, tools) ==
    /\ pc = "list"
    /\ s \in untried
    /\ untried' = untried \ {s}
    /\ defs' = defs \cup
           { [name |-> FullName[s][t], server |-> s, tool |-> t] : t \in tools }
    /\ routes' =
           [n \in DOMAIN routes \cup { FullName[s][t] : t \in tools } |->
               IF \E t \in tools : n = FullName[s][t]
               THEN [server |-> s, tool |-> CHOOSE t \in tools : n = FullName[s][t]]
               ELSE routes[n]]
    /\ UNCHANGED <<flags, pc, clients, open, exposed, ran>>

\* A slip: a server that failed is not closed.
SkipUnclosed(s) ==
    /\ pc = "list"
    /\ s \in untried
    /\ untried' = untried \ {s}
    /\ clients' = clients \ {s}
    /\ UNCHANGED <<flags, pc, open, defs, routes, exposed, ran>>

\* It fails to initialize or to list its tools.
Skip(s) ==
    /\ pc = "list"
    /\ s \in untried
    /\ untried' = untried \ {s}
    /\ open' = open \ {s}
    /\ clients' = clients \ {s}
    /\ UNCHANGED <<flags, pc, defs, routes, exposed, ran>>

Listed ==
    /\ pc = "list"
    /\ untried = {}
    /\ defs' = selectBuiltins(Defs) \cup defs
    /\ exposed' = { d.name : d \in filterTools(defs') }
    /\ pc' = "serve"
    /\ UNCHANGED <<flags, untried, clients, open, routes, ran>>

\* Set.Call and Pool.Call: what they execute for a name, if anything.
OwnCall(n) ==
    IF n \in FileTools \/ (n = "bash" /\ flags.allowBash)
    THEN { [server |-> Own, tool |-> n] }
    ELSE {}

PoolCall(n) == IF n \in DOMAIN routes THEN { routes[n] } ELSE {}

\* A slip: to hide a definition is taken for enough.
ReachedUnasked(n) == IF Handles(n) THEN OwnCall(n) ELSE PoolCall(n)

\* dispatch.  The model may call a name it was not offered.
Reached(n) ==
    IF n \notin exposed THEN {}
    ELSE IF Handles(n) THEN OwnCall(n)
    ELSE PoolCall(n)

Call(n) ==
    /\ pc = "serve"
    /\ ran' = ran \cup Reached(n)
    /\ UNCHANGED <<flags, pc, untried, clients, open, defs, routes, exposed>>

Close ==
    /\ pc = "serve"
    /\ open' = open \ clients
    /\ pc' = "done"
    /\ UNCHANGED <<flags, untried, clients, defs, routes, exposed, ran>>

Next ==
    \/ \E s \in Servers :
        \/ Connect(s)
        \/ \E tools \in SUBSET Tools : List(s, tools)
        \/ Skip(s)
    \/ Connected \/ Listed
    \/ \E n \in Names : Call(n)
    \/ Close

Spec == Init /\ [][Next]_vars

-----------------------------------------------------------------------------
Route == [server : Servers, tool : Tools]

\* Every variable has values of its kind.
TypeOK ==
    /\ flags \in Flags
    /\ pc \in {"connect", "list", "serve", "done", "failed"}
    /\ untried \subseteq Servers /\ clients \subseteq Servers /\ open \subseteq Servers
    /\ \A d \in defs : d \in [name : McpNames, server : Servers, tool : Tools]
                       \/ d \in { OwnDef(n) : n \in Builtins }
    /\ DOMAIN routes \subseteq McpNames
    /\ \A n \in DOMAIN routes : routes[n] \in Route
    /\ exposed \subseteq Names

\* Pool.Call takes the client of a route without looking: a server that was
\* skipped, in whatever order, must have left no route.
RoutesLive == \A n \in DOMAIN routes : routes[n].server \in clients

\* Whatever name the model calls, what executes is a tool that was found and
\* that the flags leave: a hidden definition cannot be reached by its name.
RanAsAllowed ==
    \A r \in ran :
        \E d \in defs :
            /\ d.server = r.server /\ d.tool = r.tool
            /\ d.name \notin flags.disallowed
            /\ r.server = Own => d.name \in flags.tools /\ (d.name = "bash" => flags.allowBash)

\* No tool is offered that a call would answer with "unknown tool".
OffersAnswered == pc = "serve" => \A n \in exposed : Reached(n) # {}

\* A call of an offered tool executes a tool that was listed under that name,
\* on the server that listed it: the only one, unless servers come to the same
\* full name.  Which of those it is depends on the order of a map.
OffersReachOwner ==
    pc = "serve" =>
        \A n \in exposed :
            \E d \in defs :
                d.name = n /\ Reached(n) = { [server |-> d.server, tool |-> d.tool] }

\* When the run is over no server is left behind, those included that failed
\* after they were started.
NoneLeftOpen == pc \in {"done", "failed"} => open = {}

-----------------------------------------------------------------------------
\* "if EVERY configured server fails, that is fatal".
NeverToolless == pc = "serve" /\ Servers # {} => clients # {}
=============================================================================
