-------------------------- MODULE ToolSupplyProofs --------------------------
(***************************************************************************)
(* For any servers, tools and flags: no route leads to a server that was   *)
(* given up, no call executes what the flags hide, every tool offered is   *)
(* one that a call reaches, and no server is left behind.                  *)
(***************************************************************************)
EXTENDS ToolSupply, TLAPS

(***************************************************************************)
(* Routes.  While the servers are listed one by one, a route leads to one  *)
(* that is behind the loop; those ahead of it may still be given up.       *)
(***************************************************************************)
RoutesBehind ==
    /\ pc = "connect" => DOMAIN routes = {}
    /\ \A n \in DOMAIN routes :
         routes[n].server \in clients /\ (pc = "list" => routes[n].server \notin untried)

ListedConnected == pc = "list" => untried \subseteq clients

LEMMA RoutesInduction ==
    ASSUME RoutesBehind, ListedConnected, [Next]_vars
    PROVE  RoutesBehind' /\ ListedConnected'
  <1> USE DEF RoutesBehind, ListedConnected
  <1>1. ASSUME NEW s \in Servers, Connect(s) PROVE RoutesBehind' /\ ListedConnected'
    BY <1>1 DEF Connect
  <1>2. ASSUME NEW s \in Servers, NEW tools \in SUBSET Tools, List(s, tools)
        PROVE  RoutesBehind' /\ ListedConnected'
    <2>1. /\ pc = "list" /\ pc' = "list" /\ clients' = clients
          /\ s \in clients /\ untried' = untried \ {s}
      BY <1>2 DEF List
    <2>2. ASSUME NEW n \in DOMAIN routes'
          PROVE  routes'[n].server \in clients /\ routes'[n].server \notin untried'
      <3>1. CASE \E t \in tools : n = FullName[s][t]
        <4>1. routes'[n].server = s
          BY <1>2, <3>1 DEF List
        <4> QED
          BY <2>1, <4>1
      <3>2. CASE ~\E t \in tools : n = FullName[s][t]
        <4>1. n \in DOMAIN routes /\ routes'[n] = routes[n]
          BY <1>2, <3>2 DEF List
        <4> QED
          BY <2>1, <4>1
      <3> QED
        BY <3>1, <3>2
    <2> QED
      BY <2>1, <2>2
  <1>3. ASSUME NEW s \in Servers, Skip(s) PROVE RoutesBehind' /\ ListedConnected'
    BY <1>3 DEF Skip
  <1>4. CASE Connected
    BY <1>4 DEF Connected
  <1>5. CASE Listed \/ Close \/ \E n \in Names : Call(n)
    BY <1>5 DEF Listed, Close, Call
  <1>6. CASE UNCHANGED vars
    BY <1>6 DEF vars
  <1> QED
    BY <1>1, <1>2, <1>3, <1>4, <1>5, <1>6 DEF Next

\* Pool.Call never finds a route without its client.
THEOREM RoutesStayLive == Spec => []RoutesLive
  <1>1. Init => RoutesBehind /\ ListedConnected
    BY DEF Init, RoutesBehind, ListedConnected
  <1>2. RoutesBehind /\ ListedConnected /\ [Next]_vars => (RoutesBehind /\ ListedConnected)'
    BY RoutesInduction
  <1>3. RoutesBehind => RoutesLive
    BY DEF RoutesBehind, RoutesLive
  <1> QED
    BY <1>1, <1>2, <1>3, PTL DEF Spec

(***************************************************************************)
(* What runs.  Every route stands for a tool that was found under its      *)
(* name, and every name offered for one that the flags leave.              *)
(***************************************************************************)
Found(n, r) == [name |-> n, server |-> r.server, tool |-> r.tool] \in defs

RoutesFound ==
    \A n \in DOMAIN routes :
        n \in McpNames /\ routes[n].server \in Servers /\ Found(n, routes[n])

DefsKnown ==
    \A d \in defs : d.name \in McpNames \/ pc \in {"serve", "done"}

OwnAllowed(n) == n \in flags.tools /\ (n = "bash" => flags.allowBash)

ExposedAllowed ==
    \A n \in exposed :
        /\ n \notin flags.disallowed
        /\ n \in Builtins => OwnDef(n) \in defs /\ OwnAllowed(n)

Allowed == RoutesFound /\ DefsKnown /\ ExposedAllowed /\ RanAsAllowed

\* What ran stays allowed as long as the flags stand and no tool is lost.
LEMMA RanKept ==
    ASSUME RanAsAllowed, flags' = flags, defs \subseteq defs', ran' = ran
    PROVE  RanAsAllowed'
  BY DEF RanAsAllowed

LEMMA ListAllowed ==
    ASSUME Allowed, NEW s \in Servers, NEW tools \in SUBSET Tools, List(s, tools)
    PROVE  Allowed'
  <1>1. /\ flags' = flags /\ ran' = ran /\ exposed' = exposed /\ pc' = pc
        /\ defs' = defs \cup { [name |-> FullName[s][t], server |-> s, tool |-> t] : t \in tools }
    BY DEF List
  <1>2. \A t \in tools : FullName[s][t] \in McpNames
    BY ToolAssumption
  <1>3. RanAsAllowed'
    BY <1>1, RanKept DEF Allowed
  <1>4. DefsKnown'
    BY <1>1, <1>2 DEF Allowed, DefsKnown
  <1>5. ExposedAllowed'
    BY <1>1 DEF Allowed, ExposedAllowed, OwnAllowed
  <1>6. ASSUME NEW n \in DOMAIN routes'
        PROVE  n \in McpNames /\ routes'[n].server \in Servers /\ Found(n, routes[n])'
    <2>1. CASE \E t \in tools : n = FullName[s][t]
      <3> DEFINE t == CHOOSE u \in tools : n = FullName[s][u]
      <3>1. t \in tools /\ n = FullName[s][t]
        BY <2>1
      <3>2. routes'[n] = [server |-> s, tool |-> t]
        BY <2>1 DEF List
      <3> HIDE DEF t
      <3> QED
        BY <1>1, <1>2, <3>1, <3>2 DEF Found
    <2>2. CASE ~\E t \in tools : n = FullName[s][t]
      <3>1. n \in DOMAIN routes /\ routes'[n] = routes[n]
        BY <2>2 DEF List
      <3> QED
        BY <1>1, <3>1 DEF Allowed, RoutesFound, Found
    <2> QED
      BY <2>1, <2>2
  <1> QED
    BY <1>3, <1>4, <1>5, <1>6 DEF Allowed, RoutesFound

LEMMA ListedAllowed ==
    ASSUME Allowed, Listed
    PROVE  Allowed'
  <1>1. /\ flags' = flags /\ ran' = ran /\ routes' = routes /\ pc' = "serve"
        /\ pc = "list" /\ defs' = selectBuiltins(Defs) \cup defs
        /\ exposed' = { d.name : d \in filterTools(defs') }
    BY DEF Listed
  <1>2. ASSUME NEW n \in exposed'
        PROVE  /\ n \notin flags.disallowed
               /\ n \in Builtins => OwnDef(n) \in defs' /\ OwnAllowed(n)
    <2>1. PICK d \in defs' : n = d.name /\ n \notin flags.disallowed
      BY <1>1 DEF filterTools
    <2>2. ASSUME n \in Builtins PROVE OwnDef(n) \in defs' /\ OwnAllowed(n)
      <3>1. d \notin defs
        BY <1>1, <2>1, <2>2, ToolAssumption DEF Allowed, DefsKnown
      <3>2. d \in selectBuiltins(Defs)
        BY <1>1, <2>1, <3>1
      <3>3. PICK b \in FileTools \cup (IF flags.allowBash THEN {"bash"} ELSE {}) :
              d = OwnDef(b) /\ d.name \in flags.tools
        BY <3>2 DEF selectBuiltins, Defs
      <3>4. b = n
        BY <2>1, <3>3 DEF OwnDef
      <3> QED
        BY <3>3, <3>4, <2>1 DEF OwnAllowed, FileTools, OwnDef
    <2> QED
      BY <2>1, <2>2
  <1>3. ExposedAllowed'
    BY <1>1, <1>2 DEF ExposedAllowed, OwnAllowed, OwnDef
  <1>4. RanAsAllowed'
    BY <1>1, RanKept DEF Allowed
  <1>5. RoutesFound'
    BY <1>1 DEF Allowed, RoutesFound, Found
  <1>6. DefsKnown'
    BY <1>1 DEF DefsKnown
  <1> QED
    BY <1>3, <1>4, <1>5, <1>6 DEF Allowed

LEMMA CallAllowed ==
    ASSUME Allowed, NEW n \in Names, Call(n)
    PROVE  Allowed'
  <1>1. /\ flags' = flags /\ pc' = pc /\ defs' = defs /\ routes' = routes /\ exposed' = exposed
        /\ ran' = ran \cup Reached(n)
    BY DEF Call
  <1>2. ASSUME NEW r \in Reached(n)
        PROVE  \E d \in defs :
                 /\ d.server = r.server /\ d.tool = r.tool
                 /\ d.name \notin flags.disallowed
                 /\ r.server = Own => d.name \in flags.tools /\ (d.name = "bash" => flags.allowBash)
    <2>1. n \in exposed
      BY <1>2 DEF Reached
    <2>2. n \notin flags.disallowed
      BY <2>1 DEF Allowed, ExposedAllowed
    <2>3. CASE Handles(n)
      <3>1. r = [server |-> Own, tool |-> n]
        BY <1>2, <2>1, <2>3 DEF Reached, OwnCall
      <3>2. n \in Builtins
        BY <2>3 DEF Handles, Builtins
      <3>3. OwnDef(n) \in defs /\ OwnAllowed(n)
        BY <2>1, <3>2 DEF Allowed, ExposedAllowed
      <3>4. OwnDef(n).server = r.server /\ OwnDef(n).tool = r.tool /\ OwnDef(n).name = n
        BY <3>1 DEF OwnDef
      <3> QED
        BY <2>2, <3>3, <3>4 DEF OwnAllowed
    <2>4. CASE ~Handles(n)
      <3>1. n \in DOMAIN routes /\ r = routes[n]
        BY <1>2, <2>1, <2>4 DEF Reached, PoolCall
      <3>2. r.server # Own /\ Found(n, r)
        BY <3>1, ToolAssumption DEF Allowed, RoutesFound
      <3> QED
        BY <2>2, <3>2 DEF Found
    <2> QED
      BY <2>3, <2>4
  <1>3. RanAsAllowed'
    BY <1>1, <1>2 DEF Allowed, RanAsAllowed
  <1> QED
    BY <1>1, <1>3 DEF Allowed, RoutesFound, Found, DefsKnown, ExposedAllowed, OwnAllowed

\* No call executes a tool that the flags hide or that nobody listed, whatever
\* name the model makes up (dispatch, filterTools, selectBuiltins, Handles).
THEOREM RunsAsAllowed == Spec => []RanAsAllowed
  <1>1. Init => Allowed
    BY DEF Init, Allowed, RoutesFound, DefsKnown, ExposedAllowed, RanAsAllowed
  <1>2. Allowed /\ [Next]_vars => Allowed'
    <2> SUFFICES ASSUME Allowed, [Next]_vars PROVE Allowed'
      OBVIOUS
    <2> USE DEF RoutesFound, Found, DefsKnown, ExposedAllowed, OwnAllowed
    <2>1. ASSUME NEW s \in Servers, Connect(s) \/ Skip(s) PROVE Allowed'
      <3>1. /\ flags' = flags /\ pc' = pc /\ defs' = defs /\ routes' = routes
            /\ exposed' = exposed /\ ran' = ran
        BY <2>1 DEF Connect, Skip
      <3> QED
        BY <3>1, RanKept DEF Allowed
    <2>2. CASE Connected \/ Close
      <3>1. /\ flags' = flags /\ defs' = defs /\ routes' = routes
            /\ exposed' = exposed /\ ran' = ran
            /\ pc \in {"serve", "done"} => pc' \in {"serve", "done"}
        BY <2>2 DEF Connected, Close
      <3> QED
        BY <3>1, RanKept DEF Allowed
    <2>3. CASE UNCHANGED vars
      BY <2>3, RanKept DEF vars, Allowed
    <2> QED
      BY <2>1, <2>2, <2>3, ListAllowed, ListedAllowed, CallAllowed DEF Next
  <1>3. Allowed => RanAsAllowed
    BY DEF Allowed
  <1> QED
    BY <1>1, <1>2, <1>3, PTL DEF Spec

(***************************************************************************)
(* Types.                                                                  *)
(***************************************************************************)

McpDef == [name : McpNames, server : Servers, tool : Tools]
OwnDefs == { OwnDef(n) : n \in Builtins }

\* The tools that a server lists.
LEMMA ListTypes ==
    ASSUME TypeOK, NEW s \in Servers, NEW tools \in SUBSET Tools, List(s, tools)
    PROVE  TypeOK'
  <1>1. \A t \in tools : FullName[s][t] \in McpNames
    BY ToolAssumption
  <1>2. \A t \in tools :
          [name |-> FullName[s][t], server |-> s, tool |-> t] \in McpDef
    BY <1>1 DEF McpDef
  <1>3. \A d \in defs' : d \in McpDef \/ d \in OwnDefs
    BY <1>2 DEF List, TypeOK, McpDef, OwnDefs
  <1>4. DOMAIN routes' \subseteq McpNames
    BY <1>1 DEF List, TypeOK
  <1>5. ASSUME NEW n \in DOMAIN routes' PROVE routes'[n] \in Route
    <2>1. CASE \E t \in tools : n = FullName[s][t]
      <3> DEFINE t == CHOOSE u \in tools : n = FullName[s][u]
      <3>1. t \in tools
        BY <2>1
      <3>2. routes'[n] = [server |-> s, tool |-> t]
        BY <2>1 DEF List
      <3> HIDE DEF t
      <3> QED
        BY <3>1, <3>2 DEF Route
    <2>2. CASE ~\E t \in tools : n = FullName[s][t]
      <3>1. n \in DOMAIN routes /\ routes'[n] = routes[n]
        BY <2>2 DEF List
      <3> QED
        BY <3>1 DEF TypeOK
    <2> QED
      BY <2>1, <2>2
  <1> QED
    BY <1>3, <1>4, <1>5 DEF List, TypeOK, McpDef, OwnDefs

LEMMA ListedTypes ==
    ASSUME TypeOK, Listed
    PROVE  TypeOK'
  <1>1. \A d \in selectBuiltins(Defs) : d \in OwnDefs
    BY DEF selectBuiltins, Defs, OwnDefs, Builtins
  <1>2. \A d \in defs' : d \in McpDef \/ d \in OwnDefs
    BY <1>1 DEF Listed, TypeOK, McpDef, OwnDefs
  <1>3. \A d \in defs' : d.name \in Names
    BY <1>2 DEF McpDef, OwnDefs, OwnDef, Names
  <1>4. exposed' \subseteq Names
    BY <1>3 DEF Listed, filterTools
  <1> QED
    BY <1>2, <1>4 DEF Listed, TypeOK, McpDef, OwnDefs

\* Every variable keeps values of its kind, for any servers and tools.
THEOREM SupplyTypeCorrect == Spec => []TypeOK
  <1>1. Init => TypeOK
    BY ToolAssumption DEF Init, TypeOK
  <1>2. TypeOK /\ [Next]_vars => TypeOK'
    <2> SUFFICES ASSUME TypeOK, [Next]_vars PROVE TypeOK'
      OBVIOUS
    <2>1. ASSUME NEW s \in Servers, Connect(s) \/ Skip(s) PROVE TypeOK'
      BY <2>1 DEF Connect, Skip, TypeOK
    <2>2. CASE Connected \/ Close \/ (\E n \in Names : Call(n)) \/ UNCHANGED vars
      BY <2>2 DEF Connected, Close, Call, vars, TypeOK
    <2> QED
      BY <2>1, <2>2, ListTypes, ListedTypes DEF Next
  <1> QED
    BY <1>1, <1>2, PTL DEF Spec

(***************************************************************************)
(* What is offered.  Every definition is handled or routed, and a route is *)
(* that of the tool listed last under its name, so one that was listed.    *)
(***************************************************************************)

Serving == {"serve", "done"}

Routed(d) == d.name \in McpNames /\ d.name \in DOMAIN routes

Offered ==
    /\ \A d \in defs : Routed(d) \/ (pc \in Serving /\ d \in Defs)
    /\ \A n \in exposed : \E d \in defs : n = d.name

\* The tools of the program itself are handled, and by no route.
LEMMA OwnHandled ==
    ASSUME NEW d \in Defs
    PROVE  /\ Handles(d.name) /\ d.server = Own /\ d.tool = d.name
           /\ OwnCall(d.name) = { [server |-> Own, tool |-> d.name] }
  BY DEF Defs, OwnDef, Handles, OwnCall

\* The names of servers' tools are not handled by the program.
LEMMA McpNotHandled ==
    ASSUME NEW n \in McpNames
    PROVE  ~Handles(n)
  BY ToolAssumption DEF Handles, Builtins

LEMMA NextOffered == Offered /\ [Next]_vars => Offered'
  <1> SUFFICES ASSUME Offered, [Next]_vars PROVE Offered'
    OBVIOUS
  <1> USE DEF Serving
  <1>1. ASSUME NEW s \in Servers, NEW tools \in SUBSET Tools, List(s, tools) PROVE Offered'
    <2>1. \A t \in tools : FullName[s][t] \in McpNames
      BY ToolAssumption
    <2>2. /\ pc = "list" /\ exposed' = exposed
          /\ defs' = defs \cup
               { [name |-> FullName[s][t], server |-> s, tool |-> t] : t \in tools }
          /\ DOMAIN routes' = DOMAIN routes \cup { FullName[s][t] : t \in tools }
      BY <1>1 DEF List
    <2>3. \A d \in defs' : Routed(d)'
      BY <2>1, <2>2 DEF Offered, Routed
    <2> QED
      BY <2>2, <2>3 DEF Offered
  <1>2. CASE Listed
    <2>1. /\ defs' = selectBuiltins(Defs) \cup defs /\ pc' = "serve" /\ pc = "list"
          /\ exposed' = { d.name : d \in filterTools(defs') }
          /\ routes' = routes /\ flags' = flags
      BY <1>2 DEF Listed
    <2>2. \A d \in defs' : Routed(d)' \/ d \in Defs'
      BY <2>1 DEF Offered, Routed, selectBuiltins, Defs
    <2>3. \A n \in exposed' : \E d \in defs' : n = d.name
      BY <2>1 DEF filterTools
    <2> QED
      BY <2>1, <2>2, <2>3 DEF Offered
  <1>3. ASSUME NEW s \in Servers, Connect(s) \/ Skip(s) PROVE Offered'
    BY <1>3 DEF Connect, Skip, Offered, Routed, Defs
  <1>4. CASE Connected \/ Close \/ (\E n \in Names : Call(n)) \/ UNCHANGED vars
    BY <1>4 DEF Connected, Close, Call, vars, Offered, Routed, Defs
  <1> QED
    BY <1>1, <1>2, <1>3, <1>4 DEF Next

\* No tool is offered that a call would answer with "unknown tool": what is
\* handled and what is defined agree (Defs and Handles, Pool.Call).
THEOREM OffersAreAnswered == Spec => []OffersAnswered
  <1>1. Init => Offered
    BY DEF Init, Offered
  <1>2. Offered => OffersAnswered
    <2> SUFFICES ASSUME Offered, NEW n \in exposed PROVE Reached(n) # {}
      BY DEF OffersAnswered
    <2>1. PICK d \in defs : n = d.name
      BY DEF Offered
    <2>2. CASE Routed(d)
      <3>1. Reached(n) = PoolCall(n)
        BY <2>1, <2>2, McpNotHandled DEF Routed, Reached
      <3> QED
        BY <2>1, <2>2, <3>1 DEF Routed, PoolCall
    <2>3. CASE d \in Defs
      <3>1. Reached(n) = OwnCall(n) /\ OwnCall(n) = { [server |-> Own, tool |-> n] }
        BY <2>1, <2>3, OwnHandled DEF Reached
      <3> QED
        BY <3>1
    <2> QED
      BY <2>2, <2>3 DEF Offered
  <1> QED
    BY <1>1, <1>2, NextOffered, PTL DEF Spec

\* Every route is that of a tool found under the route's name.
RoutesListed ==
    \A n \in DOMAIN routes :
        \E d \in defs : d.name = n /\ routes[n] = [server |-> d.server, tool |-> d.tool]

LEMMA NextListed == RoutesListed /\ [Next]_vars => RoutesListed'
  <1> SUFFICES ASSUME RoutesListed, [Next]_vars PROVE RoutesListed'
    OBVIOUS
  <1>1. ASSUME NEW s \in Servers, NEW tools \in SUBSET Tools, List(s, tools) PROVE RoutesListed'
    <2> DEFINE of(t) == [name |-> FullName[s][t], server |-> s, tool |-> t]
    <2>1. /\ defs' = defs \cup { of(t) : t \in tools }
          /\ DOMAIN routes' = DOMAIN routes \cup { FullName[s][t] : t \in tools }
      BY <1>1 DEF List
    <2> SUFFICES ASSUME NEW n \in DOMAIN routes'
                 PROVE  \E d \in defs' :
                          d.name = n /\ routes'[n] = [server |-> d.server, tool |-> d.tool]
      BY DEF RoutesListed
    <2>2. CASE \E t \in tools : n = FullName[s][t]
      <3> DEFINE u == CHOOSE t \in tools : n = FullName[s][t]
      <3>1. u \in tools /\ n = FullName[s][u]
        BY <2>2
      <3>2. routes'[n] = [server |-> s, tool |-> u]
        BY <1>1, <2>1, <2>2 DEF List
      <3> HIDE DEF u
      <3>3. of(u) \in defs' /\ of(u).name = n
        BY <2>1, <3>1
      <3> QED
        BY <3>2, <3>3
    <2>3. CASE ~\E t \in tools : n = FullName[s][t]
      <3>1. n \in DOMAIN routes
        BY <2>1, <2>3
      <3>2. routes'[n] = routes[n]
        BY <1>1, <2>1, <2>3 DEF List
      <3> QED
        BY <2>1, <3>1, <3>2 DEF RoutesListed
    <2> QED
      BY <2>2, <2>3
  <1>2. CASE Listed
    BY <1>2 DEF Listed, RoutesListed
  <1>3. ASSUME NEW s \in Servers, Connect(s) \/ Skip(s) PROVE RoutesListed'
    BY <1>3 DEF Connect, Skip, RoutesListed
  <1>4. CASE Connected \/ Close \/ (\E n \in Names : Call(n)) \/ UNCHANGED vars
    BY <1>4 DEF Connected, Close, Call, vars, RoutesListed
  <1> QED
    BY <1>1, <1>2, <1>3, <1>4 DEF Next

\* For any servers, tools and flags, and whatever names servers share, a call of
\* an offered tool executes a tool that was listed under that name, on the
\* server that listed it (startWithClients, dispatch, Pool.Call).
THEOREM OffersGoToOwner == Spec => []OffersReachOwner
  <1>1. Init => Offered /\ RoutesListed
    BY DEF Init, Offered, RoutesListed
  <1>2. Offered /\ RoutesListed => OffersReachOwner
    <2> SUFFICES ASSUME Offered, RoutesListed, NEW n \in exposed
                 PROVE  \E d \in defs :
                          d.name = n /\ Reached(n) = { [server |-> d.server, tool |-> d.tool] }
      BY DEF OffersReachOwner
    <2>1. PICK d \in defs : n = d.name
      BY DEF Offered
    <2>2. CASE Routed(d)
      <3>1. n \in DOMAIN routes /\ Reached(n) = { routes[n] }
        BY <2>1, <2>2, McpNotHandled DEF Routed, Reached, PoolCall
      <3> QED
        BY <3>1 DEF RoutesListed
    <2>3. CASE d \in Defs
      BY <2>1, <2>3, OwnHandled DEF Reached
    <2> QED
      BY <2>2, <2>3 DEF Offered
  <1> QED
    BY <1>1, <1>2, NextOffered, NextListed, PTL DEF Spec

(***************************************************************************)
(* What is left behind.                                                    *)
(***************************************************************************)

Owned ==
    /\ pc # "done" => open = clients
    /\ pc = "failed" => clients = {}
    /\ pc = "done" => open = {}

\* When the run is over, or could not begin, every server that was started is
\* closed: those that failed to list their tools on the way, the others by
\* Pool.Close.
THEOREM NoServerLeftOpen == Spec => []NoneLeftOpen
  <1>1. Init => Owned
    BY DEF Init, Owned
  <1>2. Owned /\ [Next]_vars => Owned'
    BY DEF Owned, Next, Connect, List, Skip, Connected, Listed, Call, Close, vars
  <1>3. Owned => NoneLeftOpen
    BY DEF Owned, NoneLeftOpen
  <1> QED
    BY <1>1, <1>2, <1>3, PTL DEF Spec
=============================================================================
