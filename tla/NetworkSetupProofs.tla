------------------------- MODULE NetworkSetupProofs -------------------------
(***************************************************************************)
(* What a simulation that has come up can rely on, for networks and        *)
(* constellations of any size: first NodeNumbers, then IslGrid, then both  *)
(* together.                                                               *)
(*                                                                         *)
(* The four ways to a node's number agree: all that is needed is that      *)
(* getNodeModule maps the numbers one to one to the modules and that the   *)
(* two loops over names, together, have its names. Then each of the tables *)
(* is, after k rounds, its inverse on the first k numbers; the table of    *)
(* names, if routers could not be written, on those from the first         *)
(* endpoint's on.                                                          *)
(*                                                                         *)
(* The grid links all neighbours and nobody else: for any number of planes *)
(* and of satellites per plane from two on, and any part of them in use.   *)
(* The proof is the arithmetic that the three computations of the grid     *)
(* share: a satellite's number is its plane times the satellites per plane *)
(* plus an index within the plane. It cuts no satellite off, and the edges *)
(* of the routing graph, by the numbers of the nodes, are its channels.    *)
(***************************************************************************)
EXTENDS NetworkSetup, NaturalOrder, SequenceTheorems

-----------------------------------------------------------------------------
(* NodeNumbers: the inductive invariant.                                   *)

Stages == {"assignIDtoModules", "writeModuleIDMappingsToFile",
           "updateModuleIDMappingsClientServer", "setIpv4NodeIds", "done"}

(* The table f has the numbers from "first" on that are less than k. *)
Numbers(f, first, k) ==
  /\ DOMAIN f = {GetNodeModule(n) : n \in first .. k - 1}
  /\ \A n \in first .. k - 1 : f[GetNodeModule(n)] = n

(* How far each table is. *)
Assigned == IF stage = "assignIDtoModules" THEN nodeNum ELSE userTerminalEnd

Named ==
  IF stage = "assignIDtoModules" THEN 0
  ELSE IF stage \in {"writeModuleIDMappingsToFile", "updateModuleIDMappingsClientServer"} THEN nodeNum
  ELSE userTerminalEnd

Told ==
  IF stage = "setIpv4NodeIds" THEN nodeNum
  ELSE IF stage = "done" THEN userTerminalEnd
  ELSE 0

StageOK ==
  /\ network \in Networks
  /\ stage \in Stages
  /\ nodeNum \in 0 .. userTerminalEnd
  /\ stage = "writeModuleIDMappingsToFile" => nodeNum <= endpointStart
  /\ stage = "updateModuleIDMappingsClientServer" => nodeNum >= endpointStart

ModulesOK ==
  /\ nodeModules \in Seq({GetNodeModule(n) : n \in Nat})
  /\ Len(nodeModules) = Assigned
  /\ \A k \in 1 .. Assigned : nodeModules[k] = GetNodeModule(k - 1)

(* The first number in the table of names: that of the first endpoint if   *)
(* the names of routers were not written. *)
MayBeFirstNamed(first) ==
  \/ first = 0
  \/ /\ first = endpointStart /\ ~loadFiles
     /\ stage \in Stages \ {"assignIDtoModules", "writeModuleIDMappingsToFile"}

NamesOK(first) == MayBeFirstNamed(first) /\ Numbers(moduleGraphIDMap, first, Named)

NumbersInv ==
  /\ StageOK
  /\ ModulesOK
  /\ Numbers(moduleGraphIdByModule, 0, Assigned)
  /\ \E first \in {0, endpointStart} : NamesOK(first)
  /\ Numbers(nodeId, 0, Told)

-----------------------------------------------------------------------------
(* Names and numbers.                                                      *)

(* The boundaries between the kinds of nodes. *)
LEMMA Boundaries ==
  ASSUME network \in Networks
  PROVE  /\ network.numOfSats \in Nat /\ network.numOfGS \in Nat
         /\ network.numOfClients \in Nat /\ network.numOfUserTerminals \in Nat
         /\ endpointStart \in Nat /\ clientEnd \in Nat /\ serverEnd \in Nat
         /\ userTerminalEnd \in Nat
         /\ network.numOfSats <= endpointStart /\ endpointStart <= clientEnd
         /\ clientEnd <= serverEnd /\ serverEnd <= userTerminalEnd
BY NetworksAssumption DEF endpointStart, clientEnd, serverEnd, userTerminalEnd

(* What getNodeModule returns for each range of numbers. *)
LEMMA ModuleOfNumber ==
  ASSUME network \in Networks, NEW n \in Nat
  PROVE  /\ n < network.numOfSats => GetNodeModule(n) = Node("satellite", n)
         /\ network.numOfSats <= n /\ n < endpointStart
              => GetNodeModule(n) = Node("groundStation", n - network.numOfSats)
         /\ endpointStart <= n /\ n < clientEnd => GetNodeModule(n) = Node("client", n - endpointStart)
         /\ clientEnd <= n /\ n < serverEnd => GetNodeModule(n) = Node("server", n - clientEnd)
         /\ serverEnd <= n => GetNodeModule(n) = Node("userTerminal", n - serverEnd)
BY Boundaries DEF GetNodeModule, Node

(* No two numbers have the same module. *)
LEMMA NumbersDiffer ==
  ASSUME network \in Networks, NEW m \in Nat, NEW n \in Nat, m # n
  PROVE  GetNodeModule(m) # GetNodeModule(n)
BY Boundaries, ModuleOfNumber DEF Node

(* The loops over names have the names that getNodeModule looks up. *)
LEMMA NamesOfNumber ==
  ASSUME network \in Networks, NEW n \in Nat
  PROVE  /\ n < endpointStart => RouterName(n) = GetNodeModule(n)
         /\ endpointStart <= n => EndpointName(n) = GetNodeModule(n)
<1>1. n < endpointStart => RouterName(n) = GetNodeModule(n)
  BY Boundaries, ModuleOfNumber DEF RouterName, Node
<1>2. endpointStart <= n => EndpointName(n) = GetNodeModule(n)
  BY Boundaries, ModuleOfNumber DEF EndpointName, Node
<1> QED
  BY <1>1, <1>2

(* A round adds a number to a table. *)
LEMMA OneMore ==
  ASSUME network \in Networks, NEW f, NEW first \in Nat, NEW k \in Nat, first <= k,
         Numbers(f, first, k)
  PROVE  Numbers(Put(f, GetNodeModule(k), k), first, k + 1)
<1> DEFINE g == Put(f, GetNodeModule(k), k)
<1>1. DOMAIN g = {GetNodeModule(k)} \union DOMAIN f
  BY DEF Put
<1>2. g[GetNodeModule(k)] = k
  BY DEF Put
<1>3. \A m \in DOMAIN f : m # GetNodeModule(k) => g[m] = f[m]
  BY DEF Put
<1> HIDE DEF g
<1>4. first .. (k + 1) - 1 = (first .. k - 1) \union {k}
  OBVIOUS
<1>5. DOMAIN g = {GetNodeModule(n) : n \in first .. (k + 1) - 1}
  BY <1>1, <1>4 DEF Numbers
<1>6. ASSUME NEW n \in first .. (k + 1) - 1
      PROVE  g[GetNodeModule(n)] = n
  <2>1. CASE n = k
    BY <2>1, <1>2
  <2>2. CASE n # k
    <3>1. n \in first .. k - 1 /\ n \in Nat
      BY <2>2
    <3>2. GetNodeModule(n) # GetNodeModule(k)
      BY <3>1, <2>2, NumbersDiffer
    <3>3. GetNodeModule(n) \in DOMAIN f /\ f[GetNodeModule(n)] = n
      BY <3>1 DEF Numbers
    <3> QED
      BY <3>2, <3>3, <1>3
  <2> QED
    BY <2>1, <2>2
<1> QED
  BY <1>5, <1>6 DEF Numbers, g

(* The numbers are those of all modules that the constructor knows. *)
LEMMA AllModules ==
  ASSUME network \in Networks
  PROVE  /\ {GetNodeModule(n) : n \in 0 .. userTerminalEnd - 1} = CachedModules
         /\ {GetNodeModule(n) : n \in endpointStart .. userTerminalEnd - 1} = CachedModules \ Routers
         /\ \A n \in 0 .. userTerminalEnd - 1 :
              /\ GetNodeModule(n).kind = "satellite" => n = GetNodeModule(n).index
              /\ GetNodeModule(n).kind = "groundStation"
                   => n = network.numOfSats + GetNodeModule(n).index
              /\ NodeTypeCode(n) = IF GetNodeModule(n).kind = "satellite" THEN 0
                                ELSE IF GetNodeModule(n).kind = "groundStation" THEN 1 ELSE 2
<1> DEFINE E == userTerminalEnd
<1>0. ASSUME NEW n \in 0 .. E - 1
      PROVE  n \in Nat /\ n < E
  BY Boundaries
<1>1. ASSUME NEW n \in 0 .. E - 1
      PROVE  GetNodeModule(n) \in CachedModules
  <2>1. CASE n < network.numOfSats
    <3>1. GetNodeModule(n) = Node("satellite", n)
      BY <1>0, <2>1, Boundaries, ModuleOfNumber
    <3>2. n \in 0 .. network.numOfSats - 1
      BY <1>0, <2>1, Boundaries
    <3> QED
      BY <3>1, <3>2 DEF NodesOf, CachedModules, Routers
  <2>2. CASE network.numOfSats <= n /\ n < endpointStart
    <3>1. GetNodeModule(n) = Node("groundStation", n - network.numOfSats)
      BY <1>0, <2>2, Boundaries, ModuleOfNumber
    <3>2. n - network.numOfSats \in 0 .. network.numOfGS - 1
      BY <1>0, <2>2, Boundaries DEF endpointStart
    <3> QED
      BY <3>1, <3>2 DEF NodesOf, CachedModules, Routers
  <2>3. CASE endpointStart <= n /\ n < clientEnd
    <3>1. GetNodeModule(n) = Node("client", n - endpointStart)
      BY <1>0, <2>3, Boundaries, ModuleOfNumber
    <3>2. n - endpointStart \in 0 .. network.numOfClients - 1
      BY <1>0, <2>3, Boundaries DEF clientEnd
    <3> QED
      BY <3>1, <3>2 DEF NodesOf, CachedModules, Routers
  <2>4. CASE clientEnd <= n /\ n < serverEnd
    <3>1. GetNodeModule(n) = Node("server", n - clientEnd)
      BY <1>0, <2>4, Boundaries, ModuleOfNumber
    <3>2. n - clientEnd \in 0 .. network.numOfClients - 1
      BY <1>0, <2>4, Boundaries DEF serverEnd
    <3> QED
      BY <3>1, <3>2 DEF NodesOf, CachedModules, Routers
  <2>5. CASE serverEnd <= n
    <3>1. GetNodeModule(n) = Node("userTerminal", n - serverEnd)
      BY <1>0, <2>5, Boundaries, ModuleOfNumber
    <3>2. n - serverEnd \in 0 .. network.numOfUserTerminals - 1
      BY <1>0, <2>5, Boundaries DEF userTerminalEnd
    <3> QED
      BY <3>1, <3>2 DEF NodesOf, CachedModules, Routers
  <2> QED
    BY <2>1, <2>2, <2>3, <2>4, <2>5, <1>0, Boundaries
<1>2. ASSUME NEW m \in CachedModules
      PROVE  \E n \in 0 .. E - 1 : m = GetNodeModule(n)
  <2>1. CASE m \in NodesOf("satellite", network.numOfSats)
    <3>1. PICK k \in 0 .. network.numOfSats - 1 : m = Node("satellite", k)
      BY <2>1 DEF NodesOf
    <3> QED
      BY <3>1, Boundaries, ModuleOfNumber
  <2>2. CASE m \in NodesOf("groundStation", network.numOfGS)
    <3>1. PICK k \in 0 .. network.numOfGS - 1 : m = Node("groundStation", k)
      BY <2>2 DEF NodesOf
    <3>2. /\ network.numOfSats + k \in 0 .. E - 1
          /\ network.numOfSats <= network.numOfSats + k /\ network.numOfSats + k < endpointStart
          /\ (network.numOfSats + k) - network.numOfSats = k
      BY <3>1, Boundaries DEF endpointStart
    <3> QED
      BY <3>1, <3>2, ModuleOfNumber
  <2>3. CASE m \in NodesOf("client", network.numOfClients)
    <3>1. PICK k \in 0 .. network.numOfClients - 1 : m = Node("client", k)
      BY <2>3 DEF NodesOf
    <3>2. /\ endpointStart + k \in 0 .. E - 1
          /\ endpointStart <= endpointStart + k /\ endpointStart + k < clientEnd
          /\ (endpointStart + k) - endpointStart = k
      BY <3>1, Boundaries DEF clientEnd
    <3> QED
      BY <3>1, <3>2, ModuleOfNumber
  <2>4. CASE m \in NodesOf("server", network.numOfClients)
    <3>1. PICK k \in 0 .. network.numOfClients - 1 : m = Node("server", k)
      BY <2>4 DEF NodesOf
    <3>2. /\ clientEnd + k \in 0 .. E - 1
          /\ clientEnd <= clientEnd + k /\ clientEnd + k < serverEnd
          /\ (clientEnd + k) - clientEnd = k
      BY <3>1, Boundaries DEF serverEnd
    <3> QED
      BY <3>1, <3>2, ModuleOfNumber
  <2>5. CASE m \in NodesOf("userTerminal", network.numOfUserTerminals)
    <3>1. PICK k \in 0 .. network.numOfUserTerminals - 1 : m = Node("userTerminal", k)
      BY <2>5 DEF NodesOf
    <3>2. /\ serverEnd + k \in 0 .. E - 1
          /\ serverEnd <= serverEnd + k
          /\ (serverEnd + k) - serverEnd = k
      BY <3>1, Boundaries DEF userTerminalEnd
    <3> QED
      BY <3>1, <3>2, ModuleOfNumber
  <2> QED
    BY <2>1, <2>2, <2>3, <2>4, <2>5 DEF CachedModules, Routers
<1>3. ASSUME NEW n \in 0 .. E - 1
      PROVE  /\ GetNodeModule(n).kind = "satellite" => n = GetNodeModule(n).index
             /\ GetNodeModule(n).kind = "groundStation"
                  => n = network.numOfSats + GetNodeModule(n).index
  BY <1>0, Boundaries, ModuleOfNumber DEF Node
<1>4. ASSUME NEW n \in 0 .. E - 1
      PROVE  NodeTypeCode(n) = IF GetNodeModule(n).kind = "satellite" THEN 0
                                ELSE IF GetNodeModule(n).kind = "groundStation" THEN 1 ELSE 2
  <2>1. CASE n < network.numOfSats
    <3>1. GetNodeModule(n).kind = "satellite"
      BY <1>0, <2>1, ModuleOfNumber DEF Node
    <3> QED
      BY <3>1, <1>0, <2>1, Boundaries DEF NodeTypeCode
  <2>2. CASE network.numOfSats <= n /\ n < endpointStart
    <3>1. GetNodeModule(n).kind = "groundStation"
      BY <1>0, <2>2, ModuleOfNumber DEF Node
    <3> QED
      BY <3>1, <1>0, <2>2, Boundaries DEF NodeTypeCode
  <2>3. CASE endpointStart <= n
    <3>1. GetNodeModule(n).kind \in {"client", "server", "userTerminal"}
      BY <1>0, <2>3, Boundaries, ModuleOfNumber DEF Node
    <3>2. n < endpointStart + network.numOfClients * 2 + network.numOfUserTerminals
      BY <1>0, Boundaries DEF clientEnd, serverEnd, userTerminalEnd
    <3>3. NodeTypeCode(n) = 2
      BY <3>2, <1>0, <2>3, Boundaries DEF NodeTypeCode
    <3> QED
      BY <3>1, <3>3
  <2> QED
    BY <2>1, <2>2, <2>3, <1>0, Boundaries
<1>5. ASSUME NEW n \in 0 .. E - 1
      PROVE  GetNodeModule(n) \in Routers <=> n < endpointStart
  <2>1. CASE n < network.numOfSats
    <3>1. GetNodeModule(n) = Node("satellite", n) /\ n \in 0 .. network.numOfSats - 1
      BY <1>0, <2>1, Boundaries, ModuleOfNumber
    <3> QED
      BY <3>1, <1>0, <2>1, Boundaries DEF NodesOf, Routers
  <2>2. CASE network.numOfSats <= n /\ n < endpointStart
    <3>1. /\ GetNodeModule(n) = Node("groundStation", n - network.numOfSats)
          /\ n - network.numOfSats \in 0 .. network.numOfGS - 1
      BY <1>0, <2>2, Boundaries, ModuleOfNumber DEF endpointStart
    <3> QED
      BY <3>1, <2>2 DEF NodesOf, Routers
  <2>3. CASE endpointStart <= n
    <3>1. GetNodeModule(n).kind \in {"client", "server", "userTerminal"}
      BY <1>0, <2>3, Boundaries, ModuleOfNumber DEF Node
    <3>2. \A m \in Routers : m.kind \in {"satellite", "groundStation"}
      BY DEF Routers, NodesOf, Node
    <3> QED
      BY <3>1, <3>2, <1>0, <2>3, Boundaries
  <2> QED
    BY <2>1, <2>2, <2>3, <1>0, Boundaries
<1>6. {GetNodeModule(n) : n \in 0 .. E - 1} = CachedModules
  BY <1>1, <1>2
<1>7. \A n : n \in endpointStart .. E - 1 <=> n \in 0 .. E - 1 /\ ~(n < endpointStart)
  BY Boundaries
<1>8. {GetNodeModule(n) : n \in endpointStart .. E - 1} = CachedModules \ Routers
  <2> HIDE DEF E
  <2> QED
    BY <1>5, <1>6, <1>7
<1> QED
  BY <1>3, <1>4, <1>6, <1>8

-----------------------------------------------------------------------------
(* The invariant.                                                          *)

LEMMA InitNumbers == NumberingInit => NumbersInv
<1> SUFFICES ASSUME NumberingInit PROVE NumbersInv
  OBVIOUS
<1>1. network \in Networks /\ stage = "assignIDtoModules" /\ nodeNum = 0
  BY DEF NumberingInit
<1>2. Assigned = 0 /\ Named = 0 /\ Told = 0
  BY <1>1 DEF Assigned, Named, Told
<1>3. Numbers(<<>>, 0, 0)
  BY DEF Numbers
<1>4. StageOK
  BY <1>1, Boundaries DEF StageOK, Stages
<1>5. ModulesOK
  BY <1>2 DEF NumberingInit, ModulesOK
<1>6. NamesOK(0)
  BY <1>2, <1>3 DEF NumberingInit, NamesOK, MayBeFirstNamed
<1> QED
  BY <1>2, <1>3, <1>4, <1>5, <1>6 DEF NumberingInit, NumbersInv

(* No step changes what a number means. *)
LEMMA MeaningKept ==
  ASSUME network' = network
  PROVE  /\ endpointStart' = endpointStart
         /\ userTerminalEnd' = userTerminalEnd
         /\ \A n : GetNodeModule(n)' = GetNodeModule(n)
BY DEF endpointStart, clientEnd, serverEnd, userTerminalEnd, GetNodeModule

(* The tables stay as they are said to be if they are so by the numbers of *)
(* the state before. *)
LEMMA TablesNumbered ==
  ASSUME network' = network,
         Numbers(moduleGraphIdByModule', 0, Assigned'), Numbers(nodeId', 0, Told'),
         NEW first \in {0, endpointStart}, MayBeFirstNamed(first)',
         Numbers(moduleGraphIDMap', first, Named'),
         StageOK', ModulesOK'
  PROVE  NumbersInv'
<1>1. /\ Numbers(moduleGraphIdByModule, 0, Assigned)'
      /\ Numbers(moduleGraphIDMap, first, Named)'
      /\ Numbers(nodeId, 0, Told)'
  BY MeaningKept DEF Numbers
<1>2. NamesOK(first)'
  BY <1>1 DEF NamesOK
<1>3. first \in {0, endpointStart'}
  BY MeaningKept
<1> QED
  BY <1>1, <1>2, <1>3 DEF NumbersInv

LEMMA NumbersStep == NumbersInv /\ [NumberingNext]_numberVars => NumbersInv'
<1> SUFFICES ASSUME NumbersInv, [NumberingNext]_numberVars
             PROVE  NumbersInv'
  OBVIOUS
<1> USE DEF Stages
<1>1. /\ network \in Networks /\ nodeNum \in Nat /\ nodeNum <= userTerminalEnd
      /\ endpointStart \in Nat /\ userTerminalEnd \in Nat /\ endpointStart <= userTerminalEnd
  BY Boundaries DEF NumbersInv, StageOK
<1>2. network' = network /\ loadFiles' = loadFiles
  BY DEF NumberingNext, numberVars, AssignIDtoModule, WriteModuleIDMapping,
         WriteModuleIDMappingFails, UpdateModuleIDMapping, SetIpv4NodeId, NextStage
<1>3. PICK first \in {0, endpointStart} : NamesOK(first)
  BY DEF NumbersInv
<1>4. ASSUME nodeModules' = nodeModules, Assigned' = Assigned
      PROVE  ModulesOK'
  BY <1>2, <1>4, MeaningKept DEF NumbersInv, ModulesOK
<1>5. /\ Numbers(moduleGraphIdByModule, 0, Assigned) /\ Numbers(nodeId, 0, Told)
      /\ Numbers(moduleGraphIDMap, first, Named) /\ MayBeFirstNamed(first)
      /\ first \in Nat /\ endpointStart' = endpointStart
  BY <1>1, <1>2, <1>3, MeaningKept DEF NumbersInv, NamesOK
<1>6. ASSUME stage' = stage \/ stage' \in {"updateModuleIDMappingsClientServer", "setIpv4NodeIds", "done"}
      PROVE  MayBeFirstNamed(first)'
  BY <1>2, <1>5, <1>6 DEF MayBeFirstNamed
<1>7. CASE AssignIDtoModule
  <2>1. /\ stage = "assignIDtoModules" /\ stage' = stage /\ nodeNum < userTerminalEnd
        /\ nodeNum' = nodeNum + 1
    BY <1>7 DEF AssignIDtoModule
  <2>2. /\ Assigned = nodeNum /\ Assigned' = nodeNum + 1
        /\ Named' = Named /\ Told' = Told
    BY <2>1 DEF Assigned, Named, Told
  <2>3. Numbers(moduleGraphIdByModule', 0, Assigned')
    <3>1. 0 \in Nat /\ 0 <= nodeNum
      BY <1>1
    <3>2. Numbers(moduleGraphIdByModule, 0, nodeNum)
      BY <1>5, <2>2
    <3>3. moduleGraphIdByModule' = Put(moduleGraphIdByModule, GetNodeModule(nodeNum), nodeNum)
      BY <1>7 DEF AssignIDtoModule
    <3>4. Numbers(Put(moduleGraphIdByModule, GetNodeModule(nodeNum), nodeNum), 0, nodeNum + 1)
      BY <1>1, <3>1, <3>2, OneMore, Zenon
    <3> QED
      BY <2>2, <3>3, <3>4
  <2>4. Numbers(moduleGraphIDMap', first, Named') /\ Numbers(nodeId', 0, Told')
    BY <1>5, <1>7, <2>2 DEF AssignIDtoModule
  <2>5. StageOK'
    BY <1>1, <1>2, <2>1, MeaningKept DEF NumbersInv, StageOK
  <2>6. ModulesOK'
    <3> DEFINE M == {GetNodeModule(n) : n \in Nat}
    <3>1. M' = M
      BY <1>2, MeaningKept
    <3>2. /\ nodeModules \in Seq(M) /\ Len(nodeModules) = nodeNum
          /\ \A k \in 1 .. nodeNum : nodeModules[k] = GetNodeModule(k - 1)
      BY <2>2 DEF NumbersInv, ModulesOK
    <3>3. nodeModules' = Append(nodeModules, GetNodeModule(nodeNum)) /\ GetNodeModule(nodeNum) \in M
      BY <1>1, <1>7 DEF AssignIDtoModule
    <3> HIDE DEF M
    <3>4. /\ nodeModules' \in Seq(M) /\ Len(nodeModules') = nodeNum + 1
          /\ \A k \in 1 .. nodeNum : nodeModules'[k] = nodeModules[k]
          /\ nodeModules'[nodeNum + 1] = GetNodeModule(nodeNum)
      BY <1>1, <3>2, <3>3
    <3>5. \A k \in 1 .. nodeNum + 1 : nodeModules'[k] = GetNodeModule(k - 1)
      BY <1>1, <3>2, <3>4
    <3> QED
      BY <1>2, <2>2, <3>1, <3>4, <3>5, MeaningKept DEF ModulesOK, M
  <2> QED
    BY <1>2, <1>6, <2>1, <2>3, <2>4, <2>5, <2>6, TablesNumbered
<1>8. CASE WriteModuleIDMapping
  <2>1. /\ stage = "writeModuleIDMappingsToFile" /\ stage' = stage /\ nodeNum < endpointStart
        /\ nodeNum' = nodeNum + 1
    BY <1>8 DEF WriteModuleIDMapping
  <2>2. /\ Named = nodeNum /\ Named' = nodeNum + 1
        /\ Assigned' = Assigned /\ Told' = Told
    BY <1>2, <2>1, MeaningKept DEF Assigned, Named, Told
  <2>3. moduleGraphIDMap' = Put(moduleGraphIDMap, GetNodeModule(nodeNum), nodeNum)
    BY <1>1, <1>8, <2>1, NamesOfNumber DEF WriteModuleIDMapping
  <2>4. first = 0
    BY <1>5, <2>1 DEF MayBeFirstNamed
  <2>5. Numbers(moduleGraphIDMap', first, Named')
    BY <1>1, <1>5, <2>2, <2>3, <2>4, OneMore
  <2>6. Numbers(moduleGraphIdByModule', 0, Assigned') /\ Numbers(nodeId', 0, Told')
    BY <1>5, <1>8, <2>2 DEF WriteModuleIDMapping
  <2>7. StageOK'
    BY <1>1, <1>2, <2>1, MeaningKept DEF NumbersInv, StageOK
  <2>8. ModulesOK'
    BY <1>4, <1>8, <2>2 DEF WriteModuleIDMapping
  <2> QED
    BY <1>2, <1>6, <2>1, <2>5, <2>6, <2>7, <2>8, TablesNumbered
<1>9. CASE WriteModuleIDMappingFails
  <2>1. /\ stage = "writeModuleIDMappingsToFile" /\ stage' = "updateModuleIDMappingsClientServer"
        /\ nodeNum = 0 /\ nodeNum' = endpointStart /\ ~loadFiles
    BY <1>9 DEF WriteModuleIDMappingFails
  <2>2. /\ Named = 0 /\ Named' = endpointStart
        /\ Assigned' = Assigned /\ Told' = Told
    BY <1>2, <2>1, MeaningKept DEF Assigned, Named, Told
  <2>3. first = 0 /\ moduleGraphIDMap' = moduleGraphIDMap
    BY <1>5, <1>9, <2>1 DEF MayBeFirstNamed, WriteModuleIDMappingFails
  <2>4. Numbers(moduleGraphIDMap', endpointStart, Named')
    <3>1. 0 .. 0 - 1 = {} /\ endpointStart .. endpointStart - 1 = {}
      BY <1>1
    <3>2. DOMAIN moduleGraphIDMap = {}
      BY <1>5, <2>2, <2>3, <3>1 DEF Numbers
    <3> QED
      BY <2>2, <2>3, <3>1, <3>2 DEF Numbers
  <2>5. Numbers(moduleGraphIdByModule', 0, Assigned') /\ Numbers(nodeId', 0, Told')
    BY <1>5, <1>9, <2>2 DEF WriteModuleIDMappingFails
  <2>6. StageOK'
    BY <1>1, <1>2, <2>1, MeaningKept DEF NumbersInv, StageOK
  <2>7. ModulesOK'
    BY <1>4, <1>9, <2>2 DEF WriteModuleIDMappingFails
  <2>8. MayBeFirstNamed(endpointStart)'
    BY <1>2, <1>5, <2>1 DEF MayBeFirstNamed
  <2> QED
    BY <1>2, <1>5, <2>4, <2>5, <2>6, <2>7, <2>8, TablesNumbered
<1>10. CASE UpdateModuleIDMapping
  <2>1. /\ stage = "updateModuleIDMappingsClientServer" /\ stage' = stage
        /\ nodeNum < userTerminalEnd /\ endpointStart <= nodeNum /\ nodeNum' = nodeNum + 1
    BY <1>10, <1>1 DEF UpdateModuleIDMapping, NumbersInv, StageOK
  <2>2. /\ Named = nodeNum /\ Named' = nodeNum + 1
        /\ Assigned' = Assigned /\ Told' = Told
    BY <1>2, <2>1, MeaningKept DEF Assigned, Named, Told
  <2>3. moduleGraphIDMap' = Put(moduleGraphIDMap, GetNodeModule(nodeNum), nodeNum)
    BY <1>1, <1>10, <2>1, NamesOfNumber DEF UpdateModuleIDMapping
  <2>4. Numbers(moduleGraphIDMap', first, Named')
    <3>1. first <= nodeNum
      BY <1>1, <1>5, <2>1
    <3> QED
      BY <1>1, <1>5, <2>2, <2>3, <3>1, OneMore
  <2>5. Numbers(moduleGraphIdByModule', 0, Assigned') /\ Numbers(nodeId', 0, Told')
    BY <1>5, <1>10, <2>2 DEF UpdateModuleIDMapping
  <2>6. StageOK'
    BY <1>1, <1>2, <2>1, MeaningKept DEF NumbersInv, StageOK
  <2>7. ModulesOK'
    BY <1>4, <1>10, <2>2 DEF UpdateModuleIDMapping
  <2> QED
    BY <1>2, <1>6, <2>1, <2>4, <2>5, <2>6, <2>7, TablesNumbered
<1>11. CASE SetIpv4NodeId
  <2>1. /\ stage = "setIpv4NodeIds" /\ stage' = stage /\ nodeNum' = nodeNum + 1
        /\ nodeNum < Len(nodeModules)
    BY <1>11 DEF SetIpv4NodeId
  <2>2. /\ Told = nodeNum /\ Told' = nodeNum + 1
        /\ Assigned' = Assigned /\ Named' = Named /\ Assigned = userTerminalEnd
    BY <1>2, <2>1, MeaningKept DEF Assigned, Named, Told
  <2>3. nodeNum < userTerminalEnd /\ nodeModules[nodeNum + 1] = GetNodeModule(nodeNum)
    BY <1>1, <2>1, <2>2 DEF NumbersInv, ModulesOK
  <2>4. Numbers(nodeId', 0, Told')
    BY <1>1, <1>5, <1>11, <2>2, <2>3, OneMore DEF SetIpv4NodeId
  <2>5. Numbers(moduleGraphIdByModule', 0, Assigned') /\ Numbers(moduleGraphIDMap', first, Named')
    BY <1>5, <1>11, <2>2 DEF SetIpv4NodeId
  <2>6. StageOK'
    BY <1>1, <1>2, <2>1, <2>3, MeaningKept DEF NumbersInv, StageOK
  <2>7. ModulesOK'
    BY <1>4, <1>11, <2>2 DEF SetIpv4NodeId
  <2> QED
    BY <1>2, <1>6, <2>1, <2>4, <2>5, <2>6, <2>7, TablesNumbered
<1>12. CASE NextStage
  <2>1. Len(nodeModules) = Assigned
    BY DEF NumbersInv, ModulesOK
  <2>2. Assigned' = Assigned /\ Named' = Named /\ Told' = Told
    BY <1>1, <1>2, <1>12, <2>1, MeaningKept DEF NextStage, Assigned, Named, Told
  <2>3. StageOK'
    BY <1>1, <1>2, <1>12, MeaningKept DEF NextStage, NumbersInv, StageOK
  <2>4. /\ Numbers(moduleGraphIdByModule', 0, Assigned') /\ Numbers(moduleGraphIDMap', first, Named')
        /\ Numbers(nodeId', 0, Told')
    BY <1>5, <1>12, <2>2 DEF NextStage
  <2>5. ModulesOK'
    BY <1>4, <1>12, <2>2 DEF NextStage
  <2>6. MayBeFirstNamed(first)'
    BY <1>2, <1>5, <1>12 DEF NextStage, MayBeFirstNamed
  <2> QED
    BY <1>2, <2>3, <2>4, <2>5, <2>6, TablesNumbered
<1>13. CASE UNCHANGED numberVars
  <2>1. /\ UNCHANGED <<stage, nodeNum, nodeModules, moduleGraphIdByModule, moduleGraphIDMap, nodeId>>
    BY <1>13 DEF numberVars
  <2>2. Assigned' = Assigned /\ Named' = Named /\ Told' = Told
    BY <1>2, <2>1, MeaningKept DEF Assigned, Named, Told
  <2>3. StageOK'
    BY <1>2, <2>1, MeaningKept DEF NumbersInv, StageOK
  <2>4. ModulesOK'
    BY <1>4, <2>1, <2>2
  <2> QED
    BY <1>2, <1>5, <1>6, <2>1, <2>2, <2>3, <2>4, TablesNumbered
<1> QED
  BY <1>7, <1>8, <1>9, <1>10, <1>11, <1>12, <1>13 DEF NumberingNext

(* When the loops are done every table has the numbers of all modules.     *)
LEMMA NumbersFollow == NumbersInv => NumbersAgree /\ TypesAgree
<1> SUFFICES ASSUME NumbersInv, stage = "done"
             PROVE  NumbersAgree /\ TypesAgree
  BY DEF NumbersAgree, TypesAgree
<1>1. network \in Networks
  BY DEF NumbersInv, StageOK
<1>2. Assigned = userTerminalEnd /\ Named = userTerminalEnd /\ Told = userTerminalEnd
  BY DEF Assigned, Named, Told
<1>3. PICK first \in {0, endpointStart} : NamesOK(first)
  BY DEF NumbersInv
<1>4. /\ DOMAIN moduleGraphIdByModule = CachedModules
      /\ DOMAIN nodeId = CachedModules
  BY <1>1, <1>2, AllModules DEF NumbersInv, Numbers
<1>5. \/ DOMAIN moduleGraphIDMap = CachedModules
      \/ ~loadFiles /\ DOMAIN moduleGraphIDMap = CachedModules \ Routers
  BY <1>1, <1>2, <1>3, AllModules DEF NamesOK, MayBeFirstNamed, Numbers
<1>6. ASSUME NEW m \in CachedModules
      PROVE  \E n \in 0 .. userTerminalEnd - 1 :
               /\ m = GetNodeModule(n)
               /\ moduleGraphIdByModule[m] = n /\ nodeId[m] = n
               /\ n + 1 \in DOMAIN nodeModules /\ nodeModules[n + 1] = m
  <2>1. PICK n \in 0 .. userTerminalEnd - 1 : m = GetNodeModule(n)
    BY <1>1, AllModules
  <2>2. moduleGraphIdByModule[m] = n /\ nodeId[m] = n
    BY <1>2, <2>1 DEF NumbersInv, Numbers
  <2>3. n + 1 \in 1 .. userTerminalEnd /\ (n + 1) - 1 = n
    BY <1>1, Boundaries
  <2>4. n + 1 \in DOMAIN nodeModules /\ nodeModules[n + 1] = m
    BY <1>2, <2>1, <2>3 DEF NumbersInv, ModulesOK
  <2> QED
    BY <2>1, <2>2, <2>4
<1>7. ASSUME NEW m \in DOMAIN moduleGraphIDMap
      PROVE  moduleGraphIDMap[m] = moduleGraphIdByModule[m]
  <2>1. PICK n \in first .. userTerminalEnd - 1 : m = GetNodeModule(n)
    BY <1>2, <1>3 DEF NamesOK, Numbers
  <2>2. moduleGraphIDMap[m] = n
    BY <1>2, <1>3, <2>1 DEF NamesOK, Numbers
  <2>3. n \in 0 .. userTerminalEnd - 1
    BY <1>1, <1>3, <2>1, Boundaries
  <2> QED
    BY <1>2, <2>1, <2>2, <2>3 DEF NumbersInv, Numbers
<1>8. NumbersAgree
  BY <1>1, <1>4, <1>5, <1>6, <1>7, AllModules DEF NumbersAgree
<1>9. TypesAgree
  BY <1>1, <1>4, <1>6, <1>7, AllModules DEF TypesAgree
<1> QED
  BY <1>8, <1>9

(* The four ways to a node's number agree: all tables of the configurator  *)
(* and the constructor's indices, once initialized, have one number for a  *)
(* node, in a network of any size. Only the table of names may lack some,  *)
(* all routers and nothing else, in a run that saves routes.               *)
THEOREM OneNumberPerNode == NumberingSpec => []NumbersAgree
<1>1. NumberingInit => NumbersInv
  BY InitNumbers
<1>2. NumbersInv /\ [NumberingNext]_numberVars => NumbersInv'
  BY NumbersStep
<1>3. NumbersInv => NumbersAgree
  BY NumbersFollow
<1> QED
  BY <1>1, <1>2, <1>3, PTL DEF NumberingSpec

(* And every node knows its own number, from which getNodeTypeCode derives *)
(* what kind of node it is: LeoIpv4 chooses the way to route a packet by   *)
(* the kinds of the node and of the destination.                           *)
THEOREM NumbersTellTypes == NumberingSpec => []TypesAgree
<1>1. NumberingInit => NumbersInv
  BY InitNumbers
<1>2. NumbersInv /\ [NumberingNext]_numberVars => NumbersInv'
  BY NumbersStep
<1>3. NumbersInv => TypesAgree
  BY NumbersFollow
<1> QED
  BY <1>1, <1>2, <1>3, PTL DEF NumberingSpec

-----------------------------------------------------------------------------
(* IslGrid: the inductive invariant.                                       *)

(* Both loops walk through plane after plane: a satellite never belongs to *)
(* a plane before the one that the loop is in.                             *)
GridLoopOK ==
  /\ planeNum \in Nat /\ satNum \in Nat
  /\ planeNum * satPerPlane <= satNum

(* A link, by the numbers of its ends.                                    *)
Link == Nat \X Nat

GridInv ==
  /\ shape \in Shapes
  /\ GridLoopOK
  /\ fixedTimedLinks \in Seq(Link)
  /\ LinkedAreNeighbours

-----------------------------------------------------------------------------
(* Arithmetic.                                                             *)

(* The plane of a satellite is its number divided by the size of a plane. *)
LEMMA Quotient ==
  ASSUME NEW s \in Nat, NEW p \in Nat, NEW a \in Nat, p * s <= a, a < p * s + s
  PROVE  a \div s = p
OBVIOUS

(* Remainders of numbers up to the divisor. *)
LEMMA Remainder ==
  ASSUME NEW m \in Nat, NEW a \in Nat, a <= m, m > 0
  PROVE  a % m = IF a = m THEN 0 ELSE a
OBVIOUS

(* What is known of the shape of a constellation. *)
LEMMA ShapeType ==
  ASSUME shape \in Shapes
  PROVE  /\ satPerPlane \in Nat /\ satPerPlane >= 2
         /\ shape.planes \in Nat /\ shape.planes >= 1
         /\ numOfSats \in Nat /\ numOfSats <= shape.planes * satPerPlane
BY ShapesAssumption DEF satPerPlane, numOfSats

(* The next satellite in the plane is the next number, or the plane's      *)
(* first satellite after its last.                                         *)
LEMMA NextInPlane ==
  ASSUME shape \in Shapes, NEW p \in Nat, NEW a \in Nat,
         p * satPerPlane <= a, a < p * satPerPlane + satPerPlane
  PROVE  DestSatNumA(p, a) = IF a + 1 = p * satPerPlane + satPerPlane
                             THEN p * satPerPlane ELSE a + 1
<1> DEFINE s == satPerPlane
           m == s * (p + 1)
<1>1. s \in Nat /\ s >= 2
  BY ShapeType
<1>2. m = p * s + s /\ p * s \in Nat
  BY <1>1
<1>3. m \in Nat /\ m > 0 /\ a + 1 \in Nat /\ a + 1 <= m
  BY <1>1, <1>2
<1>4. DestSatNumA(p, a) = IF (a + 1) % m = 0 THEN p * s ELSE (a + 1) % m
  BY DEF DestSatNumA
<1>. HIDE DEF s, m
<1>5. (a + 1) % m = IF a + 1 = m THEN 0 ELSE a + 1
  BY <1>3, Remainder
<1>. QED  BY <1>2, <1>4, <1>5 DEF s

(* The link within a plane is to a neighbour. *)
LEMMA InPlaneIsNeighbour ==
  ASSUME shape \in Shapes, NEW p \in Nat, NEW a \in Nat,
         p * satPerPlane <= a, a < p * satPerPlane + satPerPlane
  PROVE  /\ DestSatNumA(p, a) \in Nat
         /\ a # DestSatNumA(p, a)
         /\ IsInterSatelliteLink(a, DestSatNumA(p, a))
<1> DEFINE s == satPerPlane
           d == DestSatNumA(p, a)
<1>1. s \in Nat /\ s >= 2 /\ p * s \in Nat
  BY ShapeType
<1>2. d = IF a + 1 = p * s + s THEN p * s ELSE a + 1
  BY NextInPlane
<1>3. s * p = p * s
  BY <1>1
<1>. HIDE DEF s, d
<1>4. p * s <= a /\ a < p * s + s
  BY DEF s
<1>5. d \in Nat /\ a # d /\ p * s <= d /\ d < p * s + s
  BY <1>1, <1>2, <1>4
<1>6. a \div s = p /\ d \div s = p
  BY <1>1, <1>4, <1>5, Quotient
<1>7. d = a + 1 \/ (a = s * p + s - 1 /\ d = s * p)
  BY <1>1, <1>2, <1>3
<1>8. IsInterSatelliteLink(a, d)
  BY <1>6, <1>7 DEF IsInterSatelliteLink, s, satPerPlane
<1>. QED  BY <1>5, <1>8 DEF d

(* The link to the next plane, if that satellite exists, is to a neighbour. *)
LEMMA AcrossIsNeighbour ==
  ASSUME shape \in Shapes, NEW p \in Nat, NEW a \in Nat,
         p * satPerPlane <= a, a < p * satPerPlane + satPerPlane,
         DestSatNumB(a) < numOfSats
  PROVE  /\ DestSatNumB(a) \in Nat
         /\ a # DestSatNumB(a)
         /\ IsInterSatelliteLink(a, DestSatNumB(a))
<1> DEFINE s == satPerPlane
           m == shape.planes * s
           d == a + s
<1>1. s \in Nat /\ s >= 2 /\ p * s \in Nat /\ m \in Nat
  BY ShapeType
<1>2. d = DestSatNumB(a) /\ d < m
  BY ShapeType DEF DestSatNumB
<1>3. (p + 1) * s = p * s + s /\ s * p = p * s /\ s * (p + 1) = p * s + s
  BY <1>1
<1>. HIDE DEF s, m
<1>4. p * s <= a /\ a < p * s + s
  BY DEF s
<1>5. d \in Nat /\ a # d /\ (p + 1) * s <= d /\ d < (p + 1) * s + s
  BY <1>1, <1>3, <1>4
<1>6. a \div s = p /\ d \div s = p + 1
  <2>1. a \div s = p
    BY <1>1, <1>4, Quotient
  <2>2. p + 1 \in Nat
    OBVIOUS
  <2>. HIDE DEF d
  <2>3. d \div s = p + 1
    BY <1>1, <1>5, <2>2, Quotient
  <2>. QED  BY <2>1, <2>3
<1>7. a % m = a /\ d % m = d
  BY <1>1, <1>2, <1>5, Remainder
<1>8. (a % m) - s * p = (d % m) - s * (p + 1)
  BY <1>1, <1>3, <1>7
<1>9. IsInterSatelliteLink(a, d)
  BY <1>6, <1>8 DEF IsInterSatelliteLink, s, m, satPerPlane
<1>. QED  BY <1>2, <1>5, <1>9

(* A link that is left out or added leaves a sequence of at most one pair. *)
LEMMA IfExistsType ==
  ASSUME NEW a \in Nat, NEW d \in Nat
  PROVE  /\ IfExists(a, d) \in Seq(Link)
         /\ \A k \in DOMAIN IfExists(a, d) : d < numOfSats /\ IfExists(a, d)[k] = <<a, d>>
BY DEF IfExists, Link

(* Each element of u is one of s or of t. *)
FromEither(u, s, t) ==
  \A k \in DOMAIN u : \/ \E i \in DOMAIN s : u[k] = s[i]
                      \/ \E i \in DOMAIN t : u[k] = t[i]

(* What holds of the elements of two sequences holds of the elements of    *)
(* their concatenation.                                                    *)
LEMMA ElementsOfConcat ==
  ASSUME NEW s \in Seq(Link), NEW t \in Seq(Link)
  PROVE  s \o t \in Seq(Link) /\ FromEither(s \o t, s, t)
<1>1. s \o t \in Seq(Link) /\ Len(s \o t) = Len(s) + Len(t)
  BY ConcatProperties
<1>2. /\ DOMAIN s = 1 .. Len(s) /\ DOMAIN t = 1 .. Len(t)
      /\ DOMAIN (s \o t) = 1 .. Len(s) + Len(t)
      /\ Len(s) \in Nat /\ Len(t) \in Nat
  BY <1>1
<1>3. ASSUME NEW k \in DOMAIN (s \o t)
      PROVE  \/ \E i \in DOMAIN s : (s \o t)[k] = s[i]
             \/ \E i \in DOMAIN t : (s \o t)[k] = t[i]
  <2>1. CASE k <= Len(s)
    BY <1>2, <2>1, ConcatProperties
  <2>2. CASE ~(k <= Len(s))
    <3>1. k - Len(s) \in DOMAIN t
      BY <1>2, <2>2
    <3>2. (s \o t)[k] = t[k - Len(s)]
      BY <1>2, <2>2, ConcatProperties
    <3>. QED  BY <3>1, <3>2
  <2>. QED  BY <2>1, <2>2
<1>. QED  BY <1>1, <1>3 DEF FromEither

(* A round of the loop links its satellite with neighbours only. *)
LEMMA LinksFromNeighbours ==
  ASSUME shape \in Shapes, NEW p \in Nat, NEW a \in Nat,
         p * satPerPlane <= a, a < NumOfSatsInPlane(p)
  PROVE  /\ LinksFrom(p, a) \in Seq(Link)
         /\ \A k \in DOMAIN LinksFrom(p, a) :
              LET link == LinksFrom(p, a)[k]
              IN  link[1] # link[2] /\ IsInterSatelliteLink(link[1], link[2])
<1> DEFINE inPlane == IfExists(a, DestSatNumA(p, a))
           across  == IfExists(a, DestSatNumB(a))
<1>1. a < p * satPerPlane + satPerPlane
  BY ShapeType DEF NumOfSatsInPlane
<1>2. /\ DestSatNumA(p, a) \in Nat
      /\ a # DestSatNumA(p, a) /\ IsInterSatelliteLink(a, DestSatNumA(p, a))
  BY <1>1, InPlaneIsNeighbour
<1>3. DestSatNumB(a) < numOfSats
        => a # DestSatNumB(a) /\ IsInterSatelliteLink(a, DestSatNumB(a))
  BY <1>1, AcrossIsNeighbour
<1>4. DestSatNumB(a) \in Nat
  BY ShapeType DEF DestSatNumB
<1>5. /\ inPlane \in Seq(Link)
      /\ \A k \in DOMAIN inPlane : inPlane[k] = <<a, DestSatNumA(p, a)>>
  BY <1>2, IfExistsType
<1>6. /\ across \in Seq(Link)
      /\ \A k \in DOMAIN across : DestSatNumB(a) < numOfSats /\ across[k] = <<a, DestSatNumB(a)>>
  BY <1>4, IfExistsType
<1>7. LinksFrom(p, a) = inPlane \o across
  BY DEF LinksFrom
<1>. HIDE DEF inPlane, across
<1>8. /\ LinksFrom(p, a) \in Seq(Link)
      /\ FromEither(LinksFrom(p, a), inPlane, across)
  BY <1>5, <1>6, <1>7, ElementsOfConcat
<1>9. ASSUME NEW k \in DOMAIN LinksFrom(p, a)
      PROVE  LET link == LinksFrom(p, a)[k]
             IN  link[1] # link[2] /\ IsInterSatelliteLink(link[1], link[2])
  <2>1. CASE LinksFrom(p, a)[k] = <<a, DestSatNumA(p, a)>>
    BY <2>1, <1>2
  <2>2. CASE DestSatNumB(a) < numOfSats /\ LinksFrom(p, a)[k] = <<a, DestSatNumB(a)>>
    BY <2>2, <1>3
  <2>. QED  BY <1>5, <1>6, <1>8, <2>1, <2>2 DEF FromEither
<1>. QED  BY <1>8, <1>9

-----------------------------------------------------------------------------
(* The steps.                                                              *)

LEMMA InitGrid == Init => GridInv
<1> SUFFICES ASSUME Init PROVE GridInv
  OBVIOUS
<1>1. GridLoopOK
  BY ShapeType DEF Init, GridLoopOK
<1>2. fixedTimedLinks \in Seq(Link) /\ LinkedAreNeighbours
  BY DEF Init, LinkedAreNeighbours
<1>. QED  BY <1>1, <1>2 DEF Init, GridInv

LEMMA ConnectSatelliteKeeps == GridInv /\ ConnectSatellite => GridInv'
<1> SUFFICES ASSUME GridInv, ConnectSatellite PROVE GridInv'
  OBVIOUS
<1> DEFINE new == LinksFrom(planeNum, satNum)
<1>1. /\ shape \in Shapes /\ planeNum \in Nat /\ satNum \in Nat
      /\ planeNum * satPerPlane <= satNum /\ satNum < NumOfSatsInPlane(planeNum)
      /\ fixedTimedLinks' = fixedTimedLinks \o new
      /\ satNum' = satNum + 1 /\ planeNum' = planeNum /\ shape' = shape
  BY DEF GridInv, GridLoopOK, ConnectSatellite, InPlane
<1>2. /\ new \in Seq(Link)
      /\ \A k \in DOMAIN new : new[k][1] # new[k][2] /\ IsInterSatelliteLink(new[k][1], new[k][2])
  BY <1>1, LinksFromNeighbours
<1>. HIDE DEF new
<1>3. /\ fixedTimedLinks' \in Seq(Link)
      /\ FromEither(fixedTimedLinks', fixedTimedLinks, new)
  <2>1. fixedTimedLinks \in Seq(Link) /\ new \in Seq(Link)
    BY <1>2 DEF GridInv
  <2>2. fixedTimedLinks' = fixedTimedLinks \o new
    BY <1>1
  <2>. HIDE DEF GridInv
  <2>. QED  BY <2>1, <2>2, ElementsOfConcat
<1>4. \A i \in DOMAIN fixedTimedLinks :
        /\ fixedTimedLinks[i][1] # fixedTimedLinks[i][2]
        /\ IsInterSatelliteLink(fixedTimedLinks[i][1], fixedTimedLinks[i][2])
  BY DEF GridInv, LinkedAreNeighbours
<1>5. \A k \in DOMAIN fixedTimedLinks' :
        /\ fixedTimedLinks'[k][1] # fixedTimedLinks'[k][2]
        /\ IsInterSatelliteLink(fixedTimedLinks'[k][1], fixedTimedLinks'[k][2])
  BY <1>2, <1>3, <1>4 DEF FromEither
<1>6. LinkedAreNeighbours'
  BY <1>1, <1>5 DEF LinkedAreNeighbours, IsInterSatelliteLink
<1>7. GridLoopOK'
  <2>1. satPerPlane' = satPerPlane /\ planeNum * satPerPlane \in Nat
    BY <1>1, ShapeType DEF satPerPlane
  <2>. QED  BY <1>1, <2>1 DEF GridLoopOK
<1>. QED  BY <1>1, <1>3, <1>6, <1>7 DEF GridInv

LEMMA AddEdgesKeeps == GridInv /\ AddEdges => GridInv'
<1> SUFFICES ASSUME GridInv, AddEdges PROVE GridInv'
  OBVIOUS
<1>1. /\ shape \in Shapes /\ planeNum \in Nat /\ satNum \in Nat
      /\ planeNum * satPerPlane <= satNum
      /\ satNum' = satNum + 1
      /\ UNCHANGED <<planeNum, shape, fixedTimedLinks>>
  BY DEF GridInv, GridLoopOK, AddEdges
<1>2. GridLoopOK'
  <2>1. satPerPlane' = satPerPlane /\ planeNum * satPerPlane \in Nat
    BY <1>1, ShapeType DEF satPerPlane
  <2>. QED  BY <1>1, <2>1 DEF GridLoopOK
<1>3. LinkedAreNeighbours'
  BY <1>1 DEF GridInv, LinkedAreNeighbours, IsInterSatelliteLink
<1>. QED  BY <1>1, <1>2, <1>3 DEF GridInv

LEMMA NextPlaneKeeps == GridInv /\ NextPlane => GridInv'
<1> SUFFICES ASSUME GridInv, NextPlane PROVE GridInv'
  OBVIOUS
<1>1. /\ shape \in Shapes /\ planeNum \in Nat
      /\ UNCHANGED <<shape, fixedTimedLinks>>
  BY DEF GridInv, GridLoopOK, NextPlane
<1>2. satPerPlane \in Nat /\ satPerPlane' = satPerPlane
  BY <1>1, ShapeType DEF satPerPlane
<1>3. GridLoopOK'
  <2>1. CASE planeNum' = planeNum + 1 /\ satNum' = (planeNum + 1) * satPerPlane
    <3>1. (planeNum + 1) * satPerPlane \in Nat
      BY <1>1, <1>2
    <3>. QED  BY <1>1, <1>2, <2>1, <3>1 DEF GridLoopOK
  <2>2. CASE planeNum' = 0 /\ satNum' = 0
    <3>1. 0 * satPerPlane = 0
      BY <1>2
    <3>. QED  BY <1>2, <2>2, <3>1 DEF GridLoopOK
  <2>. QED  BY <2>1, <2>2 DEF NextPlane
<1>4. LinkedAreNeighbours'
  BY <1>1 DEF GridInv, LinkedAreNeighbours, IsInterSatelliteLink
<1>. QED  BY <1>1, <1>3, <1>4 DEF GridInv

LEMMA GridStep == GridInv /\ [Next]_vars => GridInv'
<1> SUFFICES ASSUME GridInv, [Next]_vars PROVE GridInv'
  OBVIOUS
<1>1. CASE ConnectSatellite
  BY <1>1, ConnectSatelliteKeeps
<1>2. CASE AddEdges
  BY <1>2, AddEdgesKeeps
<1>3. CASE NextPlane
  BY <1>3, NextPlaneKeeps
<1>4. CASE UNCHANGED vars
  BY <1>4 DEF vars, GridInv, GridLoopOK, satPerPlane, LinkedAreNeighbours, IsInterSatelliteLink
<1>. QED  BY <1>1, <1>2, <1>3, <1>4 DEF Next

-----------------------------------------------------------------------------
(* IslGrid: no link is missing.                                            *)

(* All links from the satellite have been created. *)
Connected(sat) ==
  \A p \in Nat :
    p * satPerPlane <= sat /\ sat < p * satPerPlane + satPerPlane
      => ToSet(LinksFrom(p, sat)) \subseteq ToSet(fixedTimedLinks)

(* The planes that the loops go through have room for all satellites, so   *)
(* that the links of all satellites exist when the first loop is left.     *)
CompleteInv ==
  /\ loop \in {"channels", "edges", "done"}
  /\ numOfPlanes \in Nat /\ numOfSats <= numOfPlanes * satPerPlane
  /\ loop = "channels" => \A sat \in Satellites : sat < satNum => Connected(sat)
  /\ loop # "channels" => \A sat \in Satellites : Connected(sat)

(* However the number of planes is rounded. *)
LEMMA RoomForAll ==
  ASSUME shape \in Shapes, NEW n \in PossibleNumOfPlanes(shape)
  PROVE  n \in Nat /\ numOfSats <= n * satPerPlane
<1>1. /\ satPerPlane \in Nat /\ satPerPlane >= 2 /\ numOfSats \in Nat
      /\ shape.satPerPlane = satPerPlane /\ shape.numOfSats = numOfSats
  BY ShapeType DEF satPerPlane, numOfSats
<1> DEFINE s == satPerPlane
           m == numOfSats
<1> HIDE DEF s, m
<1>2. ASSUME NEW a \in Nat, NEW q, q = a \div s
      PROVE  q \in Nat /\ q * s <= a /\ a < q * s + s
  BY <1>1, <1>2 DEF s
<1>3. CASE n = CeilDiv(m, s)
  <2>1. m + s - 1 \in Nat /\ n = (m + s - 1) \div s
    BY <1>1, <1>3 DEF CeilDiv, s, m
  <2>2. n \in Nat /\ m + s - 1 < n * s + s
    BY <1>2, <2>1
  <2>3. n * s \in Nat
    BY <1>1, <2>2 DEF s
  <2>. QED  BY <1>1, <2>2, <2>3 DEF s, m
<1>4. CASE n = m \div s + 1
  <2>1. m \div s \in Nat /\ m < (m \div s) * s + s
    BY <1>1, <1>2 DEF m
  <2>2. n * s = (m \div s) * s + s
    BY <1>1, <1>4, <2>1 DEF s
  <2>3. n \in Nat /\ n * s \in Nat
    BY <1>1, <1>4, <2>1 DEF s
  <2>. QED  BY <1>1, <2>1, <2>2, <2>3 DEF s, m
<1>5. n = CeilDiv(m, s) \/ n = m \div s + 1
  BY <1>1 DEF PossibleNumOfPlanes, s, m
<1>. QED  BY <1>3, <1>4, <1>5 DEF s, m

(* A concatenation has all elements of both sequences. *)
LEMMA ConcatHasBoth ==
  ASSUME NEW s \in Seq(Link), NEW t \in Seq(Link)
  PROVE  ToSet(s) \subseteq ToSet(s \o t) /\ ToSet(t) \subseteq ToSet(s \o t)
<1>1. /\ DOMAIN s = 1 .. Len(s) /\ DOMAIN t = 1 .. Len(t)
      /\ DOMAIN (s \o t) = 1 .. Len(s) + Len(t)
      /\ Len(s) \in Nat /\ Len(t) \in Nat
  <2>1. s \o t \in Seq(Link) /\ Len(s \o t) = Len(s) + Len(t)
    BY ConcatProperties
  <2>. QED  BY <2>1
<1>2. ASSUME NEW i \in DOMAIN s
      PROVE  i \in DOMAIN (s \o t) /\ (s \o t)[i] = s[i]
  BY <1>1, ConcatProperties
<1>3. ASSUME NEW j \in DOMAIN t
      PROVE  Len(s) + j \in DOMAIN (s \o t) /\ (s \o t)[Len(s) + j] = t[j]
  <2>1. Len(s) + j \in 1 .. Len(s) + Len(t) /\ ~(Len(s) + j <= Len(s)) /\ Len(s) + j - Len(s) = j
    BY <1>1
  <2>. QED  BY <1>1, <2>1, ConcatProperties
<1>. QED  BY <1>2, <1>3 DEF ToSet

LEMMA InitComplete == Init => CompleteInv
<1> SUFFICES ASSUME Init PROVE CompleteInv
  OBVIOUS
<1>1. numOfPlanes \in Nat /\ numOfSats <= numOfPlanes * satPerPlane
  BY RoomForAll DEF Init
<1>2. \A sat \in Satellites : ~(sat < satNum)
  BY ShapeType DEF Init, Satellites
<1>. QED  BY <1>1, <1>2 DEF Init, CompleteInv

(* A round connects its satellite, which is in no other plane.             *)
LEMMA ConnectSatelliteCompletes ==
  ASSUME GridInv, CompleteInv, ConnectSatellite
  PROVE  CompleteInv'
<1> DEFINE new == LinksFrom(planeNum, satNum)
<1>1. /\ shape \in Shapes /\ planeNum \in Nat /\ satNum \in Nat /\ fixedTimedLinks \in Seq(Link)
      /\ planeNum * satPerPlane <= satNum /\ satNum < NumOfSatsInPlane(planeNum)
      /\ fixedTimedLinks' = fixedTimedLinks \o new
      /\ loop = "channels" /\ satNum' = satNum + 1
      /\ shape' = shape /\ numOfPlanes' = numOfPlanes /\ loop' = loop
  BY DEF GridInv, GridLoopOK, ConnectSatellite, InPlane
<1>2. new \in Seq(Link)
  BY <1>1, LinksFromNeighbours
<1>3. /\ ToSet(fixedTimedLinks) \subseteq ToSet(fixedTimedLinks')
      /\ ToSet(new) \subseteq ToSet(fixedTimedLinks')
  <2> HIDE DEF new
  <2>. QED  BY <1>1, <1>2, ConcatHasBoth
<1>4. satNum < planeNum * satPerPlane + satPerPlane
  BY <1>1, ShapeType DEF NumOfSatsInPlane
<1>5. ASSUME NEW p \in Nat, p * satPerPlane <= satNum, satNum < p * satPerPlane + satPerPlane
      PROVE  p = planeNum
  <2>1. satPerPlane \in Nat
    BY <1>1, ShapeType
  <2>2. satNum \div satPerPlane = p
    BY <1>1, <1>5, <2>1, Quotient
  <2>3. satNum \div satPerPlane = planeNum
    BY <1>1, <1>4, <2>1, Quotient
  <2>. QED  BY <2>2, <2>3
<1>6. \A p, sat : LinksFrom(p, sat)' = LinksFrom(p, sat)
  BY <1>1 DEF LinksFrom, IfExists, DestSatNumA, DestSatNumB, satPerPlane, numOfSats
<1>7. satPerPlane' = satPerPlane /\ numOfSats' = numOfSats /\ Satellites' = Satellites
  BY <1>1 DEF satPerPlane, numOfSats, Satellites
<1>8. ASSUME NEW sat \in Satellites, sat < satNum + 1
      PROVE  Connected(sat)'
  <2>1. ASSUME NEW p \in Nat, p * satPerPlane <= sat, sat < p * satPerPlane + satPerPlane
        PROVE  ToSet(LinksFrom(p, sat)) \subseteq ToSet(fixedTimedLinks')
    <3>1. CASE sat < satNum
      BY <1>1, <1>3, <2>1, <3>1 DEF CompleteInv, Connected
    <3>2. CASE sat = satNum
      <4>1. p = planeNum
        BY <1>5, <2>1, <3>2
      <4>. QED  BY <1>3, <3>2, <4>1
    <3>3. sat \in Int /\ satNum \in Int
      BY <1>1 DEF Satellites
    <3>. QED  BY <1>8, <3>1, <3>2, <3>3
  <2>. QED  BY <1>6, <1>7, <2>1 DEF Connected
<1>. QED  BY <1>1, <1>7, <1>8 DEF CompleteInv

LEMMA AddEdgesCompletes ==
  ASSUME CompleteInv, AddEdges
  PROVE  CompleteInv'
<1>1. /\ UNCHANGED <<shape, numOfPlanes, loop, planeNum, fixedTimedLinks>>
      /\ loop = "edges"
  BY DEF AddEdges
<1>. QED
  BY <1>1 DEF CompleteInv, Connected, LinksFrom, IfExists, DestSatNumA, DestSatNumB, satPerPlane,
              numOfSats, Satellites

(* A plane is left behind its last satellite, and the loop behind the last *)
(* plane.                                                                  *)
LEMMA NextPlaneCompletes ==
  ASSUME GridInv, CompleteInv, NextPlane
  PROVE  CompleteInv'
<1>1. /\ shape \in Shapes /\ planeNum \in Nat /\ satNum \in Nat
      /\ planeNum * satPerPlane <= satNum
      /\ numOfPlanes \in Nat /\ numOfSats <= numOfPlanes * satPerPlane
      /\ UNCHANGED <<shape, numOfPlanes, fixedTimedLinks>>
      /\ ~(planeNum < numOfPlanes /\ satNum < NumOfSatsInPlane(planeNum))
  BY DEF GridInv, GridLoopOK, CompleteInv, NextPlane, InPlane
<1>2. /\ satPerPlane' = satPerPlane /\ numOfSats' = numOfSats /\ Satellites' = Satellites
      /\ \A sat : Connected(sat)' = Connected(sat)
  BY <1>1 DEF Connected, LinksFrom, IfExists, DestSatNumA, DestSatNumB, satPerPlane, numOfSats, Satellites
<1>3. satPerPlane \in Nat /\ satPerPlane >= 2 /\ numOfSats \in Nat /\ Satellites \subseteq Nat
  BY <1>1, ShapeType DEF Satellites
<1>4. CASE planeNum < numOfPlanes
  <2>1. /\ satNum' = (planeNum + 1) * satPerPlane /\ loop' = loop
    BY <1>4 DEF NextPlane
  <2>2. (planeNum + 1) * satPerPlane = planeNum * satPerPlane + satPerPlane
    BY <1>1, <1>3
  <2>3. ASSUME NEW sat \in Satellites, loop = "channels", sat < satNum'
        PROVE  Connected(sat)
    <3>1. sat < planeNum * satPerPlane + satPerPlane /\ sat < numOfSats /\ sat \in Nat
      BY <1>3, <2>1, <2>2, <2>3 DEF Satellites
    <3>2. sat < NumOfSatsInPlane(planeNum)
      BY <3>1 DEF NumOfSatsInPlane
    <3>3. NumOfSatsInPlane(planeNum) \in Int
      BY <1>1, <1>3 DEF NumOfSatsInPlane
    <3>4. sat < satNum
      BY <1>1, <1>4, <3>1, <3>2, <3>3
    <3>. QED  BY <2>3, <3>4 DEF CompleteInv
  <2>. QED  BY <1>1, <1>2, <2>1, <2>3 DEF CompleteInv
<1>5. CASE ~(planeNum < numOfPlanes)
  <2>1. loop' = IF loop = "channels" THEN "edges" ELSE "done"
    BY <1>5 DEF NextPlane
  <2>2. numOfSats <= satNum
    <3>1. numOfPlanes <= planeNum
      BY <1>1, <1>5
    <3>2. numOfPlanes * satPerPlane <= planeNum * satPerPlane
      BY <1>1, <1>3, <3>1
    <3>3. numOfPlanes * satPerPlane \in Nat /\ planeNum * satPerPlane \in Nat
      BY <1>1, <1>3
    <3>. QED  BY <1>1, <1>3, <3>2, <3>3
  <2>3. ASSUME NEW sat \in Satellites
        PROVE  Connected(sat)
    <3>1. sat < satNum
      BY <1>1, <1>3, <2>2 DEF Satellites
    <3>. QED  BY <3>1 DEF CompleteInv
  <2>. QED  BY <1>1, <1>2, <2>1, <2>3 DEF CompleteInv
<1>. QED  BY <1>4, <1>5

(* A neighbour of a higher number is the next in the plane, the last of    *)
(* the plane for its first, or the one across; the link is from the other  *)
(* satellite for the last of the plane.                                    *)
LEMMA NeighbourHasLink ==
  ASSUME shape \in Shapes, NEW a \in Satellites, NEW b \in Satellites, a < b,
         IsInterSatelliteLink(a, b) \/ IsInterSatelliteLink(b, a),
         Connected(a), Connected(b)
  PROVE  {<<a, b>>, <<b, a>>} \intersect ToSet(fixedTimedLinks) # {}
<1> DEFINE s == satPerPlane
           p == a \div s
           q == b \div s
<1>1. /\ s \in Nat /\ s >= 2 /\ shape.satPerPlane = s
      /\ shape.planes \in Nat /\ numOfSats \in Nat /\ numOfSats <= shape.planes * s
      /\ a \in Nat /\ b \in Nat /\ a < numOfSats /\ b < numOfSats
  BY ShapeType DEF satPerPlane, Satellites
<1> HIDE DEF s
<1>2. /\ p \in Nat /\ p * s <= a /\ a < p * s + s
      /\ q \in Nat /\ q * s <= b /\ b < q * s + s
  BY <1>1
<1>3. a % (shape.planes * s) = a /\ b % (shape.planes * s) = b
  <2>1. shape.planes * s \in Nat /\ shape.planes * s > 0
    BY <1>1
  <2>2. a < shape.planes * s /\ b < shape.planes * s
    BY <1>1, <2>1
  <2> DEFINE m == shape.planes * s
  <2> HIDE DEF m
  <2>3. a % m = a /\ b % m = b
    BY <1>1, <2>1, <2>2, Remainder DEF m
  <2>. QED  BY <2>3 DEF m
<1>4. p < shape.planes /\ q < shape.planes
  <2>1. ASSUME NEW x \in Nat, x * s < shape.planes * s
        PROVE  x < shape.planes
    BY <1>1, <2>1
  <2>2. p * s < shape.planes * s /\ q * s < shape.planes * s
    <3>1. p * s \in Nat /\ q * s \in Nat /\ shape.planes * s \in Nat
      BY <1>1, <1>2
    <3>. QED  BY <1>1, <1>2, <3>1
  <2>. QED  BY <1>2, <2>1, <2>2
<1>5. /\ s * p = p * s /\ s * q = q * s
      /\ p * s \in Nat /\ q * s \in Nat
      /\ (p + 1) * s = p * s + s /\ (q + 1) * s = q * s + s
  BY <1>1, <1>2
<1> HIDE DEF p, q
<1>6. \/ p = q /\ (b = a + 1 \/ (a = p * s /\ b = p * s + s - 1))
      \/ q = p + 1 /\ b = a + s
  <2>1. CASE IsInterSatelliteLink(a, b)
    <3>1. CASE p = q
      <4>1. b \in {a + 1, a - 1} \/ (a = s * p + s - 1 /\ b = s * p) \/ (a = s * p /\ b = s * p + s - 1)
        BY <1>1, <2>1, <3>1 DEF IsInterSatelliteLink, p, q
      <4>. QED  BY <1>1, <1>5, <3>1, <4>1
    <3>2. CASE p # q
      <4>1. /\ p \in {q - 1, q + 1} \/ (p = shape.planes /\ q = 0) \/ (p = 0 /\ q = shape.planes)
            /\ a - s * p = b - s * q
        BY <1>1, <1>3, <2>1, <3>2 DEF IsInterSatelliteLink, p, q
      <4>. QED  BY <1>1, <1>2, <1>4, <1>5, <4>1
    <3>. QED  BY <3>1, <3>2
  <2>2. CASE IsInterSatelliteLink(b, a)
    <3>1. CASE p = q
      <4>1. a \in {b + 1, b - 1} \/ (b = s * p + s - 1 /\ a = s * p) \/ (b = s * p /\ a = s * p + s - 1)
        BY <1>1, <2>2, <3>1 DEF IsInterSatelliteLink, p, q
      <4>. QED  BY <1>1, <1>5, <3>1, <4>1
    <3>2. CASE p # q
      <4>1. /\ q \in {p - 1, p + 1} \/ (q = shape.planes /\ p = 0) \/ (q = 0 /\ p = shape.planes)
            /\ b - s * q = a - s * p
        BY <1>1, <1>3, <2>2, <3>2 DEF IsInterSatelliteLink, p, q
      <4>. QED  BY <1>1, <1>2, <1>4, <1>5, <4>1
    <3>. QED  BY <3>1, <3>2
  <2>. QED  BY <2>1, <2>2
<1>7. /\ ToSet(LinksFrom(p, a)) \subseteq ToSet(fixedTimedLinks)
      /\ ToSet(LinksFrom(q, b)) \subseteq ToSet(fixedTimedLinks)
  BY <1>2 DEF Connected, s
<1>8. ASSUME NEW x \in Nat, NEW n \in Nat, NEW d \in Nat, d < numOfSats,
             d = DestSatNumA(n, x) \/ d = DestSatNumB(x),
             n * s <= x, x < n * s + s
      PROVE  <<x, d>> \in ToSet(LinksFrom(n, x))
  <2> DEFINE inPlane == IfExists(x, DestSatNumA(n, x))
             across  == IfExists(x, DestSatNumB(x))
  <2>1. DestSatNumA(n, x) \in Nat /\ DestSatNumB(x) \in Nat
    <3>1. DestSatNumA(n, x) \in Nat
      BY <1>8, InPlaneIsNeighbour DEF s
    <3>. QED  BY <1>1, <3>1 DEF DestSatNumB, s
  <2>2. inPlane \in Seq(Link) /\ across \in Seq(Link)
    BY <2>1, IfExistsType
  <2>3. <<x, d>> \in ToSet(inPlane) \/ <<x, d>> \in ToSet(across)
    <3>1. IfExists(x, d) = <<<<x, d>>>>
      BY <1>8 DEF IfExists
    <3>2. <<x, d>> \in ToSet(IfExists(x, d))
      BY <3>1 DEF ToSet
    <3>. QED  BY <1>8, <3>2
  <2>4. LinksFrom(n, x) = inPlane \o across
    BY DEF LinksFrom
  <2> HIDE DEF inPlane, across
  <2>. QED  BY <2>2, <2>3, <2>4, ConcatHasBoth
<1>9. CASE p = q /\ b = a + 1
  <2>1. DestSatNumA(p, a) = b
    <3>1. a + 1 # p * s + s
      BY <1>1, <1>2, <1>5, <1>9
    <3>. QED  BY <1>1, <1>2, <1>9, <3>1, NextInPlane DEF s
  <2>. QED  BY <1>1, <1>2, <1>7, <1>8, <2>1
<1>10. CASE p = q /\ a = p * s /\ b = p * s + s - 1
  <2>1. DestSatNumA(q, b) = a
    <3>1. b + 1 = q * s + s
      BY <1>1, <1>5, <1>10
    <3>. QED  BY <1>1, <1>2, <1>10, <3>1, NextInPlane DEF s
  <2>. QED  BY <1>1, <1>2, <1>7, <1>8, <2>1
<1>11. CASE b = a + s
  <2>1. DestSatNumB(a) = b
    BY <1>11 DEF DestSatNumB, s
  <2>. QED  BY <1>1, <1>2, <1>7, <1>8, <2>1
<1>. QED  BY <1>6, <1>9, <1>10, <1>11

LEMMA CompleteKept == GridInv /\ CompleteInv /\ [Next]_vars => CompleteInv'
<1> SUFFICES ASSUME GridInv, CompleteInv, [Next]_vars PROVE CompleteInv'
  OBVIOUS
<1>1. CASE ConnectSatellite
  BY <1>1, ConnectSatelliteCompletes
<1>2. CASE AddEdges
  BY <1>2, AddEdgesCompletes
<1>3. CASE NextPlane
  BY <1>3, NextPlaneCompletes
<1>4. CASE UNCHANGED vars
  BY <1>4 DEF vars, CompleteInv, Connected, LinksFrom, IfExists, DestSatNumA, DestSatNumB,
              satPerPlane, numOfSats, Satellites
<1>. QED  BY <1>1, <1>2, <1>3, <1>4 DEF Next

LEMMA CompleteFollows == GridInv /\ CompleteInv => NeighboursLinked
<1> SUFFICES ASSUME GridInv, CompleteInv, loop # "channels",
                    NEW a \in Satellites, NEW b \in Satellites, a # b, IsInterSatelliteLink(a, b)
             PROVE  {<<a, b>>, <<b, a>>} \intersect ToSet(fixedTimedLinks) # {}
  BY DEF NeighboursLinked
<1>1. shape \in Shapes /\ Connected(a) /\ Connected(b)
  BY DEF GridInv, CompleteInv
<1>2. CASE a < b
  BY <1>1, <1>2, NeighbourHasLink
<1>3. CASE b < a
  <2>1. {<<b, a>>, <<a, b>>} \intersect ToSet(fixedTimedLinks) # {}
    BY <1>1, <1>3, NeighbourHasLink
  <2>. QED  BY <2>1
<1>4. a \in Int /\ b \in Int
  BY DEF Satellites
<1>. QED  BY <1>2, <1>3, <1>4

-----------------------------------------------------------------------------

(* Whatever the constellation, the channels that setUpSimulation creates   *)
(* never lead from a satellite to itself and join only satellites that     *)
(* NoradA takes for neighbours.                                            *)
THEOREM GridLinksNeighbours == Spec => []LinkedAreNeighbours
<1>1. GridInv => LinkedAreNeighbours
  BY DEF GridInv
<1>. QED  BY InitGrid, GridStep, <1>1, PTL DEF Spec

(* And it links all of them, however many satellites of the constellation  *)
(* are in use and however the number of planes is rounded.                 *)
THEOREM GridLinksAllNeighbours == Spec => []NeighboursLinked
<1>. QED  BY InitGrid, InitComplete, CompleteKept, GridStep, CompleteFollows, PTL DEF Spec

-----------------------------------------------------------------------------
(* IslGrid: the order of channels and edges.                               *)

PlaneOf(sat) == sat \div satPerPlane
Leaving(sat) == LinksFrom(PlaneOf(sat), sat)
Ends(sat)    == [k \in DOMAIN Leaving(sat) |-> Leaving(sat)[k][2]]

(* F[n]: the links of the first n satellites, one after the other.         *)
Accumulated(F) ==
  /\ F[0] = <<>>
  /\ \A n \in 0 .. numOfSats : F[n] \in Seq(Link)
  /\ \A n \in 1 .. numOfSats : F[n] = F[n - 1] \o Leaving(n - 1)

(* The two loops, each with its arithmetic, come to the same links.        *)
LEMMA LoopsAgree ==
  ASSUME NEW p, NEW a
  PROVE  EdgesFrom(p, a) = LinksFrom(p, a)
BY DEF EdgesFrom, LinksFrom, IfExists, DestSatNumA, DestSatNumB

(* How many satellites each loop has been through.                         *)
Reached    == IF satNum < numOfSats THEN satNum ELSE numOfSats
Channelled == IF loop = "channels" THEN Reached ELSE numOfSats
Edged      == IF loop = "channels" THEN 0 ELSE IF loop = "edges" THEN Reached ELSE numOfSats

Followed(F) ==
  /\ fixedTimedLinks = F[Channelled]
  /\ islVec = F[Edged]
  /\ satelliteISLMobilityModules = [sat \in Satellites |-> IF sat < Edged THEN Ends(sat) ELSE <<>>]

(* The loops never run past the plane that they are in.                    *)
OrderInv ==
  /\ satNum <= planeNum * satPerPlane + satPerPlane
  /\ \E F : Accumulated(F) /\ Followed(F)

LEMMA InItsPlane ==
  ASSUME shape \in Shapes, NEW a \in Nat, a < numOfSats,
         NEW p \in Nat, p * satPerPlane <= a, a < p * satPerPlane + satPerPlane
  PROVE  PlaneOf(a) = p
<1>1. satPerPlane \in Nat
  BY ShapeType
<1>. QED  BY <1>1, Quotient DEF PlaneOf

(* No element occurs twice. *)
Once(s) == \A i, j \in DOMAIN s : s[i] = s[j] => i = j

LEMMA OnceConcat ==
  ASSUME NEW s \in Seq(Link), NEW t \in Seq(Link), Once(s), Once(t),
         \A i \in DOMAIN s, j \in DOMAIN t : s[i] # t[j]
  PROVE  Once(s \o t)
<1>1. /\ DOMAIN s = 1 .. Len(s) /\ DOMAIN t = 1 .. Len(t)
      /\ DOMAIN (s \o t) = 1 .. Len(s) + Len(t)
      /\ Len(s) \in Nat /\ Len(t) \in Nat
  BY ConcatProperties
<1>2. ASSUME NEW k \in DOMAIN (s \o t)
      PROVE  IF k <= Len(s) THEN k \in DOMAIN s /\ (s \o t)[k] = s[k]
             ELSE k - Len(s) \in DOMAIN t /\ (s \o t)[k] = t[k - Len(s)]
  BY <1>1, ConcatProperties
<1>3. ASSUME NEW i \in DOMAIN (s \o t), NEW j \in DOMAIN (s \o t), (s \o t)[i] = (s \o t)[j]
      PROVE  i = j
  <2>1. CASE i <= Len(s) /\ j <= Len(s)
    BY <1>2, <1>3, <2>1 DEF Once
  <2>2. CASE ~(i <= Len(s)) /\ ~(j <= Len(s))
    <3>1. i - Len(s) = j - Len(s)
      BY <1>2, <1>3, <2>2 DEF Once
    <3>. QED  BY <1>1, <3>1
  <2>3. CASE i <= Len(s) /\ ~(j <= Len(s))
    BY <1>2, <1>3, <2>3
  <2>4. CASE ~(i <= Len(s)) /\ j <= Len(s)
    BY <1>2, <1>3, <2>4
  <2>. QED  BY <2>1, <2>2, <2>3, <2>4
<1>. QED  BY <1>3 DEF Once

LEMMA LeavingType ==
  ASSUME shape \in Shapes, NEW a \in Nat, a < numOfSats
  PROVE  /\ Leaving(a) \in Seq(Link)
         /\ \A k \in DOMAIN Leaving(a) : Leaving(a)[k][1] = a /\ Leaving(a)[k][2] < numOfSats
         /\ IsInjective(Leaving(a))
<1> DEFINE s == satPerPlane
           p == PlaneOf(a)
<1>1. s \in Nat /\ s >= 2 /\ numOfSats \in Nat
  BY ShapeType
<1>2. p \in Nat /\ p * s <= a /\ a < p * s + s
  <2> HIDE DEF s
  <2>1. p = a \div s
    BY DEF PlaneOf, s
  <2>. QED  BY <1>1, <2>1
<1> DEFINE inPlane == IfExists(a, DestSatNumA(p, a))
           across  == IfExists(a, DestSatNumB(a))
<1>3. DestSatNumA(p, a) \in Nat /\ DestSatNumB(a) \in Nat
  <2>1. DestSatNumA(p, a) \in Nat
    <3> HIDE DEF p
    <3>. QED  BY <1>2, InPlaneIsNeighbour
  <2>. QED  BY <1>1, <2>1 DEF DestSatNumB
<1>4. /\ inPlane \in Seq(Link) /\ across \in Seq(Link)
      /\ \A k \in DOMAIN inPlane : DestSatNumA(p, a) < numOfSats /\ inPlane[k] = <<a, DestSatNumA(p, a)>>
      /\ \A k \in DOMAIN across : DestSatNumB(a) < numOfSats /\ across[k] = <<a, DestSatNumB(a)>>
  <2> HIDE DEF p
  <2>. QED  BY <1>3, IfExistsType
<1>5. Leaving(a) = inPlane \o across
  BY DEF Leaving, LinksFrom
<1>6. Len(inPlane) \in {0, 1} /\ Len(across) \in {0, 1}
  BY DEF IfExists
<1>7. DestSatNumA(p, a) < a + s
  <2>1. DestSatNumA(p, a) <= p * s \/ DestSatNumA(p, a) <= a + 1
    <3>1. (a + 1) <= s * (p + 1) /\ s * (p + 1) \in Nat /\ s * (p + 1) > 0
      <4> HIDE DEF p, s
      <4>1. s * (p + 1) = p * s + s
        BY <1>1, <1>2
      <4>. QED  BY <1>1, <1>2, <4>1
    <3>2. (a + 1) % (s * (p + 1)) = IF a + 1 = s * (p + 1) THEN 0 ELSE a + 1
      <4> DEFINE d == s * (p + 1)
                 e == a + 1
      <4>1. d \in Nat /\ e \in Nat /\ e <= d /\ d > 0
        BY <3>1
      <4> HIDE DEF d, e
      <4>2. e % d = IF e = d THEN 0 ELSE e
        BY <4>1, Remainder
      <4>. QED  BY <4>2 DEF d, e
    <3> DEFINE next == (a + 1) % (s * (p + 1))
    <3>3. next = 0 \/ next = a + 1
      <4> HIDE DEF next, p, s
      <4>1. next = IF a + 1 = s * (p + 1) THEN 0 ELSE a + 1
        BY <3>2 DEF next
      <4>. QED  BY <4>1
    <3>4. DestSatNumA(p, a) = IF next = 0 THEN p * s ELSE next
      BY DEF DestSatNumA
    <3>5. p * s \in Nat
      <4> HIDE DEF p, s
      <4>. QED  BY <1>1, <1>2
    <3> HIDE DEF next, p, s
    <3>. QED  BY <1>2, <3>3, <3>4, <3>5
  <2> HIDE DEF p, s
  <2>2. p * s \in Nat
    BY <1>1, <1>2
  <2>. QED  BY <1>1, <1>2, <1>3, <2>1, <2>2
<1>8. DestSatNumA(p, a) # DestSatNumB(a)
  BY <1>1, <1>3, <1>7 DEF DestSatNumB
<1> HIDE DEF inPlane, across, p
<1>9. Leaving(a) \in Seq(Link) /\ FromEither(Leaving(a), inPlane, across)
  BY <1>4, <1>5, ElementsOfConcat
<1>10. ASSUME NEW k \in DOMAIN Leaving(a)
       PROVE  Leaving(a)[k][1] = a /\ Leaving(a)[k][2] < numOfSats
  <2>1. CASE \E i \in DOMAIN inPlane : Leaving(a)[k] = inPlane[i]
    BY <1>4, <2>1
  <2>2. CASE \E i \in DOMAIN across : Leaving(a)[k] = across[i]
    BY <1>4, <2>2
  <2>. QED  BY <1>9, <2>1, <2>2 DEF FromEither
<1>11. Once(inPlane) /\ Once(across)
  BY <1>4, <1>6 DEF Once
<1>12. \A i \in DOMAIN inPlane, j \in DOMAIN across : inPlane[i] # across[j]
  BY <1>4, <1>8
<1>13. Once(Leaving(a))
  BY <1>4, <1>5, <1>11, <1>12, OnceConcat
<1>. QED  BY <1>9, <1>10, <1>13 DEF Once, IsInjective

LEMMA AccumulatedExists ==
  ASSUME shape \in Shapes
  PROVE  \E F : Accumulated(F)
<1> DEFINE m == numOfSats
           V == Seq(Link)
           empty == <<>>
           G == [x \in (0 .. m) \X V |-> IF x[1] = 0 THEN empty ELSE x[2] \o Leaving(x[1] - 1)]
<1>1. m \in Nat /\ 0 <= m
  BY ShapeType
<1>2. empty \in V
  OBVIOUS
<1>3. G \in [(0 .. m) \X V -> V]
  <2> SUFFICES ASSUME NEW x \in (0 .. m) \X V
               PROVE  (IF x[1] = 0 THEN empty ELSE x[2] \o Leaving(x[1] - 1)) \in V
    OBVIOUS
  <2>1. CASE x[1] # 0
    <3>1. x[1] - 1 \in Nat /\ x[1] - 1 < numOfSats /\ x[2] \in Seq(Link)
      BY <1>1, <2>1
    <3>2. Leaving(x[1] - 1) \in Seq(Link)
      BY <3>1, LeavingType
    <3>. QED  BY <2>1, <3>1, <3>2, ConcatProperties
  <2>. QED  BY <1>2, <2>1
<1> HIDE DEF V, empty, m
<1>4. PICK F \in [0 .. m -> V] : Recursion(F, 0, m, empty, G)
  <2> HIDE DEF G
  <2>. QED  BY <1>1, <1>2, <1>3, RecursionExists
<1>5. \A n \in 0 .. m : F[n] = IF n = 0 THEN empty ELSE G[<<n, F[n - 1]>>]
  <2> HIDE DEF G
  <2>. QED  BY <1>4 DEF Recursion
<1>6. ASSUME NEW n \in 1 .. m PROVE F[n] = F[n - 1] \o Leaving(n - 1)
  <2>1. n \in 0 .. m /\ n # 0 /\ n - 1 \in 0 .. m
    BY <1>1
  <2>2. <<n, F[n - 1]>> \in (0 .. m) \X V
    BY <1>4, <2>1
  <2>3. G[<<n, F[n - 1]>>] = F[n - 1] \o Leaving(n - 1)
    BY <2>1, <2>2
  <2> HIDE DEF G
  <2>. QED  BY <1>5, <2>1, <2>3
<1>7. F[0] = <<>>
  <2>1. 0 \in 0 .. m
    BY <1>1
  <2> HIDE DEF G
  <2>2. F[0] = empty
    BY <1>5, <2>1, Zenon
  <2>. QED  BY <2>2 DEF empty
<1>. QED  BY <1>4, <1>6, <1>7 DEF Accumulated, V, m

LEMMA InitInOrder == Init => OrderInv
<1> SUFFICES ASSUME Init PROVE OrderInv
  OBVIOUS
<1>1. shape \in Shapes
  BY DEF Init
<1>2. satPerPlane \in Nat /\ numOfSats \in Nat
  BY <1>1, ShapeType
<1>3. PICK F : Accumulated(F)
  BY <1>1, AccumulatedExists
<1>4. Channelled = 0 /\ Edged = 0
  BY <1>2 DEF Init, Channelled, Edged, Reached
<1>5. F[0] = <<>>
  BY <1>3 DEF Accumulated
<1>6. satelliteISLMobilityModules = [sat \in Satellites |-> IF sat < 0 THEN Ends(sat) ELSE <<>>]
  <2>1. \A sat \in Satellites : ~(sat < 0)
    BY <1>2 DEF Satellites
  <2> HIDE DEF Satellites
  <2>2. satelliteISLMobilityModules = [sat \in Satellites |-> <<>>]
    BY DEF Init
  <2>. QED  BY <2>1, <2>2
<1>7. Followed(F)
  BY <1>4, <1>5, <1>6 DEF Init, Followed
<1>8. satNum <= planeNum * satPerPlane + satPerPlane
  BY <1>2 DEF Init
<1>. QED  BY <1>3, <1>7, <1>8 DEF OrderInv

(* What depends on the shape of the constellation only.                    *)
LEMMA SameShape ==
  ASSUME shape' = shape
  PROVE  /\ satPerPlane' = satPerPlane /\ numOfSats' = numOfSats /\ Satellites' = Satellites
         /\ \A sat : Leaving(sat)' = Leaving(sat)
         /\ \A sat : Ends(sat)' = Ends(sat)
         /\ \A F : Accumulated(F) => Accumulated(F)'
<1>1. satPerPlane' = satPerPlane /\ numOfSats' = numOfSats /\ Satellites' = Satellites
  BY DEF satPerPlane, numOfSats, Satellites
<1>2. \A sat : Leaving(sat)' = Leaving(sat)
  BY DEF Leaving, PlaneOf, LinksFrom, IfExists, DestSatNumA, DestSatNumB, satPerPlane, numOfSats
<1>3. \A sat : Ends(sat)' = Ends(sat)
  BY <1>2 DEF Ends
<1>4. ASSUME NEW F, Accumulated(F) PROVE Accumulated(F)'
  BY <1>1, <1>2, <1>4 DEF Accumulated
<1>. QED  BY <1>1, <1>2, <1>3, <1>4

(* A round of either loop.                                                 *)
LEMMA RoundInOrder ==
  ASSUME GridInv, OrderInv, InPlane, shape' = shape, satNum' = satNum + 1
  PROVE  /\ satNum \in Nat /\ satNum < numOfSats /\ numOfSats \in Nat
         /\ LinksFrom(planeNum, satNum) = Leaving(satNum)
         /\ Reached = satNum /\ Reached' = satNum + 1
         /\ planeNum' = planeNum => (satNum <= planeNum * satPerPlane + satPerPlane)'
<1>1. /\ shape \in Shapes /\ planeNum \in Nat /\ satNum \in Nat /\ planeNum * satPerPlane <= satNum
      /\ satNum < NumOfSatsInPlane(planeNum)
  BY DEF GridInv, GridLoopOK, InPlane
<1>2. satPerPlane \in Nat /\ numOfSats \in Nat /\ planeNum * satPerPlane \in Nat
  BY <1>1, ShapeType
<1>3. satNum < numOfSats /\ satNum < planeNum * satPerPlane + satPerPlane
  BY <1>1, <1>2 DEF NumOfSatsInPlane
<1>4. PlaneOf(satNum) = planeNum
  BY <1>1, <1>3, InItsPlane
<1>5. satPerPlane' = satPerPlane /\ numOfSats' = numOfSats
  BY SameShape
<1>6. Reached = satNum
  BY <1>3 DEF Reached
<1>7. Reached' = satNum + 1
  BY <1>1, <1>2, <1>3, <1>5 DEF Reached
<1>8. ASSUME planeNum' = planeNum PROVE (satNum <= planeNum * satPerPlane + satPerPlane)'
  BY <1>1, <1>2, <1>3, <1>5, <1>8
<1>. QED  BY <1>1, <1>2, <1>3, <1>4, <1>6, <1>7, <1>8 DEF Leaving

LEMMA ConnectSatelliteInOrder ==
  ASSUME GridInv, OrderInv, ConnectSatellite
  PROVE  OrderInv'
<1>1. /\ loop = "channels" /\ loop' = loop /\ InPlane /\ shape' = shape /\ satNum' = satNum + 1
      /\ planeNum' = planeNum /\ fixedTimedLinks' = fixedTimedLinks \o LinksFrom(planeNum, satNum)
      /\ islVec' = islVec /\ satelliteISLMobilityModules' = satelliteISLMobilityModules
  BY DEF ConnectSatellite
<1>2. /\ satNum \in Nat /\ satNum < numOfSats /\ numOfSats \in Nat
      /\ LinksFrom(planeNum, satNum) = Leaving(satNum)
      /\ Reached = satNum /\ Reached' = satNum + 1
      /\ (satNum <= planeNum * satPerPlane + satPerPlane)'
  BY <1>1, RoundInOrder
<1>3. PICK F : Accumulated(F) /\ Followed(F)
  BY DEF OrderInv
<1>4. Accumulated(F)' /\ Satellites' = Satellites /\ \A sat : Ends(sat)' = Ends(sat)
  BY <1>1, <1>3, SameShape
<1>5. Channelled = satNum /\ Channelled' = satNum + 1 /\ Edged = 0 /\ Edged' = 0
  BY <1>1, <1>2 DEF Channelled, Edged
<1>6. F[satNum + 1] = F[satNum] \o Leaving(satNum)
  <2>1. satNum + 1 \in 1 .. numOfSats /\ (satNum + 1) - 1 = satNum
    BY <1>2
  <2>. QED  BY <1>3, <2>1 DEF Accumulated
<1>7. fixedTimedLinks' = F[satNum + 1]
  BY <1>1, <1>2, <1>3, <1>5, <1>6 DEF Followed
<1>8. Followed(F)'
  BY <1>1, <1>3, <1>4, <1>5, <1>7 DEF Followed
<1>. QED  BY <1>2, <1>4, <1>8 DEF OrderInv

LEMMA AddEdgesInOrder ==
  ASSUME GridInv, OrderInv, AddEdges
  PROVE  OrderInv'
<1>1. /\ loop = "edges" /\ loop' = loop /\ InPlane /\ shape' = shape /\ satNum' = satNum + 1
      /\ planeNum' = planeNum /\ islVec' = islVec \o LinksFrom(planeNum, satNum)
      /\ fixedTimedLinks' = fixedTimedLinks
  BY LoopsAgree DEF AddEdges
<1>2. /\ satNum \in Nat /\ satNum < numOfSats /\ numOfSats \in Nat
      /\ LinksFrom(planeNum, satNum) = Leaving(satNum)
      /\ Reached = satNum /\ Reached' = satNum + 1
      /\ (satNum <= planeNum * satPerPlane + satPerPlane)'
  BY <1>1, RoundInOrder
<1>3. PICK F : Accumulated(F) /\ Followed(F)
  BY DEF OrderInv
<1>4. /\ Accumulated(F)' /\ Satellites' = Satellites /\ numOfSats' = numOfSats
      /\ \A sat : Ends(sat)' = Ends(sat)
  BY <1>1, <1>3, SameShape
<1>5. Channelled = numOfSats /\ Channelled' = numOfSats /\ Edged = satNum /\ Edged' = satNum + 1
  BY <1>1, <1>2, <1>4 DEF Channelled, Edged
<1>6. F[satNum + 1] = F[satNum] \o Leaving(satNum)
  <2>1. satNum + 1 \in 1 .. numOfSats /\ (satNum + 1) - 1 = satNum
    BY <1>2
  <2>. QED  BY <1>3, <2>1 DEF Accumulated
<1>7. islVec' = F[satNum + 1]
  BY <1>1, <1>2, <1>3, <1>5, <1>6 DEF Followed
<1>8. satelliteISLMobilityModules' =
        [satelliteISLMobilityModules EXCEPT ![satNum] = satelliteISLMobilityModules[satNum] \o Ends(satNum)]
  <2>1. satelliteISLMobilityModules' =
          [satelliteISLMobilityModules EXCEPT ![satNum] =
             @ \o [k \in DOMAIN EdgesFrom(planeNum, satNum) |-> EdgesFrom(planeNum, satNum)[k][2]]]
    BY DEF AddEdges
  <2>2. EdgesFrom(planeNum, satNum) = Leaving(satNum)
    BY <1>2, LoopsAgree
  <2>. QED  BY <2>1, <2>2 DEF Ends
<1>9. satelliteISLMobilityModules = [sat \in Satellites |-> IF sat < satNum THEN Ends(sat) ELSE <<>>]
  BY <1>3, <1>5 DEF Followed
<1>10. satNum \in Satellites /\ Satellites \subseteq Int
  BY <1>2 DEF Satellites
<1>11. Ends(satNum) \in Seq(Nat)
  <2>1. Leaving(satNum) \in Seq(Link)
    BY <1>2, LeavingType DEF GridInv
  <2>. QED  BY <2>1 DEF Ends, Link
<1>12. <<>> \o Ends(satNum) = Ends(satNum)
  BY <1>11
<1>13. satelliteISLMobilityModules' = [sat \in Satellites |-> IF sat < satNum + 1 THEN Ends(sat) ELSE <<>>]
  <2>1. satelliteISLMobilityModules[satNum] = <<>>
    BY <1>2, <1>9, <1>10
  <2>2. satelliteISLMobilityModules' = [satelliteISLMobilityModules EXCEPT ![satNum] = Ends(satNum)]
    BY <1>8, <1>12, <2>1
  <2>3. \A sat \in Satellites : sat < satNum + 1 <=> sat < satNum \/ sat = satNum
    BY <1>2, <1>10
  <2>. QED  BY <1>9, <1>10, <2>2, <2>3
<1>14. Followed(F)'
  BY <1>1, <1>3, <1>4, <1>5, <1>7, <1>13 DEF Followed
<1>. QED  BY <1>2, <1>4, <1>14 DEF OrderInv

LEMMA NextPlaneInOrder ==
  ASSUME GridInv, CompleteInv, OrderInv, NextPlane
  PROVE  OrderInv'
<1>1. /\ shape \in Shapes /\ planeNum \in Nat /\ satNum \in Nat
      /\ planeNum * satPerPlane <= satNum /\ satNum <= planeNum * satPerPlane + satPerPlane
      /\ numOfPlanes \in Nat /\ numOfSats <= numOfPlanes * satPerPlane
      /\ shape' = shape /\ fixedTimedLinks' = fixedTimedLinks /\ islVec' = islVec
      /\ satelliteISLMobilityModules' = satelliteISLMobilityModules
      /\ ~(planeNum < numOfPlanes /\ satNum < NumOfSatsInPlane(planeNum))
      /\ loop \in {"channels", "edges"}
  BY DEF GridInv, GridLoopOK, CompleteInv, OrderInv, NextPlane, InPlane
<1>2. satPerPlane \in Nat /\ numOfSats \in Nat /\ planeNum * satPerPlane \in Nat
  BY <1>1, ShapeType
<1>3. PICK F : Accumulated(F) /\ Followed(F)
  BY DEF OrderInv
<1>4. /\ Accumulated(F)' /\ Satellites' = Satellites /\ numOfSats' = numOfSats
      /\ satPerPlane' = satPerPlane /\ \A sat : Ends(sat)' = Ends(sat)
  BY <1>1, <1>3, SameShape
<1>5. CASE planeNum < numOfPlanes
  <2>1. satNum' = (planeNum + 1) * satPerPlane /\ loop' = loop /\ planeNum' = planeNum + 1
    BY <1>5 DEF NextPlane
  <2>2. satNum' = planeNum * satPerPlane + satPerPlane
    BY <1>1, <1>2, <2>1
  <2>3. Reached' = Reached
    <3>1. CASE numOfSats <= satNum
      BY <1>1, <1>2, <1>4, <2>2, <3>1 DEF Reached
    <3>2. CASE satNum < numOfSats
      <4>1. satNum' = satNum
        BY <1>1, <1>2, <1>5, <2>2, <3>2 DEF NumOfSatsInPlane
      <4>. QED  BY <1>4, <4>1 DEF Reached
    <3>. QED  BY <1>1, <1>2, <3>1, <3>2
  <2>4. Channelled' = Channelled /\ Edged' = Edged
    BY <1>4, <2>1, <2>3 DEF Channelled, Edged
  <2>5. Followed(F)'
    BY <1>1, <1>3, <1>4, <2>4 DEF Followed
  <2>6. (satNum <= planeNum * satPerPlane + satPerPlane)'
    <3>1. (planeNum + 1) * satPerPlane \in Nat
      BY <1>1, <1>2
    <3>. QED  BY <1>2, <1>4, <2>1, <3>1
  <2>. QED  BY <1>4, <2>5, <2>6 DEF OrderInv
<1>6. CASE ~(planeNum < numOfPlanes)
  <2>1. /\ satNum' = 0 /\ planeNum' = 0
        /\ loop' = IF loop = "channels" THEN "edges" ELSE "done"
    BY <1>6 DEF NextPlane
  <2>2. numOfSats <= satNum
    <3>1. numOfPlanes <= planeNum
      BY <1>1, <1>6
    <3>2. numOfPlanes * satPerPlane <= planeNum * satPerPlane
      BY <1>1, <1>2, <3>1
    <3>3. numOfPlanes * satPerPlane \in Nat
      BY <1>1, <1>2
    <3>. QED  BY <1>1, <1>2, <3>2, <3>3
  <2>3. Reached = numOfSats
    BY <1>1, <1>2, <2>2 DEF Reached
  <2>4. Reached' = 0
    BY <1>2, <1>4, <2>1 DEF Reached
  <2>5. Channelled' = Channelled /\ Edged' = Edged
    BY <1>1, <1>4, <2>1, <2>3, <2>4 DEF Channelled, Edged
  <2>6. Followed(F)'
    BY <1>1, <1>3, <1>4, <2>5 DEF Followed
  <2>7. (satNum <= planeNum * satPerPlane + satPerPlane)'
    BY <1>2, <1>4, <2>1
  <2>. QED  BY <1>4, <2>6, <2>7 DEF OrderInv
<1>. QED  BY <1>5, <1>6

(* All links together are those leaving the satellites, each once.         *)
LEMMA AllOnce ==
  ASSUME shape \in Shapes, NEW F, Accumulated(F)
  PROVE  /\ Once(F[numOfSats])
         /\ \A x : x \in ToSet(F[numOfSats]) <=> \E a \in Satellites : x \in ToSet(Leaving(a))
<1> DEFINE m == numOfSats
           Has(s, x) == \E i \in DOMAIN s : s[i] = x
           Good(n) == /\ Once(F[n])
                      /\ \A x : Has(F[n], x) <=> \E a \in 0 .. n - 1 : Has(Leaving(a), x)
           S == {n \in 0 .. m : Good(n)}
<1>1. m \in Nat
  BY ShapeType
<1> HIDE DEF m
<1>2. 0 \in S
  <2>1. F[0] = <<>> /\ 0 .. 0 - 1 = {}
    BY DEF Accumulated
  <2>2. Good(0)
    BY <2>1 DEF Once
  <2>. QED  BY <1>1, <2>2
<1>3. ASSUME NEW n \in 1 .. m, n - 1 \in S PROVE n \in S
  <2>1. /\ n - 1 \in Nat /\ n - 1 < numOfSats /\ n - 1 \in 0 .. m /\ n \in 0 .. m
        /\ 0 .. n - 1 = (0 .. (n - 1) - 1) \union {n - 1}
    BY <1>1 DEF m
  <2>2. /\ Leaving(n - 1) \in Seq(Link) /\ Once(Leaving(n - 1))
        /\ \A k \in DOMAIN Leaving(n - 1) : Leaving(n - 1)[k][1] = n - 1
    BY <2>1, LeavingType DEF Once, IsInjective
  <2>3. F[n] = F[n - 1] \o Leaving(n - 1) /\ F[n - 1] \in Seq(Link)
    BY <2>1 DEF Accumulated, m
  <2>4. Good(n - 1)
    BY <1>3
  <2> DEFINE s == F[n - 1]
             t == Leaving(n - 1)
  <2>5. \A i \in DOMAIN s : s[i][1] < n - 1
    <3>1. ASSUME NEW i \in DOMAIN s PROVE s[i][1] < n - 1
      <4>1. PICK a \in 0 .. (n - 1) - 1 : Has(Leaving(a), s[i])
        BY <2>4
      <4>2. a \in Nat /\ a < numOfSats /\ a < n - 1
        <5>1. a \in 0 .. (n - 1) - 1 /\ numOfSats \in Nat
          BY <1>1, <4>1 DEF m
        <5> HIDE DEF Has, Good
        <5>. QED  BY <2>1, <5>1
      <4>3. s[i][1] = a
        BY <4>1, <4>2, LeavingType
      <4>. QED  BY <4>2, <4>3
    <3>. QED  BY <3>1
  <2>6. s \in Seq(Link) /\ t \in Seq(Link) /\ Once(s) /\ Once(t)
    BY <2>2, <2>3, <2>4
  <2>7. \A i \in DOMAIN s, j \in DOMAIN t : s[i] # t[j]
    BY <2>1, <2>2, <2>5
  <2> HIDE DEF s, t
  <2>8. Once(s \o t)
    BY <2>6, <2>7, OnceConcat
  <2>9. \A x : Has(s \o t, x) <=> Has(s, x) \/ Has(t, x)
    <3>1. FromEither(s \o t, s, t)
      BY <2>6, ElementsOfConcat
    <3>2. ToSet(s) \subseteq ToSet(s \o t) /\ ToSet(t) \subseteq ToSet(s \o t)
      BY <2>6, ConcatHasBoth
    <3>3. \A x : (Has(s, x) <=> x \in ToSet(s)) /\ (Has(t, x) <=> x \in ToSet(t))
      BY DEF ToSet
    <3>4. \A x : Has(s \o t, x) <=> x \in ToSet(s \o t)
      BY DEF ToSet
    <3>5. \A x : x \in ToSet(s \o t) => x \in ToSet(s) \/ x \in ToSet(t)
      BY <3>1 DEF FromEither, ToSet
    <3> HIDE DEF Has
    <3>. QED  BY <3>2, <3>3, <3>4, <3>5
  <2>10. Good(n)
    BY <2>1, <2>3, <2>4, <2>8, <2>9 DEF s, t
  <2>. QED  BY <2>1, <2>10
<1> HIDE DEF Good
<1>4. \A n \in 0 .. m : n \in S
  <2> HIDE DEF S
  <2>. QED  BY <1>1, <1>2, <1>3, Upwards
<1>5. Good(m)
  BY <1>1, <1>4
<1>6. Satellites = 0 .. m - 1
  BY DEF Satellites, m
<1>7. \A s, x : Has(s, x) <=> x \in ToSet(s)
  BY DEF ToSet
<1>8. Once(F[m]) /\ \A x : Has(F[m], x) <=> \E a \in Satellites : Has(Leaving(a), x)
  BY <1>5, <1>6 DEF Good
<1> HIDE DEF Has
<1>. QED  BY <1>7, <1>8 DEF m

IsPair(x) == x = <<x[1], x[2]>>

(* The graph of a grid that is complete. *)
GraphOK ==
  /\ islVec = fixedTimedLinks
  /\ Once(islVec)
  /\ \A link \in ToSet(islVec) : IsPair(link) /\ link[1] \in Satellites /\ link[2] \in Satellites
  /\ \A n \in Satellites :
       /\ Once(satelliteISLMobilityModules[n])
       /\ ToSet(satelliteISLMobilityModules[n]) = {edge[2] : edge \in {e \in ToSet(islVec) : e[1] = n}}

LEMMA OrderFollows == GridInv /\ OrderInv => (loop = "done" => GraphOK)
<1> SUFFICES ASSUME GridInv, OrderInv, loop = "done" PROVE GraphOK
  OBVIOUS
<1>1. shape \in Shapes /\ numOfSats \in Nat
  BY ShapeType DEF GridInv
<1>2. PICK F : Accumulated(F) /\ Followed(F)
  BY DEF OrderInv
<1>3. Channelled = numOfSats /\ Edged = numOfSats
  BY DEF Channelled, Edged
<1>4. /\ fixedTimedLinks = F[numOfSats] /\ islVec = F[numOfSats]
      /\ satelliteISLMobilityModules = [sat \in Satellites |-> IF sat < numOfSats THEN Ends(sat) ELSE <<>>]
  BY <1>2, <1>3 DEF Followed
<1>5. /\ Once(islVec)
      /\ \A x : x \in ToSet(islVec) <=> \E a \in Satellites : x \in ToSet(Leaving(a))
  BY <1>1, <1>2, <1>4, AllOnce
<1>6. ASSUME NEW a \in Satellites
      PROVE  /\ satelliteISLMobilityModules[a] = Ends(a)
             /\ Once(Leaving(a))
             /\ \A k \in DOMAIN Leaving(a) :
                  Leaving(a)[k] \in Nat \X Nat /\ Leaving(a)[k][1] = a /\ Leaving(a)[k][2] \in Satellites
  <2>1. a \in Nat /\ a < numOfSats
    BY <1>1 DEF Satellites
  <2>2. /\ Leaving(a) \in Seq(Link) /\ IsInjective(Leaving(a))
        /\ \A k \in DOMAIN Leaving(a) : Leaving(a)[k][1] = a /\ Leaving(a)[k][2] < numOfSats
    BY <1>1, <2>1, LeavingType
  <2>3. \A k \in DOMAIN Leaving(a) : Leaving(a)[k] \in Nat \X Nat
    BY <2>2 DEF Link
  <2>. QED  BY <1>1, <1>4, <2>1, <2>2, <2>3 DEF Satellites, Once, IsInjective
<1>7. \A link \in ToSet(islVec) : IsPair(link) /\ link[1] \in Satellites /\ link[2] \in Satellites
  <2>1. \A a \in Satellites : \A x \in ToSet(Leaving(a)) :
          IsPair(x) /\ x[1] \in Satellites /\ x[2] \in Satellites
    BY <1>6 DEF ToSet, IsPair
  <2>. QED  BY <1>5, <2>1
<1>8. ASSUME NEW n \in Satellites
      PROVE  /\ Once(satelliteISLMobilityModules[n])
             /\ ToSet(satelliteISLMobilityModules[n]) = {edge[2] : edge \in {e \in ToSet(islVec) : e[1] = n}}
  <2> DEFINE l == Leaving(n)
  <2>1. /\ DOMAIN Ends(n) = DOMAIN l /\ \A k \in DOMAIN l : Ends(n)[k] = l[k][2]
    BY DEF Ends
  <2>2. \A k \in DOMAIN l : l[k] = <<n, l[k][2]>>
    BY <1>6
  <2>3. \A x : x \in ToSet(islVec) /\ x[1] = n <=> x \in ToSet(l)
    <3>1. \A a \in Satellites : \A x \in ToSet(Leaving(a)) : x[1] = a
      BY <1>6 DEF ToSet
    <3>. QED  BY <1>5, <3>1
  <2>4. Once(l)
    BY <1>6
  <2> HIDE DEF l
  <2>5. Once(Ends(n))
    BY <2>1, <2>2, <2>4 DEF Once
  <2>6. {e \in ToSet(islVec) : e[1] = n} = ToSet(l)
    BY <2>3
  <2>7. ToSet(Ends(n)) = {edge[2] : edge \in ToSet(l)}
    BY <2>1 DEF ToSet
  <2>. QED  BY <1>6, <2>5, <2>6, <2>7
<1>. QED  BY <1>4, <1>5, <1>7, <1>8 DEF GraphOK

(* When the loops have ended the graph is that of the grid. *)
LEMMA GraphFollows == Spec => [](loop = "done" => GraphOK)
<1>1. Init => GridInv /\ CompleteInv /\ OrderInv
  BY InitGrid, InitComplete, InitInOrder
<1>2. GridInv /\ CompleteInv /\ OrderInv /\ [Next]_vars => OrderInv'
  <2> SUFFICES ASSUME GridInv, CompleteInv, OrderInv, [Next]_vars PROVE OrderInv'
    OBVIOUS
  <2>1. CASE ConnectSatellite
    BY <2>1, ConnectSatelliteInOrder
  <2>2. CASE AddEdges
    BY <2>2, AddEdgesInOrder
  <2>3. CASE NextPlane
    BY <2>3, NextPlaneInOrder
  <2>4. CASE UNCHANGED vars
    <3>1. /\ UNCHANGED <<shape, loop, planeNum, satNum, fixedTimedLinks, islVec, satelliteISLMobilityModules>>
      BY <2>4 DEF vars
    <3>2. PICK F : Accumulated(F) /\ Followed(F)
      BY DEF OrderInv
    <3>3. /\ Accumulated(F)' /\ Satellites' = Satellites /\ numOfSats' = numOfSats
          /\ satPerPlane' = satPerPlane /\ \A sat : Ends(sat)' = Ends(sat)
      BY <3>1, <3>2, SameShape
    <3>4. Channelled' = Channelled /\ Edged' = Edged
      BY <3>1, <3>3 DEF Channelled, Edged, Reached
    <3>5. Followed(F)'
      BY <3>1, <3>2, <3>3, <3>4 DEF Followed
    <3>. QED  BY <3>1, <3>3, <3>5 DEF OrderInv
  <2>. QED  BY <2>1, <2>2, <2>3, <2>4 DEF Next
<1>. QED  BY <1>1, <1>2, CompleteKept, GridStep, OrderFollows, PTL DEF Spec

-----------------------------------------------------------------------------
(* IslGrid: no satellite is cut off.                                       *)

(* Every satellite but the first is linked with one of a lower number: the *)
(* one before it in its plane, or the one across.                          *)
LEMMA LowerNeighbour ==
  ASSUME shape \in Shapes, NEW b \in Satellites, b # 0
  PROVE  \E a \in Satellites : a < b /\ IsInterSatelliteLink(a, b)
<1> DEFINE s == satPerPlane
           q == b \div s
<1>1. s \in Nat /\ s >= 2 /\ numOfSats \in Nat /\ b \in Nat /\ b < numOfSats
  BY ShapeType DEF Satellites
<1> HIDE DEF s
<1>2. q \in Nat /\ q * s <= b /\ b < q * s + s /\ q * s \in Nat
  BY <1>1
<1> HIDE DEF q
<1>3. CASE b # q * s
  <2> DEFINE a == b - 1
  <2>1. /\ a \in Nat /\ a < b /\ a < numOfSats /\ q * s <= a /\ a < q * s + s
        /\ a + 1 = b /\ a + 1 # q * s + s
    BY <1>1, <1>2, <1>3
  <2>2. a \in Satellites
    BY <1>1, <2>1 DEF Satellites
  <2> HIDE DEF a
  <2>3. DestSatNumA(q, a) = b
    BY <1>2, <2>1, NextInPlane DEF s
  <2>4. IsInterSatelliteLink(a, DestSatNumA(q, a))
    BY <1>2, <2>1, InPlaneIsNeighbour DEF s
  <2>. QED  BY <2>1, <2>2, <2>3, <2>4
<1>4. CASE b = q * s
  <2> DEFINE a == b - s
             p == q - 1
  <2>1. p \in Nat /\ p * s = q * s - s
    <3>1. q # 0
      BY <1>1, <1>4
    <3>. QED  BY <1>1, <1>2, <3>1
  <2>2. p * s \in Nat
    BY <1>1, <2>1
  <2>3. /\ a \in Nat /\ a < b /\ a < numOfSats /\ p * s <= a /\ a < p * s + s
        /\ a + s = b
    <3> HIDE DEF p
    <3>. QED  BY <1>1, <1>2, <1>4, <2>1, <2>2
  <2>4. a \in Satellites
    BY <1>1, <2>3 DEF Satellites
  <2> HIDE DEF a, p
  <2>5. DestSatNumB(a) = b
    BY <2>3 DEF DestSatNumB, s
  <2>6. IsInterSatelliteLink(a, DestSatNumB(a))
    BY <1>1, <2>1, <2>3, <2>5, AcrossIsNeighbour DEF s
  <2>. QED  BY <2>3, <2>4, <2>5, <2>6
<1>. QED  BY <1>3, <1>4

LEMMA NeighboursConnect == GridInv /\ NeighboursLinked => GridConnected
<1> SUFFICES ASSUME GridInv, NeighboursLinked, loop # "channels"
             PROVE  GridConnected
  BY DEF GridConnected
<1> DEFINE m == numOfSats
           links == {{link[1], link[2]} : link \in ToSet(fixedTimedLinks)}
           V == SUBSET Nat
           first == {0}
           Next1(near) == near \union UNION {link \in links : link \intersect near # {}}
           within == CHOOSE within : within = [k \in 0 .. m |-> IF k = 0 THEN first ELSE Next1(within[k - 1])]
           G == [x \in (0 .. m) \X V |-> Next1(x[2])]
<1>1. shape \in Shapes /\ m \in Nat /\ 0 \in Nat /\ 0 <= m
  BY ShapeType DEF GridInv
<1>2. GridConnected <=> Satellites \subseteq within[m]
  BY DEF GridConnected
<1>3. first \in V /\ first = {0}
  OBVIOUS
<1>4. links \subseteq V
  <2>1. \A link \in ToSet(fixedTimedLinks) : link[1] \in Nat /\ link[2] \in Nat
    BY DEF GridInv, Link, ToSet
  <2>. QED  BY <2>1
<1>5. ASSUME NEW a \in Satellites, NEW b \in Satellites, a # b, IsInterSatelliteLink(a, b)
      PROVE  {a, b} \in links
  <2>1. {<<a, b>>, <<b, a>>} \intersect ToSet(fixedTimedLinks) # {}
    BY <1>5 DEF NeighboursLinked
  <2>. QED  BY <2>1
<1> HIDE DEF links, V, first
<1>6. G \in [(0 .. m) \X V -> V]
  <2>1. \A near \in V : Next1(near) \in V
    BY <1>4 DEF V
  <2> HIDE DEF Next1
  <2>. QED  BY <2>1
<1>7. \A k \in 0 .. m, near \in V : G[<<k, near>>] = Next1(near)
  BY DEF Next1
<1> HIDE DEF G, Next1, m
<1>8. PICK h \in [0 .. m -> V] : Recursion(h, 0, m, first, G)
  BY <1>1, <1>3, <1>6, RecursionExists
<1>9. h = [k \in 0 .. m |-> IF k = 0 THEN first ELSE Next1(h[k - 1])]
  <2>1. h = [k \in 0 .. m |-> IF k = 0 THEN first ELSE G[<<k, h[k - 1]>>]]
    BY <1>8 DEF Recursion
  <2>2. \A k \in 0 .. m : k # 0 => k - 1 \in 0 .. m
    BY <1>1
  <2>3. \A k \in 0 .. m : k # 0 => G[<<k, h[k - 1]>>] = Next1(h[k - 1])
    BY <1>7, <1>8, <2>2
  <2>. QED  BY <2>1, <2>3
<1>10. within = [k \in 0 .. m |-> IF k = 0 THEN first ELSE Next1(within[k - 1])]
  BY <1>9, Zenon
<1> HIDE DEF within
<1>11. 0 \in within[0]
  BY <1>1, <1>3, <1>10
<1>12. ASSUME NEW k \in 1 .. m
       PROVE  /\ within[k - 1] \subseteq within[k]
              /\ \A link \in links : link \intersect within[k - 1] # {} => link \subseteq within[k]
  <2>1. k \in 0 .. m /\ k # 0
    BY <1>1
  <2>2. within[k] = Next1(within[k - 1])
    BY <1>10, <2>1
  <2>. QED  BY <2>2 DEF Next1
<1> DEFINE S == {k \in 0 .. m : \A b \in Satellites : b <= k => b \in within[k]}
<1>13. 0 \in S
  <2>1. \A b \in Satellites : b <= 0 => b = 0
    BY DEF Satellites
  <2>. QED  BY <1>1, <1>11, <2>1
<1>14. ASSUME NEW k \in 1 .. m, k - 1 \in S PROVE k \in S
  <2>1. ASSUME NEW b \in Satellites, b <= k PROVE b \in within[k]
    <3>1. b \in Int
      BY DEF Satellites
    <3>2. CASE b <= k - 1
      BY <1>12, <1>14, <3>2
    <3>3. CASE b = k
      <4>1. b # 0
        BY <3>3
      <4>2. PICK a \in Satellites : a < b /\ IsInterSatelliteLink(a, b)
        BY <1>1, <4>1, LowerNeighbour
      <4>3. a <= k - 1 /\ a # b
        BY <3>1, <3>3, <4>2 DEF Satellites
      <4>4. a \in within[k - 1]
        BY <1>14, <4>3
      <4>5. {a, b} \in links /\ {a, b} \intersect within[k - 1] # {}
        BY <1>5, <4>2, <4>3, <4>4
      <4>. QED  BY <1>12, <4>5
    <3>. QED  BY <2>1, <3>1, <3>2, <3>3
  <2>. QED  BY <1>1, <2>1
<1> HIDE DEF S
<1>15. \A k \in 0 .. m : k \in S
  BY <1>1, <1>13, <1>14, Upwards
<1>16. m \in S
  BY <1>1, <1>15
<1>17. \A b \in Satellites : b <= m
  BY <1>1 DEF Satellites, m
<1>. QED  BY <1>2, <1>16, <1>17 DEF S

(* No satellite is cut off, whatever the constellation and however many of *)
(* its satellites are in use.                                              *)
THEOREM GridIsConnected == Spec => []GridConnected
<1>. QED
  BY InitGrid, InitComplete, CompleteKept, GridStep, CompleteFollows, NeighboursConnect, PTL DEF Spec

-----------------------------------------------------------------------------
(* NetworkSetup.                                                           *)

(* The order in which a simulation comes up restricts the numbering and    *)
(* the grid, but lets neither do what it could not do alone.               *)
THEOREM SetupImplementsBoth == SetupSpec => NumberingSpec /\ Spec
<1>1. SetupInit => NumberingInit /\ Init
  BY DEF SetupInit
<1>2. [SetupNext]_<<numberVars, vars>> => [NumberingNext]_numberVars /\ [Next]_vars
  BY DEF SetupNext, NumberNodes, PlaceLinks
<1>. QED  BY <1>1, <1>2, PTL DEF SetupSpec, NumberingSpec, Spec

(* The nodes learn their numbers last, and the satellites numbered are     *)
(* those of the grid. *)
SetupOrder ==
  /\ network.numOfSats = shape.numOfSats
  /\ stage = "done" => loop = "done"

LEMMA OrderOfSetup == SetupSpec => []SetupOrder
<1>1. SetupInit => SetupOrder
  BY DEF SetupInit, SetupOrder, NumberingInit
<1>2. SetupOrder /\ [SetupNext]_<<numberVars, vars>> => SetupOrder'
  <2> SUFFICES ASSUME SetupOrder, [SetupNext]_<<numberVars, vars>> PROVE SetupOrder'
    OBVIOUS
  <2>1. CASE NumberNodes
    <3>1. shape' = shape /\ loop' = loop /\ network' = network
      BY <2>1 DEF NumberNodes, vars, NumberingNext, AssignIDtoModule, WriteModuleIDMapping,
                  WriteModuleIDMappingFails, UpdateModuleIDMapping, SetIpv4NodeId, NextStage
    <3>2. stage' = "done" => stage = "setIpv4NodeIds"
      BY <2>1 DEF NumberNodes, NumberingNext, AssignIDtoModule, WriteModuleIDMapping,
                  WriteModuleIDMappingFails, UpdateModuleIDMapping, SetIpv4NodeId, NextStage
    <3>. QED  BY <2>1, <3>1, <3>2 DEF SetupOrder, NumberNodes
  <2>2. CASE PlaceLinks
    <3>1. stage' # "done" /\ network' = network
      BY <2>2 DEF PlaceLinks, numberVars
    <3>2. shape' = shape
      BY <2>2 DEF PlaceLinks, Next, ConnectSatellite, AddEdges, NextPlane
    <3>. QED  BY <3>1, <3>2 DEF SetupOrder
  <2>3. CASE UNCHANGED <<numberVars, vars>>
    BY <2>3 DEF SetupOrder, numberVars, vars
  <2>. QED  BY <2>1, <2>2, <2>3 DEF SetupNext
<1>. QED  BY <1>1, <1>2, PTL DEF SetupSpec

(* The numbering and the grid together: the edges are between the numbers  *)
(* of satellites that have channels, and each has one edge for a channel.  *)
LEMMA EdgesFollow ==
  SetupOrder /\ NumbersAgree /\ (loop = "done" => GraphOK) => EdgesHaveChannels
<1> DEFINE Number(sat) == moduleGraphIdByModule[Node("satellite", sat)]
<1> SUFFICES ASSUME SetupOrder, NumbersAgree, loop = "done" => GraphOK, stage = "done"
             PROVE  EdgesHaveChannels
  BY DEF EdgesHaveChannels
<1>1. GraphOK /\ network.numOfSats = shape.numOfSats
  BY DEF SetupOrder
<1>2. ASSUME NEW sat \in Satellites PROVE Number(sat) = sat
  <2>1. Node("satellite", sat) \in CachedModules
    BY <1>1, <1>2 DEF CachedModules, Routers, NodesOf, Satellites, numOfSats
  <2>2. Node("satellite", sat).kind = "satellite" /\ Node("satellite", sat).index = sat
    BY DEF Node
  <2>. QED  BY <2>1, <2>2 DEF NumbersAgree
<1> HIDE DEF Number
<1>3. ASSUME NEW link \in ToSet(fixedTimedLinks)
      PROVE  <<Number(link[1]), Number(link[2])>> = link
  BY <1>1, <1>2, <1>3 DEF GraphOK, IsPair
<1>4. {<<Number(link[1]), Number(link[2])>> : link \in ToSet(fixedTimedLinks)} = ToSet(fixedTimedLinks)
  BY <1>3
<1>5. ToSet(islVec) = {<<Number(link[1]), Number(link[2])>> : link \in ToSet(fixedTimedLinks)}
  BY <1>1, <1>4 DEF GraphOK
<1>6. IsInjective(fixedTimedLinks) /\ IsInjective(islVec)
  BY <1>1 DEF GraphOK, Once, IsInjective
<1>7. \A n \in Satellites :
        /\ IsInjective(satelliteISLMobilityModules[n])
        /\ ToSet(satelliteISLMobilityModules[n]) = {edge[2] : edge \in {e \in ToSet(islVec) : e[1] = n}}
  BY <1>1 DEF GraphOK, Once, IsInjective
<1>. QED  BY <1>5, <1>6, <1>7 DEF EdgesHaveChannels, Number

(* The edges of the routing graph are the channels of the network, by the  *)
(* numbers that the nodes have, and each edge has its two mobility modules *)
(* among those that weights are computed from.                             *)
THEOREM EdgesFollowChannels == SetupSpec => []EdgesHaveChannels
<1>. QED
  BY SetupImplementsBoth, OneNumberPerNode, GraphFollows, OrderOfSetup, EdgesFollow, PTL

(* So all that was proved of them holds of a simulation that has come up.  *)
THEOREM SetupCorrect ==
  SetupSpec => [](/\ NumbersAgree /\ TypesAgree
                  /\ LinkedAreNeighbours /\ NeighboursLinked /\ GridConnected
                  /\ EdgesHaveChannels)
<1>. QED
  BY SetupImplementsBoth, OneNumberPerNode, NumbersTellTypes, GridLinksNeighbours,
     GridLinksAllNeighbours, GridIsConnected, EdgesFollowChannels, PTL

=============================================================================
