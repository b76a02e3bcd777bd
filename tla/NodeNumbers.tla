---------------------------- MODULE NodeNumbers ----------------------------
(***************************************************************************)
(* The numbers of nodes. A node's number is its vertex in the routing      *)
(* graph, its row and column in the next-hop matrix, its index in the      *)
(* tables of LeoIpv4 and its identity in route files, and tells its type.  *)
(* LeoIpv4NetworkConfigurator arrives at it in four ways: from a number to *)
(* the module of a name (getNodeModule), from a name back to the number by *)
(* two loops that together fill moduleGraphIDMap, from the number to the   *)
(* type (getNodeTypeCode), and LeoIpv4 is told its own number when the     *)
(* simulation starts. LeoChannelConstructor has its own arrays of modules  *)
(* and adds the number of satellites to the index of a ground station.     *)
(*                                                                         *)
(* One action is one round of a loop. A module is identified with its      *)
(* name: the kind of node and its index. All modules exist, as the NED     *)
(* files create as many of each kind as the parameters say.                *)
(* An operator whose name has an underscore is a faulty variant of the     *)
(* definition that follows it; only the tests of the properties use it.    *)
(***************************************************************************)
EXTENDS Integers, Sequences

CONSTANTS
  Networks   \* numOfSats, numOfGS, numOfClients and numOfUserTerminals

ASSUME NetworksAssumption ==
  Networks \subseteq [numOfSats: Nat, numOfGS: Nat, numOfClients: Nat, numOfUserTerminals: Nat]

VARIABLES
  network,
  loadFiles,              \* routes are loaded, not saved
  stage,                  \* the loop that runs
  nodeNum,                \* its counter
  nodeModules,            \* module of each number, from 0
  moduleGraphIdByModule,
  moduleGraphIDMap,       \* number of each name
  nodeId                  \* of each LeoIpv4

numberVars ==
  <<network, loadFiles, stage, nodeNum, nodeModules, moduleGraphIdByModule, moduleGraphIDMap,
    nodeId>>

-----------------------------------------------------------------------------
(* Names and numbers.                                                      *)

endpointStart   == network.numOfSats + network.numOfGS
clientEnd       == endpointStart + network.numOfClients
serverEnd       == clientEnd + network.numOfClients
userTerminalEnd == serverEnd + network.numOfUserTerminals

Node(kind, index) == [kind |-> kind, index |-> index]

NodesOf(kind, number) == {Node(kind, i) : i \in 0 .. number - 1}

Routers ==
  NodesOf("satellite", network.numOfSats) \union NodesOf("groundStation", network.numOfGS)

(* The arrays of LeoChannelConstructor have a node of a kind at its index. *)
CachedModules ==
  Routers
    \union NodesOf("client", network.numOfClients)
    \union NodesOf("server", network.numOfClients)
    \union NodesOf("userTerminal", network.numOfUserTerminals)

GetNodeModule(n) ==
  IF n < network.numOfSats THEN Node("satellite", n)
  ELSE IF n < endpointStart THEN Node("groundStation", n - network.numOfSats)
  ELSE IF n < clientEnd THEN Node("client", n - endpointStart)
  ELSE IF n < serverEnd THEN Node("server", n - clientEnd)
  ELSE Node("userTerminal", n - serverEnd)

RouterName(n) ==
  IF n < network.numOfSats THEN Node("satellite", n) ELSE Node("groundStation", n - network.numOfSats)

EndpointName_ServersFirst(n) ==
  IF n < clientEnd THEN Node("server", n - endpointStart)
  ELSE IF n < serverEnd THEN Node("client", n - clientEnd)
  ELSE Node("userTerminal", n - serverEnd)

EndpointName(n) ==
  IF n < clientEnd THEN Node("client", n - endpointStart)
  ELSE IF n < serverEnd THEN Node("server", n - clientEnd)
  ELSE Node("userTerminal", n - serverEnd)

NodeTypeCode_ClientsOnce(id) ==
  IF id < network.numOfSats THEN 0
  ELSE IF id < endpointStart THEN 1
  ELSE IF id < endpointStart + network.numOfClients + network.numOfUserTerminals THEN 2
  ELSE -1

(* getNodeTypeCode: 0 a satellite, 1 a ground station, 2 an endpoint.      *)
NodeTypeCode(id) ==
  IF id < 0 THEN -1
  ELSE IF id < network.numOfSats THEN 0
  ELSE IF id < endpointStart THEN 1
  ELSE IF id < endpointStart + network.numOfClients * 2 + network.numOfUserTerminals THEN 2
  ELSE -1

(* A table (an unordered_map) with one more entry, or an entry replaced.   *)
Put(table, m, n) == [x \in DOMAIN table \union {m} |-> IF x = m THEN n ELSE table[x]]

-----------------------------------------------------------------------------
(* The loops.                                                              *)

NumberingInit ==
  /\ network \in Networks /\ loadFiles \in BOOLEAN
  /\ stage = "assignIDtoModules" /\ nodeNum = 0
  /\ nodeModules = <<>> /\ moduleGraphIdByModule = <<>>
  /\ moduleGraphIDMap = <<>> /\ nodeId = <<>>

AssignIDtoModule ==
  /\ stage = "assignIDtoModules" /\ nodeNum < userTerminalEnd
  /\ nodeModules' = Append(nodeModules, GetNodeModule(nodeNum))
  /\ moduleGraphIdByModule' = Put(moduleGraphIdByModule, GetNodeModule(nodeNum), nodeNum)
  /\ nodeNum' = nodeNum + 1
  /\ UNCHANGED <<network, loadFiles, stage, moduleGraphIDMap, nodeId>>

(* writeModuleIDMappingsToFile, for satellites and ground stations. A run  *)
(* that saves routes writes the names to a file at the same time.          *)
WriteModuleIDMapping ==
  /\ stage = "writeModuleIDMappingsToFile" /\ nodeNum < endpointStart
  /\ moduleGraphIDMap' = Put(moduleGraphIDMap, RouterName(nodeNum), nodeNum)
  /\ nodeNum' = nodeNum + 1
  /\ UNCHANGED <<network, loadFiles, stage, nodeModules, moduleGraphIdByModule, nodeId>>

(* The directory or the file cannot be created: writeModuleIDMappingsToFile *)
(* returns before its loop, the table lacks all routers, and the           *)
(* initialization goes on (verifyModuleIDMappingsFromFile only prints).    *)
WriteModuleIDMappingFails ==
  /\ stage = "writeModuleIDMappingsToFile" /\ nodeNum = 0 /\ ~loadFiles
  /\ stage' = "updateModuleIDMappingsClientServer" /\ nodeNum' = endpointStart
  /\ UNCHANGED <<network, loadFiles, nodeModules, moduleGraphIdByModule, moduleGraphIDMap, nodeId>>

UpdateModuleIDMapping ==
  /\ stage = "updateModuleIDMappingsClientServer" /\ nodeNum < userTerminalEnd
  /\ moduleGraphIDMap' = Put(moduleGraphIDMap, EndpointName(nodeNum), nodeNum)
  /\ nodeNum' = nodeNum + 1
  /\ UNCHANGED <<network, loadFiles, stage, nodeModules, moduleGraphIdByModule, nodeId>>

SetIpv4NodeId ==
  /\ stage = "setIpv4NodeIds" /\ nodeNum < Len(nodeModules)
  /\ nodeId' = Put(nodeId, nodeModules[nodeNum + 1], nodeNum)
  /\ nodeNum' = nodeNum + 1
  /\ UNCHANGED <<network, loadFiles, stage, nodeModules, moduleGraphIdByModule, moduleGraphIDMap>>

(* The end of one loop and the beginning of the next: the first three run  *)
(* when the configurator is initialized, the last when the simulation      *)
(* starts.                                                                 *)
NextStage ==
  /\ \/ /\ stage = "assignIDtoModules" /\ nodeNum = userTerminalEnd
        /\ stage' = "writeModuleIDMappingsToFile" /\ nodeNum' = 0
     \/ /\ stage = "writeModuleIDMappingsToFile" /\ nodeNum = endpointStart
        /\ stage' = "updateModuleIDMappingsClientServer" /\ nodeNum' = endpointStart
     \/ /\ stage = "updateModuleIDMappingsClientServer" /\ nodeNum = userTerminalEnd
        /\ stage' = "setIpv4NodeIds" /\ nodeNum' = 0
     \/ /\ stage = "setIpv4NodeIds" /\ nodeNum = Len(nodeModules)
        /\ stage' = "done" /\ UNCHANGED nodeNum
  /\ UNCHANGED <<network, loadFiles, nodeModules, moduleGraphIdByModule, moduleGraphIDMap, nodeId>>

NumberingNext ==
  \/ AssignIDtoModule
  \/ WriteModuleIDMapping
  \/ WriteModuleIDMappingFails
  \/ UpdateModuleIDMapping
  \/ SetIpv4NodeId
  \/ NextStage

NumberingSpec == NumberingInit /\ [][NumberingNext]_numberVars

-----------------------------------------------------------------------------
(* Properties.                                                             *)

(* Every node has one number, by whichever way one arrives at it: by its   *)
(* module, by the list of modules, by its name if the table has the name,  *)
(* and by index for the two kinds of nodes that are vertices of the        *)
(* routing graph. The table has all names, or, in a run that saves routes  *)
(* but could not create its file of names, exactly those of the endpoints. *)
NumbersAgree ==
  stage = "done" =>
    /\ DOMAIN moduleGraphIdByModule = CachedModules
    /\ \/ DOMAIN moduleGraphIDMap = CachedModules
       \/ ~loadFiles /\ DOMAIN moduleGraphIDMap = CachedModules \ Routers
    /\ \A m \in DOMAIN moduleGraphIDMap : moduleGraphIDMap[m] = moduleGraphIdByModule[m]
    /\ \A m \in CachedModules :
         /\ moduleGraphIdByModule[m] + 1 \in DOMAIN nodeModules
         /\ nodeModules[moduleGraphIdByModule[m] + 1] = m
         /\ m.kind = "satellite" => moduleGraphIdByModule[m] = m.index
         /\ m.kind = "groundStation" => moduleGraphIdByModule[m] = network.numOfSats + m.index

(* A node knows its own number, the one that its module and, if the table  *)
(* of names has it, its name are looked up by, and every node takes the    *)
(* number of every other one for what that node is: LeoIpv4 sends a packet *)
(* for an endpoint to the node it is attached to, and any other by the     *)
(* routing table.                                                          *)
TypesAgree ==
  stage = "done" =>
    \A m \in CachedModules :
      /\ m \in DOMAIN nodeId /\ nodeId[m] = moduleGraphIdByModule[m]
      /\ m \in DOMAIN moduleGraphIDMap => nodeId[m] = moduleGraphIDMap[m]
      /\ NodeTypeCode(nodeId[m]) =
           IF m.kind = "satellite" THEN 0 ELSE IF m.kind = "groundStation" THEN 1 ELSE 2

=============================================================================
