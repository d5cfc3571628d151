-------------------------- MODULE SerfStressProofs --------------------------
(***************************************************************************)
(* Proofs about the stress test of serf: for any length of the names and   *)
(* any alphabet that has letters enough, and any choice of the nodes that  *)
(* are killed, every agent has a name of its own, is listed as long as it  *)
(* runs, and is in one network with all others.                            *)
(***************************************************************************)
EXTENDS SerfStress, CollectionProofs, TLAPS, SequenceTheorems, FiniteSetTheorems

Capacity == NameLength * (Letters - 1)

(* Agents started so far and still to be started never exceed the names.   *)
Budget ==
  /\ config \in 1 .. 5
  /\ stage \in {"seeds", "kill", "join", "destroyed"}
  /\ left \in Nat /\ round \in 0 .. RoundsOf /\ current_port \in Nat
  /\ stage = "seeds" => round = 0 /\ current_port + left = Load.seeds
  /\ stage = "kill" => current_port = Load.seeds + round * Load.joins
  /\ stage = "join" => /\ round < RoundsOf
                       /\ current_port + left = Load.seeds + (round + 1) * Load.joins
  /\ current_port <= Capacity

(* The letters before position j have not been touched, those after it are *)
(* used up, and each agent so far advanced one letter by one.              *)
Advanced(j) ==
  /\ \A i \in 1 .. NameLength : i < j => current_name[i] = 1
  /\ \A i \in 1 .. NameLength : i > j => current_name[i] = Letters
  /\ current_port = (NameLength - j) * (Letters - 1) + current_name[j] - 1

(* Names that were given out are behind the current one in some letter.    *)
Behind(name) == /\ \A i \in 1 .. NameLength : name[i] <= current_name[i]
                /\ name # current_name

Naming ==
  /\ current_name \in Name
  /\ \E j \in 1 .. NameLength : Advanced(j)
  /\ \A k \in 1 .. Len(name_to_ports) : Behind(name_to_ports[k].name)

Entry == [name : Name, port : Int]
Agent == [name : Name, cluster : Int]

(* Both tables list the same agents, each under one name and one process.  *)
Matching ==
  /\ name_to_ports \in Seq(Entry)
  /\ \A k, l \in 1 .. Len(name_to_ports) :
       \/ name_to_ports[k].name = name_to_ports[l].name
       \/ name_to_ports[k].port = name_to_ports[l].port
       => k = l
  /\ \A k \in 1 .. Len(name_to_ports) :
       /\ name_to_ports[k].port \in 1 .. current_port
       /\ name_to_popen[name_to_ports[k].name] = name_to_ports[k].port
  /\ DOMAIN name_to_popen = Listed

(* They list those that run, and all that were started until one is killed.*)
Tables ==
  /\ Matching
  /\ running = IF stage = "destroyed" THEN {}
               ELSE {name_to_ports[k].port : k \in 1 .. Len(name_to_ports)}
  /\ stage = "seeds" => Len(name_to_ports) = current_port

(* The agents that run have the names under which they are listed, and are *)
(* in one cluster.                                                         *)
Network ==
  /\ agents \in Seq(Agent) /\ Len(agents) = current_port
  /\ \A k \in 1 .. Len(name_to_ports) :
       agents[name_to_ports[k].port].name = name_to_ports[k].name
  /\ stage \in {"kill", "join"} =>
       \A p, q \in running : agents[p].cluster = agents[q].cluster
  /\ \A k \in DOMAIN raports : raports[k] = [extra |-> 0, missing |-> 0]
  /\ raports \in Seq([extra : Nat, missing : Nat])

Inv == Budget /\ Naming /\ Tables /\ Network

-----------------------------------------------------------------------------
(* The numbers of an experiment.                                           *)
LEMMA LoadType ==
  ASSUME config \in 1 .. 5
  PROVE  /\ Load.seeds \in Nat \ {0} /\ Load.joins \in Nat /\ Load.kills \in Nat
         /\ Load.joins \in {0, 1, 2, 4}
         /\ RoundsOf \in Nat
         /\ Load.seeds + RoundsOf * Load.joins <= Capacity
         /\ Capacity \in Nat
<1>1. /\ Load.seeds \in {3, 5, 10} /\ Load.joins \in {0, 1, 2, 4}
      /\ Load.kills \in {0, 1, 2, 4} /\ Load.rounds = 10
  BY DEF Load, SerfConfigs, Config
<1>2. RoundsOf \in Nat
  BY <1>1, NamesSuffice DEF RoundsOf, RoundsFor
<1>3. Capacity \in Nat
  <2>1. \A a, b \in Nat \ {0} : a * (b - 1) \in Nat
    OBVIOUS
  <2> QED BY <2>1, NamesSuffice DEF Capacity
<1>4. DOMAIN SerfConfigs = 1 .. 5
  BY DEF SerfConfigs
<1>5. Load.seeds + RoundsOf * Load.joins <= Capacity
  BY <1>4, NamesSuffice DEF RoundsOf, Load, Capacity
<1> QED BY <1>1, <1>2, <1>3, <1>5

(* The name after the current one, while there is one: the last letter     *)
(* that can be advanced is advanced.                                       *)
LEMMA NextNameProps ==
  ASSUME current_name \in Name, NEW j \in 1 .. NameLength, Advanced(j),
         current_port + 1 <= Capacity
  PROVE  \E l \in 1 .. NameLength :
           /\ current_name[l] < Letters
           /\ NextName(current_name) = [current_name EXCEPT ![l] = @ + 1]
           /\ \A i \in 1 .. NameLength : i < l => current_name[i] = 1
           /\ \A i \in 1 .. NameLength : i > l => current_name[i] = Letters
           /\ current_port + 1 = (NameLength - l) * (Letters - 1) + current_name[l]
<1> DEFINE room == {i \in 1 .. NameLength : current_name[i] < Letters}
<1>1. /\ NameLength \in Nat \ {0} /\ Letters \in Nat \ {0}
      /\ \A i \in 1 .. NameLength : current_name[i] \in 1 .. Letters
  BY NamesSuffice DEF Name
<1>2. ASSUME NEW l \in room, \A i \in room : i <= l
      PROVE  NextName(current_name) = [current_name EXCEPT ![l] = @ + 1]
  <2>1. Max(room) = l
    <3>1. \A x \in room : (\A y \in room : x >= y) => x = l
      BY <1>1, <1>2
    <3>2. \A y \in room : l >= y
      BY <1>1, <1>2
    <3> QED BY <3>1, <3>2 DEF Max
  <2>2. room # {}
    OBVIOUS
  <2> QED BY <2>1, <2>2 DEF NextName
<1>3. CASE current_name[j] < Letters
  <2>1. j \in room /\ \A i \in room : i <= j
    BY <1>1, <1>3 DEF Advanced
  <2>2. NextName(current_name) = [current_name EXCEPT ![j] = @ + 1]
    BY <1>2, <2>1
  <2>3. current_port + 1 = (NameLength - j) * (Letters - 1) + current_name[j]
    <3>1. \A a, b, c, d \in Int : a = b * c + d - 1 => a + 1 = b * c + d
      OBVIOUS
    <3>2. (NameLength - j) \in Int /\ Letters - 1 \in Int /\ current_name[j] \in Int
      BY <1>1
    <3>3. (NameLength - j) * (Letters - 1) \in Int
      BY <3>2
    <3> QED BY <1>1, <3>2, <3>3 DEF Advanced
  <2> QED BY <1>3, <2>2, <2>3 DEF Advanced
<1>4. CASE current_name[j] = Letters
  <2>1. j # 1 /\ Letters # 1
    <3>1. \A a, b \in Int : (a - 1) * b + b = a * b
      OBVIOUS
    <3>2. (NameLength - 1) * (Letters - 1) + (Letters - 1) = Capacity
      BY <1>1, <3>1 DEF Capacity
    <3>3. \A a \in Int : a * (1 - 1) = 0
      OBVIOUS
    <3>4. CASE j = 1
      <4>1. current_port = (NameLength - 1) * (Letters - 1) + Letters - 1
        BY <1>4, <3>4 DEF Advanced
      <4>2. (NameLength - 1) * (Letters - 1) \in Int /\ Letters \in Int
        BY <1>1
      <4>3. current_port = Capacity
        BY <3>2, <4>1, <4>2
      <4>4. Capacity \in Int
        BY <3>2, <4>2
      <4> QED BY <4>3, <4>4
    <3>5. CASE Letters = 1
      <4>1. Capacity = 0 /\ (NameLength - j) * (Letters - 1) = 0
        BY <1>1, <3>3, <3>5 DEF Capacity
      <4>2. current_port = 0
        BY <1>4, <3>5, <4>1 DEF Advanced
      <4> QED BY <4>1, <4>2
    <3> QED BY <3>4, <3>5
  <2>2. j - 1 \in 1 .. NameLength /\ current_name[j - 1] = 1
    BY <1>1, <2>1 DEF Advanced
  <2>3. j - 1 \in room /\ \A i \in room : i <= j - 1
    <3>1. \A i \in room : i <= j /\ i # j
      BY <1>1, <1>4 DEF Advanced
    <3> QED BY <1>1, <2>1, <2>2, <3>1
  <2>4. NextName(current_name) = [current_name EXCEPT ![j - 1] = @ + 1]
    BY <1>2, <2>3
  <2>5. /\ \A i \in 1 .. NameLength : i < j - 1 => current_name[i] = 1
        /\ \A i \in 1 .. NameLength : i > j - 1 => current_name[i] = Letters
    BY <1>1, <1>4 DEF Advanced
  <2>6. current_port + 1 = (NameLength - (j - 1)) * (Letters - 1) + current_name[j - 1]
    <3>1. \A a, b \in Int : (a + 1) * b = a * b + b
      OBVIOUS
    <3>2. NameLength - (j - 1) = (NameLength - j) + 1
      BY <1>1
    <3>3. (NameLength - (j - 1)) * (Letters - 1) = (NameLength - j) * (Letters - 1) + (Letters - 1)
      BY <1>1, <3>1, <3>2
    <3>4. (NameLength - j) * (Letters - 1) \in Int
      BY <1>1
    <3>5. current_port = (NameLength - j) * (Letters - 1) + Letters - 1
      BY <1>4 DEF Advanced
    <3> QED BY <1>1, <2>2, <3>3, <3>4, <3>5
  <2> QED BY <2>1, <2>2, <2>3, <2>4, <2>5, <2>6
<1> QED BY <1>1, <1>3, <1>4

(* While agents are still to be started there are names for them.          *)
LEMMA Room ==
  ASSUME Budget, stage \in {"seeds", "join"}
  PROVE  current_port \in Nat /\ left \in Nat /\ current_port + left <= Capacity
<1>1. /\ current_port \in Nat /\ left \in Nat /\ round \in Nat /\ round <= RoundsOf
      /\ config \in 1 .. 5
  BY LoadType DEF Budget
<1>2. /\ Load.seeds \in Nat /\ Load.joins \in {0, 1, 2, 4} /\ RoundsOf \in Nat
      /\ Load.seeds + RoundsOf * Load.joins <= Capacity /\ Capacity \in Nat
  BY <1>1, LoadType
<1>3. CASE stage = "seeds"
  <2>1. current_port + left = Load.seeds
    BY <1>3 DEF Budget
  <2>2. \A s, r, c \in Nat, j \in {0, 1, 2, 4} : s + r * j <= c => s <= c
    OBVIOUS
  <2> QED BY <1>1, <1>2, <2>1, <2>2
<1>4. CASE stage = "join"
  <2>1. round < RoundsOf /\ current_port + left = Load.seeds + (round + 1) * Load.joins
    BY <1>4 DEF Budget
  <2>2. \A s, r, q, c \in Nat, j \in {0, 1, 2, 4} :
          s + r * j <= c /\ q < r => s + (q + 1) * j <= c
    OBVIOUS
  <2> QED BY <1>1, <1>2, <2>1, <2>2
<1> QED BY <1>1, <1>3, <1>4

(* Starting an agent: it gets a new name and a new process, and is listed  *)
(* last in one table and added to the other.                               *)
LEMMA Start ==
  ASSUME Inv, stage \in {"seeds", "join"}, left > 0, StartAgent
  PROVE  /\ current_port' = current_port + 1 /\ current_port' <= Capacity
         /\ name_to_ports' = Append(name_to_ports, [name |-> current_name,
                                                    port |-> current_port + 1])
         /\ running' = {name_to_ports'[k].port : k \in 1 .. Len(name_to_ports')}
         /\ Naming' /\ Matching'
<1> DEFINE new == [name |-> current_name, port |-> current_port + 1]
<1>1. current_port \in Nat /\ left \in Nat /\ current_port + 1 <= Capacity
  BY Room, LoadType DEF Inv, Budget
<1>2. current_port' = current_port + 1
  BY DEF StartAgent
<1>3. name_to_ports \in Seq(Entry) /\ Len(name_to_ports) \in Nat
  BY LenProperties DEF Inv, Tables, Matching
<1>4. DOMAIN name_to_ports = 1 .. Len(name_to_ports)
  BY <1>3
<1>5. \A k \in 1 .. Len(name_to_ports) : /\ name_to_ports[k] \in Entry
                                         /\ name_to_ports[k].name # current_name
                                         /\ name_to_ports[k].port # current_port + 1
                                         /\ name_to_ports[k].port \in 1 .. current_port
  <2> SUFFICES ASSUME NEW k \in 1 .. Len(name_to_ports)
               PROVE  /\ name_to_ports[k] \in Entry
                      /\ name_to_ports[k].name # current_name
                      /\ name_to_ports[k].port # current_port + 1
                      /\ name_to_ports[k].port \in 1 .. current_port
    OBVIOUS
  <2>1. name_to_ports[k] \in Entry
    BY <1>3, ElementOfSeq
  <2>2. name_to_ports[k].name # current_name
    BY DEF Inv, Naming, Behind
  <2>3. name_to_ports[k].port \in 1 .. current_port
    BY DEF Inv, Tables, Matching
  <2> QED BY <1>1, <2>1, <2>2, <2>3
<1>6. name_to_ports' = Append(name_to_ports, new)
  <2>1. ~ \E k \in DOMAIN name_to_ports : name_to_ports[k].name = current_name
    BY <1>4, <1>5
  <2>2. SetPort(name_to_ports, current_name, current_port + 1) = Append(name_to_ports, new)
    BY <2>1 DEF SetPort
  <2> QED BY <2>2 DEF StartAgent
<1>7. current_name \in Name
  BY DEF Inv, Naming
<1>8. new \in Entry
  BY <1>1, <1>7 DEF Entry
<1>9. /\ name_to_ports' \in Seq(Entry)
      /\ Len(name_to_ports') = Len(name_to_ports) + 1
      /\ \A k \in 1 .. Len(name_to_ports) : name_to_ports'[k] = name_to_ports[k]
      /\ name_to_ports'[Len(name_to_ports) + 1] = new
  BY <1>3, <1>6, <1>8, AppendProperties
<1>10. \A k \in 1 .. Len(name_to_ports') : \/ k \in 1 .. Len(name_to_ports)
                                           \/ k = Len(name_to_ports) + 1
  BY <1>3, <1>9
<1>11. new.name = current_name /\ new.port = current_port + 1
  OBVIOUS
<1> HIDE DEF new
<1>12. running' = {name_to_ports'[k].port : k \in 1 .. Len(name_to_ports')}
  <2>1. running' = running \cup {current_port + 1}
    BY DEF StartAgent
  <2>2. running = {name_to_ports[k].port : k \in 1 .. Len(name_to_ports)}
    BY DEF Inv, Tables
  <2>3. ASSUME NEW p \in running'
        PROVE  p \in {name_to_ports'[k].port : k \in 1 .. Len(name_to_ports')}
    <3>1. CASE p = current_port + 1
      <4>1. Len(name_to_ports) + 1 \in 1 .. Len(name_to_ports')
        BY <1>3, <1>9
      <4> QED BY <1>9, <1>11, <3>1, <4>1
    <3>2. CASE p \in running
      <4>1. PICK k \in 1 .. Len(name_to_ports) : p = name_to_ports[k].port
        BY <2>2, <3>2
      <4>2. k \in 1 .. Len(name_to_ports') /\ p = name_to_ports'[k].port
        BY <1>3, <1>9, <4>1
      <4> QED BY <4>2
    <3> QED BY <2>1, <3>1, <3>2
  <2>4. ASSUME NEW k \in 1 .. Len(name_to_ports') PROVE name_to_ports'[k].port \in running'
    <3>1. CASE k \in 1 .. Len(name_to_ports)
      BY <1>9, <2>1, <2>2, <3>1
    <3>2. CASE k = Len(name_to_ports) + 1
      BY <1>9, <1>11, <2>1, <3>2
    <3> QED BY <1>10, <3>1, <3>2
  <2> QED BY <2>3, <2>4
<1>13. Naming'
  <2>1. PICK j \in 1 .. NameLength : Advanced(j)
    BY DEF Inv, Naming
  <2>2. PICK l \in 1 .. NameLength :
           /\ current_name[l] < Letters
           /\ NextName(current_name) = [current_name EXCEPT ![l] = @ + 1]
           /\ \A i \in 1 .. NameLength : i < l => current_name[i] = 1
           /\ \A i \in 1 .. NameLength : i > l => current_name[i] = Letters
           /\ current_port + 1 = (NameLength - l) * (Letters - 1) + current_name[l]
    BY <1>1, <1>7, <2>1, NextNameProps
  <2>3. current_name' = [current_name EXCEPT ![l] = @ + 1]
    BY <2>2 DEF StartAgent
  <2>4. \A i \in 1 .. NameLength : current_name[i] \in 1 .. Letters
    BY <1>7 DEF Name
  <2>5. current_name' \in Name
    BY <1>7, <2>2, <2>3, <2>4, NamesSuffice DEF Name
  <2>6. /\ current_name'[l] = current_name[l] + 1
        /\ \A i \in 1 .. NameLength : i # l => current_name'[i] = current_name[i]
    BY <1>7, <2>3 DEF Name
  <2>7. NameLength \in Nat /\ Letters \in Nat
    BY NamesSuffice
  <2>8. Advanced(l)'
    <3>1. \A i \in 1 .. NameLength : i < l => i # l
      BY <2>7
    <3>2. \A i \in 1 .. NameLength : i > l => i # l
      BY <2>7
    <3>3. current_port' = (NameLength - l) * (Letters - 1) + current_name'[l] - 1
      <4> DEFINE p == (NameLength - l) * (Letters - 1)
      <4>1. p \in Int
        BY <2>7
      <4>2. current_port + 1 = p + current_name[l]
        BY <2>2
      <4> HIDE DEF p
      <4>3. current_port' = p + current_name'[l] - 1
        BY <1>1, <1>2, <2>4, <2>6, <4>1, <4>2
      <4> QED BY <4>3 DEF p
    <3> QED BY <2>2, <2>6, <3>1, <3>2, <3>3 DEF Advanced
  <2>9. ASSUME NEW name \in Name, \A i \in 1 .. NameLength : name[i] <= current_name[i]
        PROVE  /\ \A i \in 1 .. NameLength : name[i] <= current_name'[i]
               /\ name # current_name'
    <3>1. \A i \in 1 .. NameLength : name[i] \in 1 .. Letters
      BY DEF Name
    <3>2. \A i \in 1 .. NameLength : name[i] <= current_name'[i]
      BY <2>4, <2>6, <2>7, <2>9, <3>1
    <3>3. name[l] # current_name'[l]
      BY <2>4, <2>6, <2>7, <2>9, <3>1
    <3> QED BY <3>2, <3>3
  <2>10. ASSUME NEW k \in 1 .. Len(name_to_ports')
         PROVE  /\ \A i \in 1 .. NameLength : name_to_ports'[k].name[i] <= current_name'[i]
                /\ name_to_ports'[k].name # current_name'
    <3>1. CASE k \in 1 .. Len(name_to_ports)
      <4>1. /\ name_to_ports[k].name \in Name
            /\ \A i \in 1 .. NameLength : name_to_ports[k].name[i] <= current_name[i]
        BY <1>5, <3>1 DEF Inv, Naming, Behind, Entry
      <4>2. name_to_ports'[k] = name_to_ports[k]
        BY <1>9, <3>1
      <4> QED BY <2>9, <4>1, <4>2
    <3>2. CASE k = Len(name_to_ports) + 1
      <4>1. name_to_ports'[k].name = current_name
        BY <1>9, <1>11, <3>2
      <4>2. \A i \in 1 .. NameLength : current_name[i] <= current_name[i]
        BY <2>4, <2>7
      <4> QED BY <1>7, <2>9, <4>1, <4>2
    <3> QED BY <1>10, <3>1, <3>2
  <2> QED BY <2>5, <2>8, <2>10 DEF Naming, Behind
<1>14. Matching'
  <2>1. name_to_popen' = [n \in DOMAIN name_to_popen \cup {current_name} |->
                            IF n = current_name THEN current_port + 1
                            ELSE name_to_popen[n]]
    BY DEF StartAgent
  <2>2. \A k, l \in 1 .. Len(name_to_ports) :
          \/ name_to_ports[k].name = name_to_ports[l].name
          \/ name_to_ports[k].port = name_to_ports[l].port
          => k = l
    BY DEF Inv, Tables, Matching
  <2>3. \A k, l \in 1 .. Len(name_to_ports') :
          \/ name_to_ports'[k].name = name_to_ports'[l].name
          \/ name_to_ports'[k].port = name_to_ports'[l].port
          => k = l
    BY <1>5, <1>9, <1>10, <1>11, <2>2
  <2>4. ASSUME NEW k \in 1 .. Len(name_to_ports')
        PROVE  /\ name_to_ports'[k].port \in 1 .. current_port'
               /\ name_to_popen'[name_to_ports'[k].name] = name_to_ports'[k].port
    <3>1. CASE k \in 1 .. Len(name_to_ports)
      <4>1. name_to_popen[name_to_ports[k].name] = name_to_ports[k].port
        BY <3>1 DEF Inv, Tables, Matching
      <4>2. name_to_ports[k].name \in DOMAIN name_to_popen
        BY <1>4, <3>1 DEF Inv, Tables, Matching, Listed
      <4>3. name_to_ports'[k] = name_to_ports[k]
        BY <1>9, <3>1
      <4>4. name_to_popen'[name_to_ports[k].name] = name_to_ports[k].port
        BY <1>5, <2>1, <3>1, <4>1, <4>2
      <4> QED BY <1>1, <1>2, <1>5, <3>1, <4>3, <4>4
    <3>2. CASE k = Len(name_to_ports) + 1
      BY <1>1, <1>2, <1>9, <1>11, <2>1, <3>2
    <3> QED BY <1>10, <3>1, <3>2
  <2>5. DOMAIN name_to_popen' = Listed'
    <3>1. DOMAIN name_to_popen' = {current_name} \cup Listed
      BY <2>1 DEF Inv, Tables, Matching
    <3>2. DOMAIN name_to_ports' = 1 .. Len(name_to_ports')
      BY <1>9
    <3>3. Listed' = {name_to_ports'[k].name : k \in 1 .. Len(name_to_ports')}
      BY <3>2 DEF Listed
    <3>4. Listed = {name_to_ports[k].name : k \in 1 .. Len(name_to_ports)}
      BY <1>4 DEF Listed
    <3>5. \A k \in 1 .. Len(name_to_ports) : k \in 1 .. Len(name_to_ports')
      BY <1>3, <1>9
    <3>6. Len(name_to_ports) + 1 \in 1 .. Len(name_to_ports')
      BY <1>3, <1>9
    <3>7. {name_to_ports'[k].name : k \in 1 .. Len(name_to_ports')}
            = {current_name} \cup {name_to_ports[k].name : k \in 1 .. Len(name_to_ports)}
      BY <1>9, <1>10, <1>11, <3>5, <3>6
    <3> QED BY <3>1, <3>3, <3>4, <3>7
  <2> QED BY <1>9, <2>3, <2>4, <2>5 DEF Matching
<1> QED BY <1>1, <1>2, <1>6, <1>12, <1>13, <1>14 DEF new

(* The agent just started is known by its name, and the others are as they *)
(* were.                                                                   *)
LEMMA StartNetwork ==
  ASSUME Inv, stage \in {"seeds", "join"}, left > 0, StartAgent, NEW c \in Int,
         agents' = Append(agents, [name |-> current_name, cluster |-> c])
  PROVE  /\ agents' \in Seq(Agent) /\ Len(agents') = current_port'
         /\ \A p \in 1 .. current_port : agents'[p] = agents[p]
         /\ agents'[current_port + 1].cluster = c
         /\ \A k \in 1 .. Len(name_to_ports') :
              agents'[name_to_ports'[k].port].name = name_to_ports'[k].name
<1> DEFINE agent == [name |-> current_name, cluster |-> c]
<1>1. /\ agents \in Seq(Agent) /\ Len(agents) = current_port
      /\ \A k \in 1 .. Len(name_to_ports) :
           agents[name_to_ports[k].port].name = name_to_ports[k].name
  BY DEF Inv, Network
<1>2. agent \in Agent /\ agent.name = current_name /\ agent.cluster = c
  BY DEF Inv, Naming, Agent
<1>3. agents' = Append(agents, agent)
  OBVIOUS
<1> HIDE DEF agent
<1>4. /\ agents' \in Seq(Agent) /\ Len(agents') = current_port + 1
      /\ \A p \in 1 .. current_port : agents'[p] = agents[p]
      /\ agents'[current_port + 1] = agent
  BY <1>1, <1>2, <1>3, AppendProperties
<1>5. /\ current_port' = current_port + 1
      /\ name_to_ports' = Append(name_to_ports, [name |-> current_name,
                                                 port |-> current_port + 1])
  BY Start
<1>6. name_to_ports \in Seq(Entry)
  BY DEF Inv, Tables, Matching
<1> DEFINE new == [name |-> current_name, port |-> current_port + 1]
<1>7. new \in Entry /\ new.name = current_name /\ new.port = current_port + 1
  BY DEF Inv, Naming, Budget, Entry
<1>8. name_to_ports' = Append(name_to_ports, new)
  BY <1>5
<1> HIDE DEF new
<1>9. /\ Len(name_to_ports) \in Nat
      /\ Len(name_to_ports') = Len(name_to_ports) + 1
      /\ \A k \in 1 .. Len(name_to_ports) : name_to_ports'[k] = name_to_ports[k]
      /\ name_to_ports'[Len(name_to_ports) + 1] = new
  BY <1>6, <1>7, <1>8, AppendProperties, LenProperties
<1>10. ASSUME NEW k \in 1 .. Len(name_to_ports')
       PROVE  agents'[name_to_ports'[k].port].name = name_to_ports'[k].name
  <2>1. CASE k \in 1 .. Len(name_to_ports)
    <3>1. name_to_ports[k].port \in 1 .. current_port
      BY <2>1 DEF Inv, Tables, Matching
    <3> QED BY <1>1, <1>4, <1>9, <2>1, <3>1
  <2>2. CASE k = Len(name_to_ports) + 1
    BY <1>2, <1>4, <1>7, <1>9, <2>2
  <2>3. k \in 1 .. Len(name_to_ports) \/ k = Len(name_to_ports) + 1
    BY <1>9
  <2> QED BY <2>1, <2>2, <2>3
<1> QED BY <1>2, <1>4, <1>5, <1>10

-----------------------------------------------------------------------------
(* The first name, which nobody was given yet.                             *)
LEMMA FirstNameProps ==
  /\ FirstName \in Name /\ NameLength \in 1 .. NameLength
  /\ \A i \in 1 .. NameLength : FirstName[i] = 1 /\ ~ (i > NameLength)
  /\ 0 = (NameLength - NameLength) * (Letters - 1) + FirstName[NameLength] - 1
<1>1. NameLength \in Nat \ {0} /\ Letters \in Nat \ {0}
  BY NamesSuffice
<1>2. FirstName \in Name /\ \A i \in 1 .. NameLength : FirstName[i] = 1
  BY <1>1 DEF FirstName, Name
<1>3. \A a \in Int : 0 * a = 0
  OBVIOUS
<1>4. NameLength - NameLength = 0 /\ Letters - 1 \in Int
  BY <1>1
<1> QED BY <1>1, <1>2, <1>3, <1>4

(* Inv holds before the first experiment. *)
LEMMA InitInv == Init => Inv
<1> SUFFICES ASSUME Init PROVE Inv
  OBVIOUS
<1>1. /\ config = 1 /\ stage = "seeds" /\ round = 0 /\ left = Load.seeds
      /\ current_name = FirstName /\ current_port = 0
      /\ name_to_ports = << >> /\ name_to_popen = << >> /\ raports = << >>
      /\ running = {} /\ agents = << >>
  BY DEF Init
<1>2. Budget
  BY <1>1, LoadType DEF Budget
<1>3. Naming
  <2>1. Advanced(NameLength)
    BY <1>1, FirstNameProps DEF Advanced
  <2> QED BY <1>1, <2>1, FirstNameProps, EmptySeq DEF Naming
<1>4. Matching
  BY <1>1, EmptySeq DEF Matching, Listed
<1>5. Tables
  BY <1>1, <1>4, EmptySeq DEF Tables
<1>6. Network
  BY <1>1, EmptySeq DEF Network
<1> QED BY <1>2, <1>3, <1>5, <1>6 DEF Inv

(* Counter and tables start anew. *)
LEMMA NextExperimentInv == ASSUME Inv, NextExperiment PROVE Inv'
<1>1. /\ config' = config + 1 /\ config \in 1 .. 5 /\ config < 5 /\ stage = "destroyed"
      /\ stage' = "seeds" /\ round' = 0 /\ left' = SerfConfigs[config + 1].seeds
      /\ current_name' = FirstName /\ current_port' = 0
      /\ name_to_ports' = << >> /\ name_to_popen' = << >> /\ raports' = << >>
      /\ running' = running /\ agents' = << >>
  <2>1. Len(SerfConfigs) = 5
    BY DEF SerfConfigs
  <2> QED BY <2>1 DEF NextExperiment, Inv, Budget
<1>2. running' = {}
  BY <1>1 DEF Inv, Tables
<1>3. Budget'
  <2>1. config' \in 1 .. 5 /\ left' = Load'.seeds
    BY <1>1 DEF Load
  <2>2. /\ (Load.seeds \in Nat)' /\ (RoundsOf \in Nat)' /\ Capacity \in Nat
    <3>1. \A c \in 1 .. 5 : /\ SerfConfigs[c].seeds \in Nat
                            /\ SerfConfigs[c].rounds = 10
      BY DEF SerfConfigs, Config
    <3>2. (RoundsOf \in Nat)'
      BY <2>1, <3>1, NamesSuffice DEF RoundsOf, RoundsFor, Load
    <3>3. Capacity \in Nat
      BY <1>1, LoadType
    <3> QED BY <2>1, <3>1, <3>2, <3>3 DEF Load
  <2> QED BY <1>1, <2>1, <2>2 DEF Budget
<1>4. Naming'
  <2>1. Advanced(NameLength)'
    BY <1>1, FirstNameProps DEF Advanced
  <2> QED BY <1>1, <2>1, FirstNameProps, EmptySeq DEF Naming
<1>5. Matching'
  BY <1>1, EmptySeq DEF Matching, Listed
<1>6. Tables'
  BY <1>1, <1>2, <1>5, EmptySeq DEF Tables
<1>7. Network'
  BY <1>1, EmptySeq DEF Network
<1> QED BY <1>3, <1>4, <1>6, <1>7 DEF Inv

(* Each seed takes the next name and is a network by itself. *)
LEMMA StartSeedInv == ASSUME Inv, StartSeed PROVE Inv'
<1>1. /\ stage = "seeds" /\ left > 0 /\ StartAgent /\ left' = left - 1
      /\ config' = config /\ stage' = stage /\ round' = round /\ raports' = raports
  BY DEF StartSeed
<1>2. /\ current_port' = current_port + 1 /\ current_port' <= Capacity
      /\ name_to_ports' = Append(name_to_ports, [name |-> current_name,
                                                 port |-> current_port + 1])
      /\ running' = {name_to_ports'[k].port : k \in 1 .. Len(name_to_ports')}
      /\ Naming' /\ Matching'
  BY <1>1, Start
<1>3. /\ config \in 1 .. 5 /\ left \in Nat /\ round = 0 /\ current_port \in Nat
      /\ current_port + left = Load.seeds
      /\ Load.seeds \in Nat /\ RoundsOf \in Nat
  BY <1>1, LoadType DEF Inv, Budget
<1>4. Load' = Load /\ RoundsOf' = RoundsOf
  BY <1>1 DEF Load, RoundsOf
<1>5. Budget'
  BY <1>1, <1>2, <1>3, <1>4 DEF Budget
<1>6. Tables'
  <2>1. name_to_ports \in Seq(Entry) /\ Len(name_to_ports) = current_port
    BY <1>1 DEF Inv, Tables, Matching
  <2>2. Len(name_to_ports') = Len(name_to_ports) + 1
    BY <1>2, <2>1
  <2> QED BY <1>1, <1>2, <2>1, <2>2 DEF Tables
<1>7. Network'
  <2>1. agents' = Append(agents, [name |-> current_name, cluster |-> current_port + 1])
    BY <1>2 DEF StartSeed, Belongs
  <2>2. /\ agents' \in Seq(Agent) /\ Len(agents') = current_port'
        /\ \A k \in 1 .. Len(name_to_ports') :
              agents'[name_to_ports'[k].port].name = name_to_ports'[k].name
    <3>1. current_port + 1 \in Int
      BY <1>3
    <3> DEFINE c == current_port + 1
    <3>2. c \in Int /\ agents' = Append(agents, [name |-> current_name, cluster |-> c])
      BY <2>1, <3>1
    <3> HIDE DEF c
    <3> QED BY <1>1, <3>2, StartNetwork
  <2> QED BY <1>1, <2>2 DEF Inv, Network
<1> QED BY <1>2, <1>5, <1>6, <1>7 DEF Inv

(* A joiner takes the next name and meets an agent that runs. *)
LEMMA JoinNodeInv == ASSUME Inv, JoinNode PROVE Inv'
<1>1. /\ stage = "join" /\ left > 0 /\ StartAgent /\ left' = left - 1
      /\ config' = config /\ stage' = stage /\ round' = round /\ raports' = raports
  BY DEF JoinNode
<1>2. /\ current_port' = current_port + 1 /\ current_port' <= Capacity
      /\ name_to_ports' = Append(name_to_ports, [name |-> current_name,
                                                 port |-> current_port + 1])
      /\ running' = {name_to_ports'[k].port : k \in 1 .. Len(name_to_ports')}
      /\ Naming' /\ Matching'
  BY <1>1, Start
<1>3. /\ config \in 1 .. 5 /\ left \in Nat /\ round \in 0 .. RoundsOf /\ current_port \in Nat
      /\ round < RoundsOf /\ current_port + left = Load.seeds + (round + 1) * Load.joins
      /\ Load.seeds \in Nat /\ Load.joins \in Nat /\ RoundsOf \in Nat
  BY <1>1, LoadType DEF Inv, Budget
<1>4. Load' = Load /\ RoundsOf' = RoundsOf
  BY <1>1 DEF Load, RoundsOf
<1>5. Budget'
  <2>1. current_port' + left' = current_port + left
    BY <1>1, <1>2, <1>3
  <2> QED BY <1>1, <1>2, <1>3, <1>4, <2>1 DEF Budget
<1>6. Tables'
  BY <1>1, <1>2 DEF Tables
<1>7. name_to_ports \in Seq(Entry) /\ agents \in Seq(Agent) /\ Len(agents) = current_port
      /\ running = {name_to_ports[k].port : k \in 1 .. Len(name_to_ports)}
      /\ \A k \in 1 .. Len(name_to_ports) : name_to_ports[k].port \in 1 .. current_port
  BY <1>1 DEF Inv, Tables, Matching, Network
<1>8. DOMAIN agents = 1 .. current_port /\ \A p \in 1 .. current_port : agents[p].cluster \in Int
  <2>1. \A p \in 1 .. current_port : agents[p] \in Agent
    BY <1>7, ElementOfSeq
  <2> QED BY <1>7, <2>1 DEF Agent
<1>9. Len(name_to_ports) \in Nat
  BY <1>7, LenProperties
<1> DEFINE gateway == Gateway(name_to_ports')
           c == IF gateway \in running \cap DOMAIN agents THEN agents[gateway].cluster
                ELSE current_port + 1
<1>10. agents' = Append(agents, [name |-> current_name, cluster |-> c])
  BY <1>2 DEF JoinNode, Belongs
<1>11. c \in Int
  BY <1>3, <1>8
<1>12. /\ agents' \in Seq(Agent) /\ Len(agents') = current_port'
       /\ \A p \in 1 .. current_port : agents'[p] = agents[p]
       /\ agents'[current_port + 1].cluster = c
       /\ \A k \in 1 .. Len(name_to_ports') :
              agents'[name_to_ports'[k].port].name = name_to_ports'[k].name
  <2> HIDE DEF c
  <2> QED BY <1>1, <1>10, <1>11, StartNetwork
<1>13. running' = running \cup {current_port + 1} /\ running \subseteq 1 .. current_port
  BY <1>7, <1>1 DEF StartAgent
<1>14. \A p, q \in running : agents[p].cluster = agents[q].cluster
  BY <1>1 DEF Inv, Network
<1>15. \A p \in running : agents[p].cluster = c
  <2>1. CASE Len(name_to_ports) = 0
    <3>1. 1 .. Len(name_to_ports) = {}
      BY <2>1
    <3>2. running = {}
      BY <1>7, <3>1
    <3> QED BY <3>2
  <2>2. CASE Len(name_to_ports) # 0
    <3>1. /\ name_to_ports'[1] = name_to_ports[1] /\ 1 \in 1 .. Len(name_to_ports)
          /\ name_to_ports' # << >>
      <4> DEFINE new == [name |-> current_name, port |-> current_port + 1]
      <4>1. new \in Entry
        BY <1>3 DEF Inv, Naming, Entry
      <4>2. name_to_ports' = Append(name_to_ports, new)
        BY <1>2
      <4> HIDE DEF new
      <4> QED BY <1>7, <1>9, <2>2, <4>1, <4>2, AppendProperties
    <3>2. gateway = name_to_ports[1].port
      BY <3>1 DEF Gateway
    <3>3. gateway \in running /\ gateway \in DOMAIN agents
      BY <1>7, <1>8, <3>1, <3>2
    <3>4. c = agents[gateway].cluster
      BY <3>3
    <3> HIDE DEF c, gateway
    <3> QED BY <1>14, <3>3, <3>4
  <2> QED BY <2>1, <2>2
<1> HIDE DEF c
<1>16. \A p \in running' : agents'[p].cluster = c
  BY <1>12, <1>13, <1>15
<1>17. Network'
  BY <1>1, <1>12, <1>16 DEF Inv, Network
<1> QED BY <1>2, <1>5, <1>6, <1>17 DEF Inv

(* The seeds join the first of them, so that all are in one cluster.       *)
LEMMA JoinSeedsInv == ASSUME Inv, JoinSeeds PROVE Inv'
<1>1. /\ stage = "seeds" /\ left = 0 /\ stage' = "kill"
      /\ config' = config /\ left' = left /\ round' = round
      /\ current_name' = current_name /\ current_port' = current_port
      /\ name_to_ports' = name_to_ports /\ name_to_popen' = name_to_popen
      /\ raports' = raports /\ running' = running
  BY DEF JoinSeeds
<1>2. /\ config \in 1 .. 5 /\ round = 0 /\ current_port = Load.seeds
      /\ Load.seeds \in Nat \ {0} /\ Load.joins \in {0, 1, 2, 4} /\ RoundsOf \in Nat
      /\ current_port <= Capacity
  BY <1>1, LoadType DEF Inv, Budget
<1>3. Load' = Load /\ RoundsOf' = RoundsOf
  BY <1>1 DEF Load, RoundsOf
<1>4. Budget'
  <2>1. \A j \in {0, 1, 2, 4} : 0 * j = 0
    OBVIOUS
  <2> QED BY <1>1, <1>2, <1>3, <2>1 DEF Budget
<1>5. Naming'
  BY <1>1 DEF Inv, Naming, Advanced, Behind
<1>6. Matching' /\ Tables'
  BY <1>1 DEF Inv, Tables, Matching, Listed
<1>7. /\ name_to_ports \in Seq(Entry) /\ Len(name_to_ports) = current_port
      /\ agents \in Seq(Agent) /\ Len(agents) = current_port
      /\ running = {name_to_ports[k].port : k \in 1 .. Len(name_to_ports)}
      /\ \A k \in 1 .. Len(name_to_ports) :
           /\ name_to_ports[k].port \in 1 .. current_port
           /\ agents[name_to_ports[k].port].name = name_to_ports[k].name
  BY <1>1 DEF Inv, Tables, Matching, Network
<1>8. DOMAIN agents = 1 .. current_port /\ DOMAIN name_to_ports = 1 .. current_port
      /\ \A p \in 1 .. current_port : agents[p] \in Agent
  BY <1>2, <1>7, ElementOfSeq
<1> DEFINE gateway == Gateway(name_to_ports)
           known(p) == \E k \in DOMAIN name_to_ports : name_to_ports[k].port = p
<1>9. gateway \in 1 .. current_port
  <2>1. 1 \in 1 .. Len(name_to_ports) /\ gateway = name_to_ports[1].port
    BY <1>2, <1>7 DEF Gateway
  <2> QED BY <1>7, <2>1
<1>10. agents' = [p \in 1 .. current_port |->
         IF known(p) THEN [agents[p] EXCEPT !.cluster = agents[gateway].cluster]
         ELSE agents[p]]
  BY <1>8 DEF JoinSeeds
<1> DEFINE c == agents[gateway].cluster
<1>11. c \in Int
  BY <1>8, <1>9 DEF Agent
<1> HIDE DEF gateway
<1>12. \A p \in 1 .. current_port :
         /\ agents'[p] \in Agent /\ agents'[p].name = agents[p].name
         /\ known(p) => agents'[p].cluster = c
  <2> HIDE DEF known
  <2> SUFFICES ASSUME NEW p \in 1 .. current_port
               PROVE  /\ agents'[p] \in Agent /\ agents'[p].name = agents[p].name
                      /\ known(p) => agents'[p].cluster = c
    OBVIOUS
  <2>1. agents[p] \in Agent
    BY <1>8
  <2>2. agents'[p] = IF known(p) THEN [agents[p] EXCEPT !.cluster = c] ELSE agents[p]
    BY <1>10
  <2> HIDE DEF c
  <2> QED BY <1>11, <2>1, <2>2 DEF Agent
<1>13. agents' \in Seq(Agent) /\ Len(agents') = current_port'
  <2>1. agents' \in [1 .. current_port -> Agent]
    BY <1>10, <1>12
  <2> QED BY <1>1, <1>2, <2>1
<1>14. \A p \in running : p \in 1 .. current_port /\ known(p)
  BY <1>7, <1>8
<1>15. \A p, q \in running' : agents'[p].cluster = agents'[q].cluster
  BY <1>1, <1>12, <1>14
<1>16. Network'
  BY <1>1, <1>7, <1>12, <1>13, <1>15 DEF Inv, Network
<1> QED BY <1>4, <1>5, <1>6, <1>16 DEF Inv

(* The nodes that are killed, and no others, disappear from the tables and *)
(* from the processes that run.                                            *)
LEMMA KillNodesInv == ASSUME Inv, KillNodes PROVE Inv'
<1>1. PICK to_kill \in kSubset(Load.kills, Listed) : KillNode(to_kill)
  BY DEF KillNodes
<1>2. to_kill \subseteq Listed
  BY DEF kSubset
<1>3. /\ stage = "kill" /\ round < RoundsOf /\ stage' = "join" /\ left' = Load.joins
      /\ config' = config /\ round' = round
      /\ current_name' = current_name /\ current_port' = current_port
      /\ raports' = raports /\ agents' = agents
  BY DEF KillNodes
<1>4. /\ config \in 1 .. 5 /\ round \in 0 .. RoundsOf
      /\ current_port = Load.seeds + round * Load.joins /\ current_port \in Nat
      /\ Load.seeds \in Nat \ {0} /\ Load.joins \in {0, 1, 2, 4} /\ RoundsOf \in Nat
      /\ current_port <= Capacity
  BY <1>3, LoadType DEF Inv, Budget
<1>5. Load' = Load /\ RoundsOf' = RoundsOf
  BY <1>3 DEF Load, RoundsOf
<1>6. Budget'
  <2>1. \A s, r, p \in Nat, j \in {0, 1, 2, 4} : p = s + r * j => p + j = s + (r + 1) * j
    OBVIOUS
  <2>2. current_port' + left' = Load.seeds + (round + 1) * Load.joins
    BY <1>3, <1>4, <2>1
  <2> QED BY <1>3, <1>4, <1>5, <2>2 DEF Budget
<1>7. /\ name_to_ports \in Seq(Entry)
      /\ \A k, l \in 1 .. Len(name_to_ports) :
           \/ name_to_ports[k].name = name_to_ports[l].name
           \/ name_to_ports[k].port = name_to_ports[l].port
           => k = l
      /\ \A k \in 1 .. Len(name_to_ports) :
           /\ name_to_ports[k].port \in 1 .. current_port
           /\ name_to_popen[name_to_ports[k].name] = name_to_ports[k].port
      /\ DOMAIN name_to_popen = Listed
      /\ running = {name_to_ports[k].port : k \in 1 .. Len(name_to_ports)}
  BY <1>3 DEF Inv, Tables, Matching
<1>8. Len(name_to_ports) \in Nat /\ DOMAIN name_to_ports = 1 .. Len(name_to_ports)
  BY <1>7, LenProperties
<1>9. Listed = {name_to_ports[k].name : k \in 1 .. Len(name_to_ports)}
  BY <1>8 DEF Listed
<1> DEFINE I == {k \in 1 .. Len(name_to_ports) : name_to_ports[k].name \notin to_kill}
<1>10. /\ name_to_ports' = Entries(name_to_ports, I)
       /\ running' = running \ {name_to_popen[name] : name \in to_kill}
       /\ name_to_popen' = [name \in DOMAIN name_to_popen \ to_kill |-> name_to_popen[name]]
  BY <1>1, <1>8 DEF KillNode
<1>11. I \in SUBSET (1 .. Len(name_to_ports))
  OBVIOUS
<1>12. \A k \in 1 .. Len(name_to_ports) : k \in I <=> name_to_ports[k].name \notin to_kill
  OBVIOUS
<1> HIDE DEF I
<1>13. name_to_ports' \in Seq(Entry) /\ Len(name_to_ports') = Cardinality(I)
  BY <1>7, <1>10, <1>11, EntriesProps
<1> DEFINE n == Cardinality(I)
<1>14. PICK at \in [1 .. n -> I] :
            /\ \A j, k \in 1 .. n : at[j] = at[k] => j = k
            /\ \A i \in I : \E j \in 1 .. n : at[j] = i
            /\ \A j \in 1 .. n : Entries(name_to_ports, I)[j] = name_to_ports[at[j]]
  BY <1>7, <1>11, EntriesAt
<1>15. n \in Nat
  <2>1. IsFiniteSet(1 .. Len(name_to_ports))
    BY <1>8, FS_Interval
  <2>2. IsFiniteSet(I)
    BY <1>11, <2>1, FS_Subset
  <2> QED BY <2>2, FS_CardinalityType
<1>16. /\ Len(name_to_ports') = n /\ DOMAIN name_to_ports' = 1 .. n
       /\ \A j \in 1 .. n : /\ at[j] \in 1 .. Len(name_to_ports)
                            /\ name_to_ports'[j] = name_to_ports[at[j]]
                            /\ name_to_ports'[j].name \notin to_kill
  <2>1. Len(name_to_ports') = n /\ DOMAIN name_to_ports' = 1 .. n
    BY <1>13
  <2> HIDE DEF n
  <2>3. \A j \in 1 .. n : at[j] \in I
    BY <1>14
  <2>4. \A j \in 1 .. n : name_to_ports'[j] = name_to_ports[at[j]]
    BY <1>10, <1>14
  <2> QED BY <1>11, <1>12, <2>1, <2>3, <2>4
<1> HIDE DEF n
<1>17. \A k, l \in 1 .. n :
         \/ name_to_ports'[k].name = name_to_ports'[l].name
         \/ name_to_ports'[k].port = name_to_ports'[l].port
         => k = l
  BY <1>7, <1>14, <1>16
<1>18. Listed' = {name_to_ports'[j].name : j \in 1 .. n}
  BY <1>16 DEF Listed
<1>19. Listed' = Listed \ to_kill
  <2>1. ASSUME NEW name \in Listed, name \notin to_kill PROVE name \in Listed'
    <3>1. PICK k \in 1 .. Len(name_to_ports) : name = name_to_ports[k].name
      BY <1>9
    <3>2. PICK j \in 1 .. n : at[j] = k
      BY <1>12, <1>14, <2>1, <3>1
    <3> QED BY <1>16, <1>18, <3>1, <3>2
  <2>2. ASSUME NEW name \in Listed' PROVE name \in Listed \ to_kill
    <3>1. PICK j \in 1 .. n : name = name_to_ports'[j].name
      BY <1>18
    <3> QED BY <1>9, <1>16, <3>1
  <2> QED BY <2>1, <2>2
<1>20. Matching'
  <2>1. \A j \in 1 .. n : /\ name_to_ports'[j].port \in 1 .. current_port
                          /\ name_to_popen'[name_to_ports'[j].name] = name_to_ports'[j].port
    <3> SUFFICES ASSUME NEW j \in 1 .. n
                 PROVE  /\ name_to_ports'[j].port \in 1 .. current_port
                        /\ name_to_popen'[name_to_ports'[j].name] = name_to_ports'[j].port
      OBVIOUS
    <3>1. at[j] \in 1 .. Len(name_to_ports) /\ name_to_ports'[j] = name_to_ports[at[j]]
          /\ name_to_ports'[j].name \notin to_kill
      BY <1>16
    <3>2. name_to_ports'[j].name \in DOMAIN name_to_popen \ to_kill
      BY <1>7, <1>9, <3>1
    <3>3. name_to_popen'[name_to_ports'[j].name] = name_to_popen[name_to_ports[at[j]].name]
      BY <1>10, <3>1, <3>2
    <3> QED BY <1>7, <3>1, <3>3
  <2> QED BY <1>3, <1>7, <1>10, <1>13, <1>16, <1>17, <1>19, <2>1 DEF Matching
<1>21. running' = {name_to_ports'[j].port : j \in 1 .. n}
  <2>1. ASSUME NEW p \in running' PROVE p \in {name_to_ports'[j].port : j \in 1 .. n}
    <3>1. PICK k \in 1 .. Len(name_to_ports) : p = name_to_ports[k].port
      BY <1>7, <1>10
    <3>2. name_to_ports[k].name \notin to_kill
      BY <1>7, <1>10, <3>1
    <3>3. PICK j \in 1 .. n : at[j] = k
      BY <1>12, <1>14, <3>2
    <3> QED BY <1>16, <3>1, <3>3
  <2>2. ASSUME NEW j \in 1 .. n PROVE name_to_ports'[j].port \in running'
    <3>1. name_to_ports'[j].port \in running
      BY <1>7, <1>16
    <3>2. ASSUME NEW name \in to_kill PROVE name_to_ports'[j].port # name_to_popen[name]
      <4>1. PICK l \in 1 .. Len(name_to_ports) : name = name_to_ports[l].name
        BY <1>2, <1>9
      <4>2. name_to_popen[name] = name_to_ports[l].port
        BY <1>7, <4>1
      <4>3. l # at[j]
        BY <1>16, <4>1
      <4> QED BY <1>7, <1>16, <4>2, <4>3
    <3> QED BY <1>10, <3>1, <3>2
  <2> QED BY <2>1, <2>2
<1>22. Tables'
  BY <1>3, <1>16, <1>20, <1>21 DEF Tables
<1>23. Naming'
  <2>1. \A j \in 1 .. n : Behind(name_to_ports[at[j]].name)
    BY <1>16 DEF Inv, Naming
  <2>2. \A j \in 1 .. n : /\ \A i \in 1 .. NameLength : name_to_ports'[j].name[i] <= current_name[i]
                          /\ name_to_ports'[j].name # current_name
    BY <1>16, <2>1 DEF Behind
  <2>3. current_name \in Name /\ \E j \in 1 .. NameLength : Advanced(j)
    BY DEF Inv, Naming
  <2> QED BY <1>3, <1>16, <2>2, <2>3 DEF Naming, Advanced, Behind
<1>24. Network'
  <2>1. \A p, q \in running' : agents'[p].cluster = agents'[q].cluster
    BY <1>3, <1>10 DEF Inv, Network
  <2>2. \A j \in 1 .. n : agents[name_to_ports'[j].port].name = name_to_ports'[j].name
    <3>1. \A k \in 1 .. Len(name_to_ports) :
            agents[name_to_ports[k].port].name = name_to_ports[k].name
      BY DEF Inv, Network
    <3> QED BY <1>16, <3>1
  <2> QED BY <1>3, <1>16, <2>1, <2>2 DEF Inv, Network
<1> QED BY <1>6, <1>22, <1>23, <1>24 DEF Inv

(* The first node of the table sees all that run, and nobody else.         *)
LEMMA RegisterRoundInv == ASSUME Inv, RegisterRound PROVE Inv'
<1>1. /\ stage = "join" /\ left = 0 /\ stage' = "kill" /\ round' = round + 1
      /\ name_to_ports # << >>
      /\ config' = config /\ left' = left
      /\ current_name' = current_name /\ current_port' = current_port
      /\ name_to_ports' = name_to_ports /\ name_to_popen' = name_to_popen
      /\ running' = running /\ agents' = agents
  BY DEF RegisterRound
<1>2. /\ config \in 1 .. 5 /\ round \in 0 .. RoundsOf /\ round < RoundsOf
      /\ current_port = Load.seeds + (round + 1) * Load.joins /\ current_port \in Nat
      /\ RoundsOf \in Nat /\ current_port <= Capacity
  <2>1. /\ config \in 1 .. 5 /\ round \in 0 .. RoundsOf /\ round < RoundsOf
        /\ current_port + left = Load.seeds + (round + 1) * Load.joins
        /\ current_port \in Nat /\ current_port <= Capacity
    BY <1>1 DEF Inv, Budget
  <2>2. current_port + left = current_port
    BY <1>1, <2>1
  <2> QED BY <2>1, <2>2, LoadType
<1>3. Load' = Load /\ RoundsOf' = RoundsOf
  BY <1>1 DEF Load, RoundsOf
<1>4. Budget'
  BY <1>1, <1>2, <1>3 DEF Inv, Budget
<1>5. Naming'
  BY <1>1 DEF Inv, Naming, Advanced, Behind
<1>6. Matching' /\ Tables'
  BY <1>1 DEF Inv, Tables, Matching, Listed
<1>7. /\ name_to_ports \in Seq(Entry)
      /\ agents \in Seq(Agent) /\ Len(agents) = current_port
      /\ running = {name_to_ports[k].port : k \in 1 .. Len(name_to_ports)}
      /\ \A k \in 1 .. Len(name_to_ports) :
           /\ name_to_ports[k].port \in 1 .. current_port
           /\ agents[name_to_ports[k].port].name = name_to_ports[k].name
      /\ \A p, q \in running : agents[p].cluster = agents[q].cluster
  BY <1>1 DEF Inv, Tables, Matching, Network
<1>8. /\ DOMAIN agents = 1 .. current_port
      /\ DOMAIN name_to_ports = 1 .. Len(name_to_ports) /\ Len(name_to_ports) \in Nat
  BY <1>2, <1>7, LenProperties
<1> DEFINE gateway == Gateway(name_to_ports)
<1>9. gateway \in running
  <2>1. 1 \in 1 .. Len(name_to_ports)
    BY <1>1, <1>7, <1>8, EmptySeq
  <2>2. gateway = name_to_ports[1].port
    BY DEF Gateway
  <2> QED BY <1>7, <2>1, <2>2
<1> HIDE DEF gateway
<1>10. Members(gateway) = Listed
  <2>1. {q \in running \cap DOMAIN agents :
            agents[q].cluster = agents[gateway].cluster} = running
    BY <1>7, <1>8, <1>9
  <2>2. Members(gateway) = {agents[p].name : p \in running}
    BY <2>1 DEF Members
  <2>3. Listed = {name_to_ports[k].name : k \in 1 .. Len(name_to_ports)}
    BY <1>8 DEF Listed
  <2>4. \A k \in 1 .. Len(name_to_ports) : /\ name_to_ports[k].port \in running
                                           /\ agents[name_to_ports[k].port].name
                                                = name_to_ports[k].name
    BY <1>7
  <2>5. \A p \in running : \E k \in 1 .. Len(name_to_ports) : p = name_to_ports[k].port
    BY <1>7
  <2>6. ASSUME NEW x \in Listed PROVE x \in Members(gateway)
    BY <2>2, <2>3, <2>4
  <2>7. ASSUME NEW x \in Members(gateway) PROVE x \in Listed
    BY <2>2, <2>3, <2>4, <2>5
  <2> QED BY <2>6, <2>7
<1> DEFINE ok == [extra |-> 0, missing |-> 0]
<1>11. raports' = Append(raports, ok)
  <2>1. raports' = Append(raports, [extra |-> Cardinality(Members(gateway) \ Listed),
                                    missing |-> Cardinality(Listed \ Members(gateway))])
    BY DEF RegisterRound, gateway
  <2>2. Members(gateway) \ Listed = {} /\ Listed \ Members(gateway) = {}
    BY <1>10
  <2> QED BY <2>1, <2>2, FS_EmptySet
<1>12. ok \in [extra : Nat, missing : Nat]
  OBVIOUS
<1> HIDE DEF ok
<1>13. /\ raports' \in Seq([extra : Nat, missing : Nat])
       /\ \A k \in DOMAIN raports' : raports'[k] = ok
  <2>1. raports \in Seq([extra : Nat, missing : Nat])
    BY DEF Inv, Network
  <2>2. /\ raports' \in Seq([extra : Nat, missing : Nat])
        /\ Len(raports) \in Nat /\ Len(raports') = Len(raports) + 1
        /\ \A k \in 1 .. Len(raports) : raports'[k] = raports[k]
        /\ raports'[Len(raports) + 1] = ok
    BY <1>11, <1>12, <2>1, AppendProperties, LenProperties
  <2>3. DOMAIN raports = 1 .. Len(raports) /\ DOMAIN raports' = 1 .. Len(raports) + 1
    BY <2>1, <2>2
  <2>4. \A k \in DOMAIN raports : raports[k] = ok
    BY DEF Inv, Network, ok
  <2>5. \A k \in DOMAIN raports' : k \in DOMAIN raports \/ k = Len(raports) + 1
    BY <2>2, <2>3
  <2> QED BY <2>2, <2>3, <2>4, <2>5
<1>14. Network'
  BY <1>1, <1>7, <1>13 DEF Inv, Network, ok
<1> QED BY <1>4, <1>5, <1>6, <1>14 DEF Inv

(* destroy ends every process, for each is in the table.                   *)
LEMMA DestroyInv == ASSUME Inv, Destroy PROVE Inv'
<1>1. /\ stage = "kill" /\ stage' = "destroyed"
      /\ running' = running \ {name_to_popen[name] : name \in DOMAIN name_to_popen}
      /\ config' = config /\ left' = left /\ round' = round
      /\ current_name' = current_name /\ current_port' = current_port
      /\ name_to_ports' = name_to_ports /\ name_to_popen' = name_to_popen
      /\ raports' = raports /\ agents' = agents
  BY DEF Destroy
<1>2. Load' = Load /\ RoundsOf' = RoundsOf
  BY <1>1 DEF Load, RoundsOf
<1>3. Budget'
  BY <1>1, <1>2 DEF Inv, Budget
<1>4. Naming'
  BY <1>1 DEF Inv, Naming, Advanced, Behind
<1>5. Matching'
  BY <1>1 DEF Inv, Tables, Matching, Listed
<1>6. running' = {}
  <2>1. running = {name_to_ports[k].port : k \in 1 .. Len(name_to_ports)}
    BY <1>1 DEF Inv, Tables
  <2>2. DOMAIN name_to_ports = 1 .. Len(name_to_ports)
    BY DEF Inv, Tables, Matching
  <2>3. \A k \in 1 .. Len(name_to_ports) :
          /\ name_to_ports[k].name \in DOMAIN name_to_popen
          /\ name_to_popen[name_to_ports[k].name] = name_to_ports[k].port
    BY <2>2 DEF Inv, Tables, Matching, Listed
  <2> QED BY <1>1, <2>1, <2>3
<1>7. Tables'
  BY <1>1, <1>5, <1>6 DEF Tables
<1>8. Network'
  BY <1>1 DEF Inv, Network
<1> QED BY <1>3, <1>4, <1>7, <1>8 DEF Inv

(* Inv is a predicate of the variables. *)
LEMMA InvStutter == ASSUME Inv, UNCHANGED vars PROVE Inv'
<1>1. /\ stage' = stage /\ running' = running
      /\ config' = config /\ left' = left /\ round' = round
      /\ current_name' = current_name /\ current_port' = current_port
      /\ name_to_ports' = name_to_ports /\ name_to_popen' = name_to_popen
      /\ raports' = raports /\ agents' = agents
  BY DEF vars
<1>2. Budget'
  BY <1>1 DEF Inv, Budget, Load, RoundsOf
<1>3. Naming'
  BY <1>1 DEF Inv, Naming, Advanced, Behind
<1>4. Matching' /\ Tables'
  BY <1>1 DEF Inv, Tables, Matching, Listed
<1>5. Network'
  BY <1>1 DEF Inv, Network
<1> QED BY <1>2, <1>3, <1>4, <1>5 DEF Inv

-----------------------------------------------------------------------------
(* Whoever is killed, the names, the tables and the processes of the stress*)
(* test stay what Inv says.                                                *)
THEOREM InvHolds == Spec => []Inv
<1>1. Init => Inv
  BY InitInv
<1>2. Inv /\ [Next]_vars => Inv'
  <2> SUFFICES ASSUME Inv, [Next]_vars PROVE Inv'
    OBVIOUS
  <2>1. CASE StartSeed
    BY <2>1, StartSeedInv
  <2>2. CASE JoinSeeds
    BY <2>2, JoinSeedsInv
  <2>3. CASE KillNodes
    BY <2>3, KillNodesInv
  <2>4. CASE JoinNode
    BY <2>4, JoinNodeInv
  <2>5. CASE RegisterRound
    BY <2>5, RegisterRoundInv
  <2>6. CASE Destroy
    BY <2>6, DestroyInv
  <2>7. CASE NextExperiment
    BY <2>7, NextExperimentInv
  <2>8. CASE UNCHANGED vars
    BY <2>8, InvStutter
  <2> QED BY <2>1, <2>2, <2>3, <2>4, <2>5, <2>6, <2>7, <2>8 DEF Next
<1> QED BY <1>1, <1>2, PTL DEF Spec

(* The tables and the processes are what their names say.                  *)
THEOREM TypeCorrect == Spec => []TypeOK
<1>1. Inv => TypeOK
  <2> SUFFICES ASSUME Inv PROVE TypeOK
    OBVIOUS
  <2>1. /\ config \in 1 .. 5 /\ stage \in {"seeds", "kill", "join", "destroyed"}
        /\ left \in Nat /\ round \in 0 .. RoundsOf /\ current_port \in Nat
        /\ current_name \in Name
    BY DEF Inv, Budget, Naming
  <2>2. DOMAIN SerfConfigs = 1 .. 5
    BY DEF SerfConfigs
  <2>3. name_to_ports \in Seq(Entry)
    BY DEF Inv, Tables, Matching
  <2>4. DOMAIN name_to_ports = 1 .. Len(name_to_ports)
    BY <2>3
  <2>5. \A k \in 1 .. Len(name_to_ports) :
          /\ name_to_ports[k].name \in Name
          /\ name_to_ports[k].port \in 1 .. current_port
          /\ name_to_popen[name_to_ports[k].name] = name_to_ports[k].port
    <3>1. \A k \in 1 .. Len(name_to_ports) : name_to_ports[k] \in Entry
      BY <2>3, ElementOfSeq
    <3> QED BY <3>1 DEF Entry, Inv, Tables, Matching
  <2>6. DOMAIN name_to_popen = {name_to_ports[k].name : k \in 1 .. Len(name_to_ports)}
    BY <2>4 DEF Inv, Tables, Matching, Listed
  <2>7. running \subseteq 1 .. current_port
    BY <2>5 DEF Inv, Tables
  <2>8. DOMAIN agents = 1 .. current_port
    BY DEF Inv, Network
  <2> QED BY <2>1, <2>2, <2>4, <2>5, <2>6, <2>7, <2>8 DEF TypeOK
<1> QED BY <1>1, InvHolds, PTL

(* For any length of the names and any alphabet with letters enough, each  *)
(* agent of the stress test is listed under one name of its own as long as *)
(* it runs, so that kill_node and destroy reach every process that was     *)
(* started.                                                                *)
THEOREM NobodyOrphaned == Spec => []NoOrphans
<1>1. Inv => NoOrphans
  <2> SUFFICES ASSUME Inv PROVE NoOrphans
    OBVIOUS
  <2>1. /\ name_to_ports \in Seq(Entry) /\ DOMAIN name_to_popen = Listed
        /\ \A k, l \in 1 .. Len(name_to_ports) :
             name_to_ports[k].name = name_to_ports[l].name => k = l
        /\ \A k \in 1 .. Len(name_to_ports) :
             name_to_popen[name_to_ports[k].name] = name_to_ports[k].port
        /\ stage = "destroyed" => running = {}
        /\ running \subseteq {name_to_ports[k].port : k \in 1 .. Len(name_to_ports)}
    BY DEF Inv, Tables, Matching
  <2>2. DOMAIN name_to_ports = 1 .. Len(name_to_ports) /\ Len(name_to_ports) \in Nat
    BY <2>1, LenProperties
  <2>3. Listed = {name_to_ports[k].name : k \in 1 .. Len(name_to_ports)}
    BY <2>2 DEF Listed
  <2>4. Cardinality(Listed) = Len(name_to_ports)
    <3> DEFINE n == Len(name_to_ports)
               f == [k \in 1 .. n |-> name_to_ports[k].name]
    <3>1. f \in Surjection(1 .. n, Listed)
      BY <2>3 DEF Surjection
    <3>2. f \in Injection(1 .. n, Listed)
      BY <2>1, <2>3 DEF Injection, IsInjective
    <3> HIDE DEF f
    <3>3. IsFiniteSet(1 .. n)
      BY <2>2, FS_Interval
    <3>4. Cardinality(1 .. n) = n
      <4>1. 1 \in Int /\ n \in Int /\ n \in Nat
        BY <2>2
      <4> HIDE DEF n
      <4>2. Cardinality(1 .. n) = IF 1 > n THEN 0 ELSE n - 1 + 1
        BY <4>1, FS_Interval
      <4> QED BY <4>1, <4>2
    <3>5. Cardinality(Listed) = Cardinality(1 .. n)
      <4> HIDE DEF n
      <4> QED BY <3>1, <3>2, <3>3, FS_Surjection
    <3> QED BY <3>4, <3>5
  <2>5. running \subseteq {name_to_popen[name] : name \in DOMAIN name_to_popen}
    BY <2>1, <2>3
  <2> QED BY <2>1, <2>2, <2>4, <2>5 DEF NoOrphans
<1> QED BY <1>1, InvHolds, PTL

(* Although the oldest node may be killed in any round, the gateway of     *)
(* those that join is always a running node of the one network there is,   *)
(* and each round is reported as Ok.                                       *)
THEOREM NetworkTogether == Spec => []OneNetwork
<1>1. Inv => OneNetwork
  BY DEF Inv, Network, OneNetwork
<1> QED BY <1>1, InvHolds, PTL

=============================================================================
