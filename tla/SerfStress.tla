----------------------------- MODULE SerfStress -----------------------------
(***************************************************************************)
(* serf/stress_test_serf.py, which starts, kills and joins agents of serf  *)
(* and asks one of them for the members after each round, with the table   *)
(* of stress_test_runner.py, which does the same to thin_swim.  The agents *)
(* are not part of the repository: an agent is running or not, those that  *)
(* joined each other form a cluster, and the cooldown is taken to be long  *)
(* enough for an agent to list its whole cluster and nothing else.         *)
(***************************************************************************)
EXTENDS Positions, SequencesExt

CONSTANTS
  NameLength, Letters,  \* 5 and 26 in the code
  MaxRounds             \* bound on the rounds of an experiment, 10 in the code

Config(seeds, kills, joins, rounds) ==
  [seeds |-> seeds, kills |-> kills, joins |-> joins, rounds |-> rounds]

(* configs and CONFIGS: no_issue, small_reliable, small_unreliable,        *)
(* big_reliable, big_unreliable.  The cooldowns differ and are left out.   *)
SerfConfigs == <<Config(3, 0, 0, 10), Config(5, 1, 1, 10),
                 Config(5, 2, 2, 10), Config(10, 1, 1, 10),
                 Config(10, 4, 4, 10)>>
RunnerConfigs ==
  <<[seeds |-> 3,  rounds |-> 10, kills |-> 0, joins |-> 0],
    [seeds |-> 5,  rounds |-> 10, kills |-> 1, joins |-> 1],
    [seeds |-> 5,  rounds |-> 10, kills |-> 2, joins |-> 2],
    [seeds |-> 10, rounds |-> 10, kills |-> 1, joins |-> 1],
    [seeds |-> 10, rounds |-> 10, kills |-> 4, joins |-> 4]>>

(* The two protocols are compared under the same load.                     *)
ASSUME SameLoad == SerfConfigs = RunnerConfigs

RoundsFor(load) == IF load.rounds < MaxRounds THEN load.rounds ELSE MaxRounds

(* There are letters enough for the agents of every experiment, of which   *)
(* the largest starts 10 + 10 * 4 and the code can name 5 * 25 after the   *)
(* first.                                                                  *)
ASSUME NamesSuffice ==
  /\ NameLength \in Nat \ {0} /\ Letters \in Nat \ {0} /\ MaxRounds \in Nat
  /\ \A k \in DOMAIN SerfConfigs :
       SerfConfigs[k].seeds + RoundsFor(SerfConfigs[k]) * SerfConfigs[k].joins
         <= NameLength * (Letters - 1)

VARIABLES
  config,         \* the experiment that runs, from 1
  stage,          \* where run_experiment is
  left,           \* seeds to start, or nodes to join, in this stage
  round,
  current_name,
  current_port,   \* bind and rpc port advance together
  name_to_ports,  \* a dict in the order of insertion: name and port
  name_to_popen,  \* the process of each name, known by its port
  raports,
  running,        \* processes, also those nobody knows any more
  agents          \* of each process started, its name and a process of its
                  \* cluster that stands for all of it

vars == <<config, stage, left, round, current_name, current_port,
          name_to_ports, name_to_popen, raports, running, agents>>

Name == [1 .. NameLength -> 1 .. Letters]
FirstName == [i \in 1 .. NameLength |-> 1]

Load == SerfConfigs[config]
RoundsOf == RoundsFor(Load)

(* Mutant: no letter is the last. *)
NextNameUnchecked(name) == [name EXCEPT ![NameLength] = @ + 1]
(* Mutant: only the last letter is advanced. *)
NextNameOneLetter(name) ==
  IF name[NameLength] = Letters THEN name
  ELSE [name EXCEPT ![NameLength] = @ + 1]

(* gen_rand_name: the last letter that is no z is advanced, the z after it *)
(* are left as they are, and the last name of all is given out for ever.   *)
NextName(name) ==
  LET room == {i \in 1 .. NameLength : name[i] < Letters} IN
  IF room = {} THEN name ELSE [name EXCEPT ![Max(room)] = @ + 1]

(* name_to_ports[name] = port: a known name keeps its place.               *)
SetPort(table, name, port) ==
  IF \E k \in DOMAIN table : table[k].name = name
  THEN [k \in DOMAIN table |->
          IF table[k].name = name THEN [name |-> name, port |-> port]
                                  ELSE table[k]]
  ELSE Append(table, [name |-> name, port |-> port])

Listed == {name_to_ports[k].name : k \in DOMAIN name_to_ports}

(* The first SerfSimulation                                                *)
Init ==
  /\ config = 1 /\ stage = "seeds" /\ round = 0 /\ left = Load.seeds
  /\ current_name = FirstName /\ current_port = 0
  /\ name_to_ports = << >> /\ name_to_popen = << >> /\ raports = << >>
  /\ running = {} /\ agents = << >>

(* generate_and_add_member, and the agent that is started with the result. *)
StartAgent ==
  LET name == current_name  port == current_port + 1 IN
  /\ current_name' = NextName(name)
  /\ current_port' = port
  /\ name_to_ports' = SetPort(name_to_ports, name, port)
  /\ name_to_popen' = [n \in DOMAIN name_to_popen \cup {name} |->
                         IF n = name THEN port ELSE name_to_popen[n]]
  /\ running' = running \cup {port}

(* The agent just started belongs to the cluster that a process stands for.*)
Belongs(process) ==
  agents' = Append(agents, [name |-> current_name, cluster |-> process])

(* Mutant: the newest node, which is the one that joins. *)
NewestGateway(table) == table[Len(table)].port

(* next(iter(self.name_to_ports.values()))                                 *)
Gateway(table) == Head(table).port

StartSeed ==
  /\ stage = "seeds" /\ left > 0
  /\ StartAgent
  /\ Belongs(current_port')
  /\ left' = left - 1
  /\ UNCHANGED <<config, stage, round, raports>>

(* Every other seed is told to join the gateway.                           *)
JoinSeeds ==
  /\ stage = "seeds" /\ left = 0
  /\ LET gateway == Gateway(name_to_ports) IN
     agents' = [p \in DOMAIN agents |->
       IF \E k \in DOMAIN name_to_ports : name_to_ports[k].port = p
       THEN [agents[p] EXCEPT !.cluster = agents[gateway].cluster]
       ELSE agents[p]]
  /\ stage' = "kill"
  /\ UNCHANGED <<config, left, round, current_name, current_port,
                 name_to_ports, name_to_popen, raports, running>>

(* kill_node, of all that are drawn.                                       *)
KillNode(to_kill) ==
  /\ running' = running \ {name_to_popen[name] : name \in to_kill}
  /\ name_to_ports' =
       Entries(name_to_ports, {k \in DOMAIN name_to_ports :
                                 name_to_ports[k].name \notin to_kill})
  /\ name_to_popen' = [name \in DOMAIN name_to_popen \ to_kill |->
                         name_to_popen[name]]

(* np.random.choice raises an error if there are too few.                  *)
KillNodes ==
  /\ stage = "kill" /\ round < RoundsOf
  /\ \E to_kill \in kSubset(Load.kills, Listed) : KillNode(to_kill)
  /\ stage' = "join" /\ left' = Load.joins
  /\ UNCHANGED <<config, round, current_name, current_port, raports, agents>>

(* join_node: the gateway is looked up when the new node is listed itself. *)
(* An agent whose gateway does not run, or is itself, stays alone.         *)
JoinNode ==
  /\ stage = "join" /\ left > 0
  /\ StartAgent
  /\ LET gateway == Gateway(name_to_ports') IN
     Belongs(IF gateway \in running \cap DOMAIN agents
             THEN agents[gateway].cluster ELSE current_port')
  /\ left' = left - 1
  /\ UNCHANGED <<config, stage, round, raports>>

(* The members that the first node of the table lists, and the report.     *)
Members(port) ==
  {agents[p].name :
     p \in {q \in running \cap DOMAIN agents :
              agents[q].cluster = agents[port].cluster}}

RegisterRound ==
  /\ stage = "join" /\ left = 0
  /\ name_to_ports # << >>
  /\ LET got == Members(Gateway(name_to_ports)) IN
     raports' = Append(raports, [extra |-> Cardinality(got \ Listed),
                                 missing |-> Cardinality(Listed \ got)])
  /\ round' = round + 1
  /\ stage' = "kill"
  /\ UNCHANGED <<config, left, current_name, current_port, name_to_ports,
                 name_to_popen, running, agents>>

(* destroy, and the next experiment with a new SerfSimulation.             *)
Destroy ==
  /\ stage = "kill" /\ round = RoundsOf
  /\ running' = running \ {name_to_popen[name] : name \in DOMAIN name_to_popen}
  /\ stage' = "destroyed"
  /\ UNCHANGED <<config, left, round, current_name, current_port,
                 name_to_ports, name_to_popen, raports, agents>>

NextExperiment ==
  /\ stage = "destroyed" /\ config < Len(SerfConfigs)
  /\ config' = config + 1
  /\ stage' = "seeds" /\ round' = 0 /\ left' = SerfConfigs[config + 1].seeds
  /\ current_name' = FirstName /\ current_port' = 0
  /\ name_to_ports' = << >> /\ name_to_popen' = << >> /\ raports' = << >>
  /\ agents' = << >>
  /\ UNCHANGED running

Next ==
  \/ StartSeed \/ JoinSeeds
  \/ KillNodes \/ JoinNode \/ RegisterRound
  \/ Destroy \/ NextExperiment

Spec == Init /\ [][Next]_vars

(* One process that only sleeps and calls others.                          *)
FairSpec == Spec /\ WF_vars(Next)

-----------------------------------------------------------------------------

TypeOK ==
  /\ config \in DOMAIN SerfConfigs
  /\ stage \in {"seeds", "kill", "join", "destroyed"}
  /\ left \in Nat /\ round \in 0 .. RoundsOf
  /\ current_name \in Name /\ current_port \in Nat
  /\ \A k \in DOMAIN name_to_ports :
       /\ name_to_ports[k].name \in Name
       /\ name_to_ports[k].port \in 1 .. current_port
  /\ DOMAIN name_to_popen \subseteq Name
  /\ \A name \in DOMAIN name_to_popen :
       name_to_popen[name] \in 1 .. current_port
  /\ running \subseteq 1 .. current_port
  /\ DOMAIN agents = 1 .. current_port

(* The names do not run out: each agent has its own, so that every running *)
(* agent is in both tables, under one name, and can be killed in the end.  *)
NoOrphans ==
  /\ running \subseteq {name_to_popen[name] : name \in DOMAIN name_to_popen}
  /\ stage # "destroyed" =>
       /\ Cardinality(Listed) = Len(name_to_ports)
       /\ DOMAIN name_to_popen = Listed
       /\ \A k \in DOMAIN name_to_ports :
            name_to_popen[name_to_ports[k].name] = name_to_ports[k].port
  /\ stage = "destroyed" => running = {}

(* Although the gateway changes when the oldest node is killed, it always  *)
(* runs and is part of the network, so that the network never falls apart  *)
(* and, serf working, each round is reported as Ok.                        *)
OneNetwork ==
  /\ stage \in {"kill", "join"} =>
       \A p, q \in running : agents[p].cluster = agents[q].cluster
  /\ \A k \in DOMAIN raports : raports[k] = [extra |-> 0, missing |-> 0]

(* No round kills more than there are: all experiments come to their end.  *)
RunsThrough ==
  <>(config = Len(SerfConfigs) /\ stage = "destroyed" /\ round = RoundsOf)

=============================================================================
