---------------------------- MODULE MachineLists ----------------------------
(***************************************************************************)
(* The machines that the commands of b7-upgrade talk to (db.go): the       *)
(* machine documents of the database, by model, and the lists that         *)
(* upgrade-agents and the agents commands take from them.                  *)
(***************************************************************************)
EXTENDS FiniteSets

CONSTANTS
  Models,           \* the UUIDs of the model documents
  ControllerModel,  \* what the controllers collection says under "e"
  Machines,         \* the machine documents
  MachineDoc        \* what they say: [model, id, address]

ASSUME MachinesAssumption ==
  /\ Models # {}
  /\ IsFiniteSet(Machines)
  /\ \A m \in Machines : {"model", "id", "address"} \subseteq DOMAIN MachineDoc[m]

\* The machines of the models there are.
AllMachines == {m \in Machines : MachineDoc[m].model \in Models}

\* A mistake: machine 0 of a hosted model is taken for the controller, too.
IsServerOfAnyModel(m) == MachineDoc[m].id = "0"

IsServer(m) == MachineDoc[m].model = ControllerModel /\ MachineDoc[m].id = "0"

\* Machine 0 of the controller model; the code returns the first it finds.
ServerMachines == {m \in AllMachines : IsServer(m)}

OtherMachines == {m \in AllMachines : ~IsServer(m)}

\* upgrade-agents is given addresses to limit itself to, or none.
Chosen(addresses) ==
  {m \in AllMachines : addresses = {} \/ MachineDoc[m].address \in addresses}

\* verify-db, which the operator runs before anything else, refuses a database
\* with a machine that has no address.
NoAddressMissing == \A m \in AllMachines : MachineDoc[m].address # ""
=============================================================================
