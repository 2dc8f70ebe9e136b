--------------------------- MODULE MCPickPipeline ---------------------------
(* The stage list that pipeline.py ships, and one in which the body is     *)
(* assembled and the wire and the resistor, which share one pair of        *)
(* gripper positions, are put back where they were.                        *)
EXTENDS PickPipeline

BodyStages ==
  <<[kind |-> "zone", arg |-> "BODY_PICK_ZONE"],   [kind |-> "vote", arg |-> "body"],
    [kind |-> "pick", arg |-> "body"],             [kind |-> "zone", arg |-> "BODY_CELL_ZONE"],
    [kind |-> "place", arg |-> "body"]>>
SensorStages ==
  <<[kind |-> "zone", arg |-> "SENSOR_PICK_ZONE"], [kind |-> "vote", arg |-> "sensor"],
    [kind |-> "pick", arg |-> "sensor"],           [kind |-> "zone", arg |-> "BODY_CELL_ZONE"],
    [kind |-> "place", arg |-> "sensor"]>>
WireStages ==
  <<[kind |-> "zone", arg |-> "WIRE5_PICK_ZONE"],  [kind |-> "vote", arg |-> "wire5"],
    [kind |-> "pick", arg |-> "wire5"],            [kind |-> "place", arg |-> "wire5"],
    [kind |-> "zone", arg |-> "WIRE5_PICK_ZONE"]>>
ResistorStages ==
  <<[kind |-> "zone", arg |-> "RESIST_PICK_ZONE"], [kind |-> "vote", arg |-> "resist"],
    [kind |-> "pick", arg |-> "resist"],           [kind |-> "place", arg |-> "resist"],
    [kind |-> "zone", arg |-> "RESIST_PICK_ZONE"]>>

MCZones ==
  {"BODY_PICK_ZONE", "SENSOR_PICK_ZONE", "WIRE5_PICK_ZONE", "RESIST_PICK_ZONE", "BODY_CELL_ZONE"}
MCGrid == [body |-> "body_grid", sensor |-> "sensor_grid",
           wire5 |-> "wire_grid", resist |-> "resist_grid"]

ShippedStages == BodyStages \o SensorStages
ShippedItems == {"body", "sensor"}
ShippedSlotOf == [i \in ShippedItems |-> MCGrid[i]]

MixedStages == BodyStages \o WireStages \o ResistorStages
MixedItems == {"body", "wire5", "resist"}
MixedSlotOf == [i \in MixedItems |-> MCGrid[i]]

\* Both lists handle a part the way the theorem about the parts asks for.
ASSUME StagesAreWhole == GraspsWhole

\* The shipped list assembles its parts, as the theorem about the promise asks for.
ASSUME ShippedAssembles == Stages = ShippedStages => Assembles
=============================================================================
