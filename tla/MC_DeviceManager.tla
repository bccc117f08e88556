-------------------------- MODULE MC_DeviceManager --------------------------
(* Instantiation of DeviceManager for TLC: two accelerator objects, one of *)
(* each facade class, over device 0 (4 chips) and device 16 (8 chips), the *)
(* first id whose contexts fall past the driver's 32.                      *)
EXTENDS DeviceManager

MCFacade == [p \in Procs |-> IF p = CHOOSE q \in Procs : TRUE
                             THEN "MxAccl" ELSE "MxAcclMT"]
MCChips == [d \in Devices |-> IF d < 16 THEN 4 ELSE 8]
MCDfps == {[chips |-> 4, mg |-> FALSE], [chips |-> 2, mg |-> TRUE],
           [chips |-> 8, mg |-> FALSE]}
MCDeviceLists == {<<0>>, <<16>>, <<0, 16>>}
====
