--------------------------- MODULE MCTemperature ---------------------------
(***************************************************************************)
(* Temperature on seven states of the sensors: the ways a reading is       *)
(* found, missed or refused.                                               *)
(***************************************************************************)
EXTENDS Temperature

MCWord == 262144

Adapter(soft, vendor, deci) == [software |-> soft, vendor |-> vendor, deci |-> deci]
Logged(gfx, edge, cpu) == [gfx |-> gfx, edge |-> edge, cpu |-> cpu,
                            soc |-> cpu, hotspot |-> gfx]
NoSensors == Logged(-1, -1, -1)
State(wddm, adl, od5, ec) == [wddm |-> wddm, adl |-> adl, od5 |-> od5, ec |-> ec]

MCHardware ==
    {\* Task Manager's reading; another vendor's adapter, or a software one, first
     State(<<Adapter(FALSE, "other", 400), Adapter(FALSE, "amd", 974)>>,
           <<NoSensors, Logged(60, 61, 98)>>, <<>>, 97),
     State(<<Adapter(TRUE, "amd", 990), Adapter(FALSE, "amd", 451)>>,
           <<Logged(60, 61, 45)>>, <<>>, 97),
     \* only another vendor's, one too hot; a software adapter only
     State(<<Adapter(FALSE, "unknown", 1155), Adapter(FALSE, "other", 1154)>>, <<>>, <<>>, 40),
     State(<<Adapter(TRUE, "other", 500)>>, <<Logged(-1, 44, 9)>>, <<>>, 97),
     \* a sum that wraps around, then the older interface
     State(<<Adapter(FALSE, "amd", MCWord - 1)>>, <<Logged(116, 9, 98)>>,
           <<MCWord \div 2 - 1, 115500, 115499>>, 40),
     \* nothing but the EC: too cold, failing
     State(<<Adapter(FALSE, "amd", 94)>>, <<>>, <<0, -5, 9499>>, 97),
     State(<<Adapter(FALSE, "amd", 0)>>, <<NoSensors>>, <<>>, 40)}
=============================================================================
