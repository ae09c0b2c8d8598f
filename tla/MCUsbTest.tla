------------------------------- MODULE MCUsbTest -------------------------------
(* UsbTest for TLC: two test devices, the device of usb.c, whose ids the driver  *)
(* does not know, and a listing.                                                 *)
EXTENDS UsbTest

MCFile == {"001", "002", "003", "devices"}
MCDescriptor == [f \in MCFile |-> CASE f = "001" -> <<1317, 42144>> [] f = "002" -> <<1351, 128>>
                                    [] f = "003" -> <<49214, 42148>> [] f = "devices" -> <<>>]
MCEnv == {None, "001"}
MCArgv == {<<>>, <<<<"a">>>>, <<<<"D", "002">>>>, <<<<"D", "003">>, <<"c", -1>>>>,
           <<<<"a">>, <<"D", "001">>>>, <<<<"D", "001">>, <<"a">>, <<"t", 1>>>>,
           <<<<"a">>, <<"n">>>>, <<<<"a">>, <<"t", 3>>>>, <<<<"t", -1>>>>, <<<<"l">>, <<"a">>>>,
           <<<<"a">>, <<"h">>>>, <<<<"a">>, <<"file">>>>}
=============================================================================
