------------------------- MODULE MCControlTransfer -------------------------
(* Endpoint 0 with the requests of an enumeration.                         *)
EXTENDS ControlTransfer

Get(kind, index, most) ==
    [bmRequestType |-> 128, bRequest |-> USBRQ_GET_DESCRIPTOR, wValue |-> <<index, kind>>,
     wLength |-> <<most % 256, most \div 256>>]

Other(type, bRequest, value, most) ==
    [bmRequestType |-> type, bRequest |-> bRequest, wValue |-> <<value, 0>>, wLength |-> <<most, 0>>]

\* Lengths that end within a block, with a block, after the whole descriptor,
\* and lengths of two bytes; an unknown descriptor and a class request.
MCRequests ==
    { Get(USBDESCR_DEVICE, 0, 8), Get(USBDESCR_CONFIG, 0, 12), Get(USBDESCR_CONFIG, 0, 256),
      Get(USBDESCR_STRING, 3, 255), Get(USBDESCR_STRING, 4, 255), Get(USBDESCR_HID, 0, 9),
      Get(USBDESCR_HID_REPORT, 0, 203), Other(128, USBRQ_GET_STATUS, 0, 2),
      Other(0, USBRQ_SET_ADDRESS, 7, 0), Other(128, USBRQ_GET_CONFIGURATION, 0, 1),
      Other(0, USBRQ_SET_CONFIGURATION, 1, 0), Other(33, 10, 0, 0) }

=============================================================================
