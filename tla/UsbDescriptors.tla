--------------------------- MODULE UsbDescriptors ---------------------------
(***************************************************************************)
(* The descriptors the adapter answers GET_DESCRIPTOR with, byte by byte   *)
(* (src/src/descriptors.c, the defaults of usbdrv.c and the configuration  *)
(* in usbconfig.h).  Static assertions keep the lengths of usbconfig.h and *)
(* of the arrays of descriptors.c alike (102, 158).                        *)
(***************************************************************************)
EXTENDS Integers, Sequences, SequencesExt

USB_CFG_HID_REPORT_DESCRIPTOR_LENGTH == 203
USB_CFG_DESCR_PROPS_CONFIGURATION == 9 + 9 + 9 + 7 + 7
USB_CFG_DESCR_PROPS_HID == 9
USB_CFG_VENDOR_ID == <<\h7E, \h05>>
USB_CFG_DEVICE_ID == <<\h09, \h20>>
USB_CFG_DEVICE_VERSION == <<0, 2>>
USB_CFG_VENDOR_NAME_LEN == 18
USB_CFG_DEVICE_NAME_LEN == 14
USB_CFG_SERIAL_NUMBER_LEN == 12
USB_CFG_INTERFACE_CLASS == 3
USB_CFG_MAX_BUS_POWER == 100

USBDESCR_DEVICE == 1
USBDESCR_CONFIG == 2
USBDESCR_STRING == 3
USBDESCR_INTERFACE == 4
USBDESCR_ENDPOINT == 5
USBDESCR_HID == \h21
USBDESCR_HID_REPORT == \h22

-----------------------------------------------------------------------------
(* The report descriptor, as items: a prefix and a value.                  *)

Buttons(first, last) ==
    << <<\h05, 9>>, <<\h19, first>>, <<\h29, last>>, <<\h15, 0>>, <<\h25, 1>>,
       <<\h75, 1>>, <<\h95, last - first + 1>> >>

Opaque(id, usage, main) ==
    << <<\h85, id>>, <<\h09, usage>>, <<\h75, 8>>, <<\h95, \h3F>>, main >>

ReportItems ==
    << <<\h05, 1>>, <<\h15, 0>>, <<\h09, 4>>, <<\hA1, 1>>, <<\h85, \h30>>, <<\h05, 1>> >>
    \o Buttons(1, 10) \o << <<\h55, 0>>, <<\h65, 0>>, <<\h81, 2>> >>
    \o Buttons(11, 14) \o << <<\h81, 2>>, <<\h75, 1>>, <<\h95, 2>>, <<\h81, 3>> >>
    \o << <<\h0B, \h10001>>, <<\hA1, 0>>, <<\h0B, \h10030>>, <<\h0B, \h10031>>,
          <<\h0B, \h10032>>, <<\h0B, \h10035>>, <<\h15, 0>>, <<\h27, \hFFFF>>,
          <<\h75, 16>>, <<\h95, 4>>, <<\h81, 2>>, <<\hC0, 0>> >>
    \o << <<\h0B, \h10039>>, <<\h15, 0>>, <<\h25, 7>>, <<\h35, 0>>, <<\h46, \h13B>>,
          <<\h65, \h14>>, <<\h75, 4>>, <<\h95, 1>>, <<\h81, 2>> >>
    \o Buttons(15, 18) \o << <<\h81, 2>>, <<\h75, 8>>, <<\h95, \h34>>, <<\h81, 3>> >>
    \o << <<\h06, \hFF00>> >>
    \o Opaque(\h21, 1, <<\h81, 3>>) \o Opaque(\h81, 2, <<\h81, 3>>)
    \o Opaque(\h01, 3, <<\h91, \h83>>) \o Opaque(\h10, 4, <<\h91, \h83>>)
    \o Opaque(\h80, 5, <<\h91, \h83>>) \o Opaque(\h82, 6, <<\h91, \h83>>)
    \o << <<\hC0, 0>> >>

\* The low bits of the prefix give the size of the value, low byte first.
ItemBytes(item) ==
    LET size == <<0, 1, 2, 4>>[(item[1] % 4) + 1]
    IN  <<item[1]>> \o [i \in 1..size |-> (item[2] \div 256^(i - 1)) % 256]

usbDescriptorHidReport == FlattenSeq([i \in DOMAIN ReportItems |-> ItemBytes(ReportItems[i])])

-----------------------------------------------------------------------------
(* The other descriptors.                                                  *)

Endpoint(address, interval) == <<7, USBDESCR_ENDPOINT, address, 3, 8, 0, interval>>

usbDescriptorHid ==
    <<9, USBDESCR_HID, 1, 1, 0, 1, USBDESCR_HID_REPORT,
      USB_CFG_HID_REPORT_DESCRIPTOR_LENGTH % 256,
      USB_CFG_HID_REPORT_DESCRIPTOR_LENGTH \div 256>>

usbDescriptorConfiguration ==
    <<9, USBDESCR_CONFIG, USB_CFG_DESCR_PROPS_CONFIGURATION, 0, 1, 1, 0, \hA0,
      USB_CFG_MAX_BUS_POWER \div 2>>
    \o <<9, USBDESCR_INTERFACE, 0, 0, 2, USB_CFG_INTERFACE_CLASS, 0, 0, 0>>
    \o usbDescriptorHid
    \o Endpoint(\h81, 5) \o Endpoint(\h01, 3)

usbDescriptorDevice ==
    <<18, USBDESCR_DEVICE, \h10, \h01, 0, 0, 0, 8>>
    \o USB_CFG_VENDOR_ID \o USB_CFG_DEVICE_ID \o USB_CFG_DEVICE_VERSION
    \o <<1, 2, 3, 1>>

\* A header and 16-bit characters; which characters is left out.
StringDescriptor(length) ==
    <<2 * length + 2, USBDESCR_STRING>> \o [i \in 1..(2 * length) |-> IF i % 2 = 1 THEN 63 ELSE 0]

usbDescriptorString ==
    [language |-> <<4, USBDESCR_STRING, \h09, \h04>>,
     vendor |-> StringDescriptor(USB_CFG_VENDOR_NAME_LEN),
     product |-> StringDescriptor(USB_CFG_DEVICE_NAME_LEN),
     serial |-> StringDescriptor(USB_CFG_SERIAL_NUMBER_LEN)]

\* What the items above come to, and where the HID descriptor lies.
ASSUME DescriptorsCounted ==
    /\ usbDescriptorHidReport \in Seq(0..255)
    /\ Len(usbDescriptorHidReport) = 203
    /\ usbDescriptorHid = SubSeq(usbDescriptorConfiguration, 19, 27)

=============================================================================
