---------------------------- MODULE BootProtocol ----------------------------
(***************************************************************************)
(* boot_uart_protocol.c: the commands a host sends to the bootloader and   *)
(* the reports it gets back, as payloads of comm_handle's frames.          *)
(*                                                                         *)
(* The state is the last payload and what was made of it.  The host's side *)
(* of both directions follows the layouts in boot_uart_protocol.h.         *)
(***************************************************************************)
EXTENDS Words

CONSTANTS Fields,       \* values of the 32-bit fields, as pairs of halves
          Hashes, Signatures, Chunks,   \* what the commands carry, as bytes
          Reports,      \* what the bootloader may report
          Capacities,   \* room in the buffer a report is built in
          Slack         \* bytes missing from or added to a payload

\* The arguments of boot_uart_build_report and of its sibling for the slots.
RunReport ==
  [report : Byte, command : Byte, state : Byte, result : Byte, active : Byte,
   confirmed : Byte, trial : Byte, update_state : Byte,
   received : Half \X Half, expected : Half \X Half, version : Half \X Half]

SlotReport ==
  [state : Byte, result : Byte, result1 : Byte, valid1 : Byte, result2 : Byte,
   valid2 : Byte, size1 : Half \X Half, version1 : Half \X Half, size2 : Half \X Half,
   version2 : Half \X Half, minimum : Half \X Half, target : Byte]

ASSUME BootAssumption ==
  /\ Fields \subseteq Half \X Half
  /\ \A s \in Hashes : s \in Seq(Byte) /\ Len(s) = 32
  /\ \A s \in Signatures : s \in Seq(Byte) /\ Len(s) = 64
  /\ Chunks \subseteq Seq(Byte)
  /\ Reports \subseteq RunReport \cup SlotReport
  /\ Capacities \subseteq Nat /\ Slack \subseteq Int

UPDATE_BEGIN == 16
UPDATE_CHUNK == 17
UPDATE_END == 18
REPORT_SLOT_INFO == 133
COMMAND_SLOT_INFO == 5
UPDATE_BEGIN_SIZE == 105
UPDATE_END_SIZE == 1
REPORT_SIZE == 20
SLOT_INFO_REPORT_SIZE == 29

VARIABLES sent,         \* what one side meant
          payload,      \* the bytes on their way
          got           \* what the other side made of them

bootVars == <<sent, payload, got>>
Refused == [accepted |-> FALSE]
-----------------------------------------------------------------------------
\* data[at .. at + 3], counted from 0 as in C.
read_u32_le(data, at) ==
  <<data[at + 3] + 256 * data[at + 4], data[at + 1] + 256 * data[at + 2]>>

write_u32_le(value) ==
  <<value[2] % 256, value[2] \div 256, value[1] % 256, value[1] \div 256>>

parse_update_begin(data) ==
  IF Len(data) # UPDATE_BEGIN_SIZE \/ data[1] # UPDATE_BEGIN THEN Refused
  ELSE [accepted |-> TRUE, command |-> UPDATE_BEGIN,
        image_size |-> read_u32_le(data, 1), image_version |-> read_u32_le(data, 5),
        image_sha256 |-> SubSeq(data, 10, 41), signature |-> SubSeq(data, 42, 105)]

parse_update_chunk(data) ==
  IF Len(data) < 6 \/ data[1] # UPDATE_CHUNK THEN Refused
  ELSE [accepted |-> TRUE, command |-> UPDATE_CHUNK,
        offset |-> read_u32_le(data, 1), data |-> SubSeq(data, 6, Len(data))]

parse_update_end(data) ==
  IF Len(data) # UPDATE_END_SIZE \/ data[1] # UPDATE_END THEN Refused
  ELSE [accepted |-> TRUE, command |-> UPDATE_END]

\* Faulty variant (validates BootExchange): two fields change places.
build_report_swapped(capacity, r) ==
  IF capacity < REPORT_SIZE THEN << >>
  ELSE <<r.report, r.command, r.state, r.result, r.active, r.confirmed, r.trial,
         r.update_state>>
       \o write_u32_le(r.expected) \o write_u32_le(r.received) \o write_u32_le(r.version)

\* r names the arguments of boot_uart_build_report.
build_report(capacity, r) ==
  IF capacity < REPORT_SIZE THEN << >>
  ELSE <<r.report, r.command, r.state, r.result, r.active, r.confirmed, r.trial,
         r.update_state>>
       \o write_u32_le(r.received) \o write_u32_le(r.expected) \o write_u32_le(r.version)

build_slot_info_report(capacity, r) ==
  IF capacity < SLOT_INFO_REPORT_SIZE THEN << >>
  ELSE <<REPORT_SLOT_INFO, COMMAND_SLOT_INFO, r.state, r.result, r.result1, r.valid1,
         r.result2, r.valid2>>
       \o write_u32_le(r.size1) \o write_u32_le(r.version1) \o write_u32_le(r.size2)
       \o write_u32_le(r.version2) \o write_u32_le(r.minimum) \o <<r.target>>
-----------------------------------------------------------------------------
(* The host: its encoder of the commands, its decoder of the reports.      *)
HostEncode(c) ==
  CASE c.command = UPDATE_BEGIN -> <<UPDATE_BEGIN>> \o write_u32_le(c.image_size)
         \o write_u32_le(c.image_version) \o c.image_sha256 \o c.signature
    [] c.command = UPDATE_CHUNK -> <<UPDATE_CHUNK>> \o write_u32_le(c.offset) \o c.data
    [] c.command = UPDATE_END -> <<UPDATE_END>>

Commands ==
  [accepted : {TRUE}, command : {UPDATE_BEGIN}, image_size : Fields,
   image_version : Fields, image_sha256 : Hashes, signature : Signatures]
  \cup [accepted : {TRUE}, command : {UPDATE_CHUNK}, offset : Fields,
        data : Chunks]
  \cup [accepted : {TRUE}, command : {UPDATE_END}]

Field(p, at) == read_u32_le(p, at)
HostDecode(p) ==
  IF Len(p) = 20
  THEN [report |-> p[1], command |-> p[2], state |-> p[3], result |-> p[4],
        active |-> p[5], confirmed |-> p[6], trial |-> p[7], update_state |-> p[8],
        received |-> Field(p, 8), expected |-> Field(p, 12), version |-> Field(p, 16)]
  ELSE [state |-> p[3], result |-> p[4], result1 |-> p[5], valid1 |-> p[6],
        result2 |-> p[7], valid2 |-> p[8], size1 |-> Field(p, 8),
        version1 |-> Field(p, 12), size2 |-> Field(p, 16), version2 |-> Field(p, 20),
        minimum |-> Field(p, 24), target |-> p[29]]

Size(r) == IF "target" \in DOMAIN r THEN 29 ELSE 20
-----------------------------------------------------------------------------
BootInit == sent = Refused /\ payload = << >> /\ got = Refused

\* A frame is cut short or has bytes too many: its CRC says nothing of that.
Command(c, slack) ==
  LET p == HostEncode(c) IN
    /\ sent = Refused /\ Len(p) + slack >= 1
    /\ sent' = [c EXCEPT !.accepted = slack = 0]
    /\ payload' = IF slack <= 0 THEN SubSeq(p, 1, Len(p) + slack) ELSE p \o Zeros(slack)
    /\ got' = [begin |-> parse_update_begin(payload'),
               chunk |-> parse_update_chunk(payload'),
               end |-> parse_update_end(payload')]

Report(capacity, r) ==
  /\ sent = Refused
  /\ sent' = [accepted |-> capacity >= Size(r), report |-> r]
  /\ payload' = IF "target" \in DOMAIN r THEN build_slot_info_report(capacity, r)
                ELSE build_report(capacity, r)
  /\ got' = IF payload' = << >> THEN Refused ELSE HostDecode(payload')

BootNext ==
  \/ \E c \in Commands, slack \in Slack : Command(c, slack)
  \/ \E capacity \in Capacities, r \in Reports : Report(capacity, r)

BootSpec == BootInit /\ [][BootNext]_bootVars
-----------------------------------------------------------------------------
\* A command is taken for what the host meant and by its own parser only, one
\* of the wrong length is refused (a chunk has no length of its own: it ends
\* where the payload ends, but is not empty), and a report that fits arrives
\* with every field in its place.
BootExchange ==
  \/ sent = Refused
  \/ /\ "command" \in DOMAIN sent
     /\ LET takers == {n \in DOMAIN got : got[n].accepted} IN
          IF sent.command = UPDATE_CHUNK
          THEN takers = IF Len(payload) > 5 THEN {"chunk"} ELSE {}
          ELSE takers = IF sent.accepted THEN {IF sent.command = UPDATE_END
                                               THEN "end" ELSE "begin"} ELSE {}
     /\ sent.accepted => \A n \in DOMAIN got : got[n].accepted => got[n] = sent
  \/ /\ "report" \in DOMAIN sent
     /\ IF sent.accepted THEN Len(payload) = Size(sent.report) /\ got = sent.report
        ELSE payload = << >>
=============================================================================
