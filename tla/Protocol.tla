------------------------------ MODULE Protocol ------------------------------
(***************************************************************************)
(* The bodies of the messages (protocol.cpp) and the order records of a    *)
(* snapshot (snapshot.cpp).  The order in which the encoder writes the     *)
(* fields and the order in which the decoder reads them are written down   *)
(* separately, as they are in the code.                                    *)
(***************************************************************************)
EXTENDS Codec

MessageType ==
    [NewOrder |-> 1, Cancel |-> 2, Modify |-> 3,
     Accepted |-> 129, Rejected |-> 130, Cancelled |-> 131, Modified |-> 132,
     TradeMsg |-> 133, BookUpdateMsg |-> 134]

CommandTypes == {"NewOrder", "Cancel", "Modify"}
EventTypes == DOMAIN MessageType \ CommandTypes

TypeNamed(byte, types) == {t \in types : MessageType[t] = byte}

-----------------------------------------------------------------------------
(* EncodeCommand and EncodeEvent.                                          *)

CommandWritten ==
    [NewOrder |->
        << <<"order_id", "U64">>, <<"trader_id", "U64">>, <<"symbol_id", "U32">>,
           <<"side", "U8">>, <<"type", "U8">>, <<"time_in_force", "U8">>,
           <<"price", "I64">>, <<"quantity", "U64">>, <<"timestamp", "U64">> >>,
     Cancel |->
        << <<"order_id", "U64">>, <<"trader_id", "U64">>, <<"symbol_id", "U32">>,
           <<"timestamp", "U64">> >>,
     Modify |->
        << <<"order_id", "U64">>, <<"trader_id", "U64">>, <<"symbol_id", "U32">>,
           <<"new_price", "I64">>, <<"new_quantity", "U64">>,
           <<"timestamp", "U64">> >>]

EncodeCommand(m) ==
    <<MessageType[m.type]>> \o WriteFields(CommandWritten[m.type], m.fields)

EventHeader ==
    << <<"sequence_number", "U64">>, <<"timestamp", "U64">>, <<"symbol_id", "U32">> >>

EventWritten ==
    [Accepted |->
        << <<"order_id", "U64">>, <<"trader_id", "U64">>, <<"side", "U8">>,
           <<"type", "U8">>, <<"price", "I64">>, <<"quantity", "U64">>,
           <<"filled_quantity", "U64">>, <<"remaining_quantity", "U64">>,
           <<"status", "U8">> >>,
     Rejected |->
        << <<"order_id", "U64">>, <<"trader_id", "U64">>, <<"reason", "U8">> >>,
     Cancelled |-> << <<"order_id", "U64">>, <<"trader_id", "U64">> >>,
     Modified |->
        << <<"order_id", "U64">>, <<"trader_id", "U64">>, <<"new_price", "I64">>,
           <<"new_remaining_quantity", "U64">>, <<"lost_priority", "Bool">> >>,
     TradeMsg |->
        << <<"aggressor_order_id", "U64">>, <<"resting_order_id", "U64">>,
           <<"aggressor_trader_id", "U64">>, <<"resting_trader_id", "U64">>,
           <<"aggressor_side", "U8">>, <<"price", "I64">>, <<"quantity", "U64">> >>,
     BookUpdateMsg |->
        << <<"side", "U8">>, <<"price", "I64">>, <<"aggregate_quantity", "U64">> >>]

EncodeEvent(m) ==
    <<MessageType[m.type]>> \o WriteFields(EventHeader \o EventWritten[m.type], m.fields)

-----------------------------------------------------------------------------
(* DecodeCommand and DecodeEvent.                                          *)

nullopt == [type |-> "none"]

DecodeNewOrder(r) ==
    ReadFields(r,
        << <<"order_id", "U64">>, <<"trader_id", "U64">>, <<"symbol_id", "U32">>,
           <<"side", "U8">>, <<"type", "U8">>, <<"time_in_force", "U8">>,
           <<"price", "I64">>, <<"quantity", "U64">>, <<"timestamp", "U64">> >>)

DecodeCancel(r) ==
    ReadFields(r,
        << <<"order_id", "U64">>, <<"trader_id", "U64">>, <<"symbol_id", "U32">>,
           <<"timestamp", "U64">> >>)

(* Mutant: price and quantity are read in the wrong order.                 *)
DecodeModifySwapped(r) ==
    ReadFields(r,
        << <<"order_id", "U64">>, <<"trader_id", "U64">>, <<"symbol_id", "U32">>,
           <<"new_quantity", "U64">>, <<"new_price", "I64">>,
           <<"timestamp", "U64">> >>)

DecodeModify(r) ==
    ReadFields(r,
        << <<"order_id", "U64">>, <<"trader_id", "U64">>, <<"symbol_id", "U32">>,
           <<"new_price", "I64">>, <<"new_quantity", "U64">>,
           <<"timestamp", "U64">> >>)

(* Mutant: the results of the reads are ignored.                           *)
DecodedAlways(type, r) == [type |-> type, fields |-> r.fields]

Decoded(type, r) == IF r.ok THEN [type |-> type, fields |-> r.fields] ELSE nullopt

(* The reader behind the type byte.                                        *)
AfterType(body) == [Reader(body) EXCEPT !.pos = 1]

DecodeCommand(body) ==
    IF body = << >> THEN nullopt
    ELSE LET r == AfterType(body)
         IN  CASE body[1] = MessageType.NewOrder -> Decoded("NewOrder", DecodeNewOrder(r))
               [] body[1] = MessageType.Cancel -> Decoded("Cancel", DecodeCancel(r))
               [] body[1] = MessageType.Modify -> Decoded("Modify", DecodeModify(r))
               [] OTHER -> nullopt

EventRead ==
    [Accepted |->
        << <<"order_id", "U64">>, <<"trader_id", "U64">>, <<"side", "U8">>,
           <<"type", "U8">>, <<"price", "I64">>, <<"quantity", "U64">>,
           <<"filled_quantity", "U64">>, <<"remaining_quantity", "U64">>,
           <<"status", "U8">> >>,
     Rejected |->
        << <<"order_id", "U64">>, <<"trader_id", "U64">>, <<"reason", "U8">> >>,
     Cancelled |-> << <<"order_id", "U64">>, <<"trader_id", "U64">> >>,
     Modified |->
        << <<"order_id", "U64">>, <<"trader_id", "U64">>, <<"new_price", "I64">>,
           <<"new_remaining_quantity", "U64">>, <<"lost_priority", "Bool">> >>,
     TradeMsg |->
        << <<"aggressor_order_id", "U64">>, <<"resting_order_id", "U64">>,
           <<"aggressor_trader_id", "U64">>, <<"resting_trader_id", "U64">>,
           <<"aggressor_side", "U8">>, <<"price", "I64">>, <<"quantity", "U64">> >>,
     BookUpdateMsg |->
        << <<"side", "U8">>, <<"price", "I64">>, <<"aggregate_quantity", "U64">> >>]

DecodeEvent(body) ==
    IF body = << >> THEN nullopt
    ELSE LET header == ReadFields(AfterType(body), EventHeader)
             named == TypeNamed(body[1], EventTypes)
             type == CHOOSE t \in named : TRUE
         IN  IF ~header.ok \/ named = {} THEN nullopt
             ELSE Decoded(type, ReadFields(header, EventRead[type]))

-----------------------------------------------------------------------------
(* WriteOrder and ReadOrder of a snapshot: no type byte, and the records   *)
(* follow each other without a length.                                     *)

OrderWritten ==
    << <<"id", "U64">>, <<"trader_id", "U64">>, <<"symbol_id", "U32">>,
       <<"sequence_number", "U64">>, <<"timestamp", "U64">>, <<"price", "I64">>,
       <<"quantity", "U64">>, <<"remaining_quantity", "U64">>, <<"side", "U8">>,
       <<"type", "U8">>, <<"time_in_force", "U8">>, <<"status", "U8">> >>

WriteOrder(o) == WriteFields(OrderWritten, o)

ReadOrder(r) ==
    ReadFields(r,
        << <<"id", "U64">>, <<"trader_id", "U64">>, <<"symbol_id", "U32">>,
           <<"sequence_number", "U64">>, <<"timestamp", "U64">>, <<"price", "I64">>,
           <<"quantity", "U64">>, <<"remaining_quantity", "U64">>, <<"side", "U8">>,
           <<"type", "U8">>, <<"time_in_force", "U8">>, <<"status", "U8">> >>)
=============================================================================
