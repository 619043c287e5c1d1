------------------------------- MODULE L2tpAvp -------------------------------
(***************************************************************************)
(* The attributes (AVPs) of xl2tpd's control messages: which ones each     *)
(* message carries (control.c, call.c, avpsend.c) and what handle_avps and *)
(* the handlers of avp.c make of them.  An attribute is its name, its M    *)
(* bit and the way its bytes are wrong, if they are.  There is no state    *)
(* here; L2tpSetup has it.                                                 *)
(***************************************************************************)
EXTENDS Integers, Sequences, SequencesExt

\* Messages, and the states message_type_avp looks at ("idle" is 0).
Kind == {"SCCRQ", "SCCRP", "SCCCN", "StopCCN", "Hello", "ICRQ", "ICRP", "ICCN",
         "OCRQ", "OCRP", "OCCN", "CDN", "WEN", "SLI"}
TunnelState == {"idle", "SCCRQ", "SCCRP", "SCCCN"}
CallState   == {"idle", "ICRQ", "ICRP", "ICCN", "OCRQ"}

\* "size": a length the handler does not take; "value": a value it does not take;
\* "long": more than what is left of the packet; "short": less than a header;
\* "reserved": reserved bits; "hidden": hidden, and decrypt_avp fails.
Form == {"ok", "size", "value", "long", "short", "reserved", "hidden"}

Ignored == {"proxy authen type", "proxy authen name", "proxy authen challenge",
            "proxy authen id", "proxy authen response", "accm"}

\* Known, but avps[] has no handler for it.
NoHandler == {"tie breaker", "q.931 cause", "minimum bps", "maximum bps",
              "initial lcp", "last sent lcp", "last received lcp", "call errors",
              "private group"}

\* attr > AVP_MAX
Unknown == {"unknown"}

Mandatory(attr) == [attr |-> attr, m |-> TRUE, form |-> "ok"]
Optional(attr)  == [attr |-> attr, m |-> FALSE, form |-> "ok"]

-----------------------------------------------------------------------------
(* What a handler returns: "apply", its value is kept; "ignore", 0 without a *)
(* use of the value; "fail", an error; "mark", an error after wrong_length,  *)
(* which sets needclose.                                                     *)

Sized(form) == CASE form = "size" -> "mark"
                 [] form = "value" -> "fail"
                 [] OTHER -> "apply"

\* Most handlers look at the kind of the message first, and ignore the value when the
\* message should not carry it; three look at the length first.
KindFirst(kinds, kind, form) == IF kind \in kinds THEN Sized(form) ELSE "ignore"
SizeFirst(kinds, kind, form) ==
  IF form = "size" \/ kind \in kinds THEN Sized(form) ELSE "ignore"

Opening == {"SCCRP", "SCCRQ"}

result_code_avp(kind, form) ==
  IF form = "value" THEN "ignore" ELSE SizeFirst({"CDN", "StopCCN"}, kind, form)
protocol_version_avp(kind, form) == SizeFirst(Opening, kind, form)
seq_reqd_avp(kind, form) ==
  IF kind = "ICCN" \/ form = "size" THEN Sized(form) ELSE "fail"
rand_vector_avp(kind, form)     == Sized(form)
ignore_avp(kind, form)          == "ignore"
framing_caps_avp(kind, form)    == KindFirst(Opening, kind, form)
bearer_caps_avp(kind, form)     == KindFirst(Opening, kind, form)
firmware_rev_avp(kind, form)    == KindFirst(Opening, kind, form)
hostname_avp(kind, form)        == KindFirst(Opening, kind, form)
vendor_avp(kind, form)          == KindFirst(Opening, kind, form)
challenge_avp(kind, form)       == KindFirst(Opening, kind, form)
chalresp_avp(kind, form)        == KindFirst({"SCCRP", "SCCCN"}, kind, form)
assigned_tunnel_avp(kind, form) == KindFirst(Opening \cup {"StopCCN"}, kind, form)
assigned_call_avp(kind, form)   == KindFirst({"CDN", "ICRP", "ICRQ", "OCRP"}, kind, form)
bearer_type_avp(kind, form)     == KindFirst({"ICRQ", "OCRQ"}, kind, form)
frame_type_avp(kind, form)      == KindFirst({"ICCN", "OCRQ", "OCCN"}, kind, form)
dialing_number_avp(kind, form)  == KindFirst({"ICRQ"}, kind, form)
dialed_number_avp(kind, form)   == KindFirst({"OCRQ", "ICRQ"}, kind, form)
sub_address_avp(kind, form)     == KindFirst({"OCRP", "ICRQ"}, kind, form)
packet_delay_avp(kind, form)    == KindFirst({"ICRP", "OCRQ", "ICCN", "OCRP", "OCCN"}, kind, form)
call_serno_avp(kind, form)      == IF kind \in {"ICRQ", "OCRQ"} THEN "apply" ELSE "ignore"
rx_speed_avp(kind, form)        == KindFirst({"ICCN", "OCCN", "OCRP"}, kind, form)
tx_speed_avp(kind, form)        == KindFirst({"ICCN", "OCCN", "OCRP"}, kind, form)
call_physchan_avp(kind, form)   == KindFirst({"ICRQ", "OCRQ", "OCRP", "OCCN"}, kind, form)
receive_window_size_avp(kind, form) ==
  KindFirst(Opening \cup {"OCRP", "OCCN", "StopCCN"}, kind, form)

\* The sanity table of message_type_avp: what may come to a tunnel (its self call) or to
\* a call of it, in which states.
Sane(kind, tstate, cstate, onCall) ==
  /\ onCall => kind \notin {"SCCRQ", "SCCRP", "SCCCN", "StopCCN"}
  /\ CASE kind = "SCCRQ" -> tstate \in {"idle", "SCCRQ"}
       [] kind = "SCCRP" -> tstate = "SCCRQ"
       [] kind = "SCCCN" -> tstate = "SCCRP"
       [] kind = "ICRQ"  -> tstate = "SCCCN" /\ ~ onCall
       [] kind = "ICRP"  -> tstate = "SCCCN" /\ cstate = "ICRQ"
       [] kind = "ICCN"  -> cstate = "ICRP"
       [] kind = "SLI"   -> cstate = "ICCN"
       [] kind = "OCRP"  -> tstate = "SCCCN" /\ cstate = "OCRQ"
       [] kind = "OCCN"  -> cstate = "OCRQ"
       [] OTHER -> kind \in {"StopCCN", "CDN", "Hello"}

message_type_avp(kind, form, tstate, cstate, onCall) ==
  IF form # "size" /\ ~ Sane(kind, tstate, cstate, onCall) THEN "fail" ELSE Sized(form)

-----------------------------------------------------------------------------
Handled(attr, kind, form, tstate, cstate, onCall) ==
  CASE attr = "message type"     -> message_type_avp(kind, form, tstate, cstate, onCall)
    [] attr = "result code"      -> result_code_avp(kind, form)
    [] attr = "protocol version" -> protocol_version_avp(kind, form)
    [] attr = "framing caps"     -> framing_caps_avp(kind, form)
    [] attr = "bearer caps"      -> bearer_caps_avp(kind, form)
    [] attr = "firmware"         -> firmware_rev_avp(kind, form)
    [] attr = "host name"        -> hostname_avp(kind, form)
    [] attr = "vendor"           -> vendor_avp(kind, form)
    [] attr = "assigned tunnel"  -> assigned_tunnel_avp(kind, form)
    [] attr = "window size"      -> receive_window_size_avp(kind, form)
    [] attr = "challenge"        -> challenge_avp(kind, form)
    [] attr = "response"         -> chalresp_avp(kind, form)
    [] attr = "assigned call"    -> assigned_call_avp(kind, form)
    [] attr = "call serial"      -> call_serno_avp(kind, form)
    [] attr = "bearer type"      -> bearer_type_avp(kind, form)
    [] attr = "framing type"     -> frame_type_avp(kind, form)
    [] attr = "packet delay"     -> packet_delay_avp(kind, form)
    [] attr = "dialed number"    -> dialed_number_avp(kind, form)
    [] attr = "dialing number"   -> dialing_number_avp(kind, form)
    [] attr = "sub-address"      -> sub_address_avp(kind, form)
    [] attr = "tx speed"         -> tx_speed_avp(kind, form)
    [] attr = "rx speed"         -> rx_speed_avp(kind, form)
    [] attr = "physical channel" -> call_physchan_avp(kind, form)
    [] attr = "random vector"    -> rand_vector_avp(kind, form)
    [] attr = "sequencing"       -> seq_reqd_avp(kind, form)
    [] OTHER                     -> ignore_avp(kind, form)

\* One turn of handle_avps: "apply", "ignore" or "mark" go on to the next attribute;
\* "close" sets needclose and returns an error, "refuse" returns it without needclose.
Turn(avp, first, kind, tstate, cstate, onCall) ==
  LET unless(x) == IF avp.m THEN x ELSE "ignore"
      v == Handled(avp.attr, kind, avp.form, tstate, cstate, onCall)
  IN IF avp.attr \in Unknown THEN unless("close")
     ELSE IF avp.form \in {"long", "short"} \/ (first /\ avp.attr # "message type") THEN "close"
     ELSE IF avp.form \in {"reserved", "hidden"} THEN unless("close")
     ELSE IF avp.attr \in NoHandler THEN unless("refuse")
     ELSE IF v \in {"fail", "mark"} /\ avp.m THEN "close"
     ELSE IF v = "fail" THEN "ignore" ELSE v

\* handle_avps: the attributes whose values were kept up to the one that stops it, if
\* one does; whether needclose was set; whether it returned an error.
HandleAvps(avps, kind, tstate, cstate, onCall) ==
  LET turn == [i \in DOMAIN avps |-> Turn(avps[i], i = 1, kind, tstate, cstate, onCall)]
      bad  == {i \in DOMAIN avps : turn[i] \in {"close", "refuse"}}
      done == {i \in DOMAIN avps : \A j \in bad : i <= j}
  IN [kept   |-> {avps[i].attr : i \in {j \in done : turn[j] = "apply"}},
      close  |-> \E i \in done : turn[i] \in {"close", "mark"},
      error  |-> bad # {}]

-----------------------------------------------------------------------------
(* What xl2tpd's own messages carry.                                         *)

Body(kind) ==
  CASE kind \in Opening ->
         <<Mandatory("protocol version"), Mandatory("framing caps"), Mandatory("bearer caps"),
           Optional("firmware"), Mandatory("host name"), Optional("vendor"),
           Mandatory("assigned tunnel"), Mandatory("window size")>>
    [] kind = "StopCCN" -> <<Mandatory("assigned tunnel"), Mandatory("result code")>>
    [] kind = "ICRQ"    -> <<Mandatory("assigned call"), Mandatory("call serial"),
                             Mandatory("bearer type")>>
    [] kind \in {"ICRP", "OCRP"} -> <<Mandatory("assigned call")>>
    [] kind = "ICCN"    -> <<Mandatory("tx speed"), Mandatory("framing type"),
                             Optional("rx speed")>>
    [] kind = "OCCN"    -> <<Mandatory("tx speed"), Mandatory("framing type")>>
    [] kind = "OCRQ"    -> <<Mandatory("assigned call"), Mandatory("call serial"),
                             Mandatory("minimum bps"), Mandatory("maximum bps"),
                             Mandatory("bearer type"), Mandatory("framing type"),
                             Mandatory("dialed number")>>
    [] kind = "CDN"     -> <<Mandatory("result code"), Mandatory("assigned call")>>
    [] OTHER            -> <<>>

\* chal: the message carries a challenge; resp: it carries a response to one.
Carried(kind, chal, resp) ==
  <<Mandatory("message type")>> \o Body(kind)
     \o (IF resp THEN <<Mandatory("response")>> ELSE <<>>)
     \o (IF chal THEN <<Mandatory("challenge")>> ELSE <<>>)
=============================================================================
