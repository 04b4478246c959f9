---------------------------- MODULE TraceMasking ----------------------------
(***************************************************************************)
(* What trace.rs writes of an APDU exchange.  A data object is its tag; a  *)
(* field says how the object's value is shown.                             *)
(***************************************************************************)
EXTENDS Naturals

(* LogPolicy                                                               *)
Policies ==
  [mode : {"production", "certification", "development"}, support : BOOLEAN,
   fullApdu : BOOLEAN, track2Hash : BOOLEAN, cryptograms : BOOLEAN]

Production ==
  [mode |-> "production", support |-> FALSE, fullApdu |-> FALSE,
   track2Hash |-> FALSE, cryptograms |-> FALSE]
CertificationSupport ==
  [mode |-> "certification", support |-> TRUE, fullApdu |-> TRUE,
   track2Hash |-> TRUE, cryptograms |-> FALSE]

(* allows_profile_defined_trace_data; the other permissions add to it.     *)
Supported(policy)     == policy.support /\ policy.mode # "production"
AllowsFullApdu(policy) == policy.fullApdu /\ Supported(policy)

(* Never shown, whatever the policy: ARPC data, SDAD, ICC dynamic number,  *)
(* script commands and identifiers, PIN blocks.                            *)
AlwaysSuppressed == {"91", "9F4B", "9F4C", "86", "9F18", "99"}

(* Mutant: the arm of the PIN block is missing.                            *)
Shown_NoPinArm(tag, policy) ==
  CASE tag = "5A" -> "pan"
    [] tag \in {"91", "9F4B", "9F4C", "86", "9F18"} -> "suppressed"
    [] tag = "57" -> IF policy.track2Hash /\ Supported(policy) THEN "hash" ELSE "suppressed"
    [] tag = "9F26" /\ ~(policy.cryptograms /\ Supported(policy)) -> "suppressed"
    [] tag = "9F10" /\ ~Supported(policy) -> "suppressed"
    [] OTHER -> "hex"

(* mask_tlv_value: of the PAN, the last four digits.                       *)
Shown(tag, policy) ==
  CASE tag = "5A" -> "pan"
    [] tag \in AlwaysSuppressed -> "suppressed"
    [] tag = "57" -> IF policy.track2Hash /\ Supported(policy) THEN "hash" ELSE "suppressed"
    [] tag = "9F26" /\ ~(policy.cryptograms /\ Supported(policy)) -> "suppressed"
    [] tag = "9F10" /\ ~Supported(policy) -> "suppressed"
    [] OTHER -> "hex"

(* A response is empty, no TLV, a sequence of data objects, or one of the  *)
(* two templates.  What Format 1 of GENERATE AC holds has no tags of its   *)
(* own: `objects' says what is at its places.  `fixtures': the tags whose  *)
(* value has in it one that the audit of a pack looks for.                 *)
Tags == {"5A", "57", "82", "9F26", "9F27", "9F36", "9F10"} \cup AlwaysSuppressed
Responses ==
  [form : {"empty", "malformed", "plain", "77", "80"}, objects : SUBSET Tags,
   fixtures : SUBSET (Tags \cup {"80"})]
Contexts  == {"generic", "generateAc"}

(* Such a value can be read (`raw') where the whole value is shown.        *)
Field(tag, response, policy) ==
  LET shown == Shown(tag, policy)
  IN  [tag |-> tag, shown |-> shown, raw |-> shown = "hex" /\ tag \in response.fixtures]

(* parse_format_1 and parse_format_2 fail without these.                   *)
GacMandatory == {"9F27", "9F36", "9F26"}
GacObjects   == GacMandatory \cup {"9F10", "9F4C", "9F4B"}

(* Whether mask_apdu_response succeeds.                                    *)
Maskable(response, context) ==
  CASE context = "generic" -> response.form # "malformed"
    [] context = "generateAc" ->
         response.form \in {"77", "80"} /\ GacMandatory \subseteq response.objects

(* mask_tlv_stream and mask_generate_ac_response: one field per object,    *)
(* two more for a template: a constructed one is suppressed, the value of  *)
(* a primitive one shown as a whole.                                       *)
Fields(response, context, policy) ==
  CASE context = "generateAc" ->
         {Field(t, response, policy) : t \in response.objects \cap GacObjects}
    [] context = "generic" /\ response.form \in {"empty", "malformed"} -> {}
    [] context = "generic" /\ response.form = "80" -> {Field("80", response, policy)}
    [] context = "generic" /\ response.form = "77" ->
         {[tag |-> "77", shown |-> "suppressed", raw |-> FALSE]}
           \cup {Field(t, response, policy) : t \in response.objects}
    [] context = "generic" /\ response.form = "plain" ->
         {Field(t, response, policy) : t \in response.objects}

(* A command is VERIFY or another, with data or without.                   *)
Commands     == [verify : BOOLEAN, data : BOOLEAN]
PinVerify(c) == c.verify /\ c.data

(* mask_apdu_command                                                       *)
CommandData(command, policy) ==
  IF PinVerify(command) THEN "pin-verify-data"
  ELSE IF AllowsFullApdu(policy) THEN "hex" ELSE "full-apdu-disabled"

(* Mutant: a VERIFY is recorded like any command.                          *)
Replayable_Verify(exchange) == TRUE

(* ReplayExchange::new refuses a VERIFY that carries a PIN.                *)
Replayable(exchange) == ~PinVerify(exchange.command)
=============================================================================
