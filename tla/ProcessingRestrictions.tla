----------------------- MODULE ProcessingRestrictions -----------------------
(***************************************************************************)
(* Dates and the processing restrictions, src/restrictions.rs.  A value    *)
(* that may be absent is a set of at most one element.                     *)
(***************************************************************************)
EXTENDS Naturals

Optional(S) == \A x, y \in S : x = y
TheOnly(S)  == CHOOSE x \in S : TRUE

(* EmvDate: the year is two digits.                                        *)
DateShapes == [year : 0..99, month : 0..99, day : 0..99]

DaysIn(month, year) ==
  IF month \in {4, 6, 9, 11} THEN 30
  ELSE IF month # 2 THEN 31
  ELSE IF year % 4 = 0 THEN 29 ELSE 28

(* EmvDate::new; from_bcd applies it to the digits of the card's object.   *)
ValidDate(date) ==
  /\ date \in DateShapes
  /\ date.month \in 1..12
  /\ date.day \in 1..DaysIn(date.month, date.year)

Earlier(a, b) ==
  \/ a.year < b.year
  \/ a.year = b.year /\ a.month < b.month
  \/ a.year = b.year /\ a.month = b.month /\ a.day < b.day

Regions  == {"domestic", "international"}
Services == {"cash", "goods", "services", "cashback"}
Channels == {"atm", "other"}

(* ApplicationUsageControl: the pairs and channels whose bits are set.     *)
UsageControls == [services : SUBSET (Regions \X Services), channels : SUBSET Channels]

Allows(auc, region, service, channel) ==
  <<region, service>> \in auc.services /\ channel \in auc.channels

(* RestrictionInput                                                        *)
RestrictionInputs ==
  [date : DateShapes, expiration : DateShapes, effective : SUBSET DateShapes,
   cardVersion : SUBSET Nat, terminalVersion : SUBSET Nat, auc : UsageControls,
   region : Regions, service : Services, channel : Channels, newCard : BOOLEAN]

Bit(condition, name) == IF condition THEN {name} ELSE {}

(* evaluate: the TVR bits of the checks that fail, in whatever order       *)
(* RESTRICTION_CHECK_ORDER has, since each only sets its own bit.          *)
Failed(input) ==
  Bit(\E c \in input.cardVersion, t \in input.terminalVersion : c # t,
      "DifferentVersions")
  \cup Bit(Earlier(input.expiration, input.date), "ExpiredApplication")
  \cup Bit(\E e \in input.effective : Earlier(input.date, e), "NotYetEffective")
  \cup Bit(~Allows(input.auc, input.region, input.service, input.channel),
           "ServiceNotAllowed")
  \cup Bit(input.newCard, "NewCard")

(* TransactionType::runtime_service and service_type: 01, 09 and 17 (hex). *)
ServiceOf(type) ==
  IF type = 1 THEN "cash" ELSE IF type \in {9, 23} THEN "cashback" ELSE "goods"

(* terminal_channel: terminal types 14 and 24 (hex).                       *)
ChannelOf(terminalType) == IF terminalType \in {20, 36} THEN "atm" ELSE "other"

(* What the records say; wellFormed: no object of a wrong length or date.  *)
RestrictionData ==
  [expiration : SUBSET DateShapes, effective : SUBSET DateShapes,
   version : SUBSET Nat, country : SUBSET Nat, auc : SUBSET UsageControls,
   wellFormed : BOOLEAN]

(* run_processing_restrictions fails without these.                        *)
DataSuffices(data) ==
  /\ data.wellFormed /\ data.expiration # {} /\ data.country # {} /\ data.auc # {}
  /\ \A e \in data.expiration \cup data.effective : ValidDate(e)

(* The input it evaluates: it has no terminal version and no new card.     *)
RestrictionInput(data, params, date) ==
  [date |-> date, expiration |-> TheOnly(data.expiration),
   effective |-> data.effective, cardVersion |-> data.version,
   terminalVersion |-> {}, auc |-> TheOnly(data.auc),
   region |-> IF TheOnly(data.country) = params.country
              THEN "domestic" ELSE "international",
   service |-> ServiceOf(params.type), channel |-> ChannelOf(params.terminalType),
   newCard |-> FALSE]
=============================================================================
