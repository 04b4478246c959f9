-------------------------- MODULE MCTerminalChecks --------------------------
(***************************************************************************)
(* TerminalChecks for TLC: two profile sets of three applications, cards   *)
(* with and without a directory, transactions above and below the limits.  *)
(***************************************************************************)
EXTENDS TerminalChecks, TLC

D(year, month, day) == [year |-> year, month |-> month, day |-> day]

(* Two AIDs of one scheme, the second a prefix of what a card lists.       *)
Credit == <<160, 0, 0, 0, 3>>
Debit  == <<160, 0, 0, 0, 4>>
DebitOfBank == Debit \o <<1>>

NoCodes == [kind \in CodeKinds |-> {}]
Codes == [NoCodes EXCEPT
  !["denial"]  = {"ExpiredApplication"},
  !["online"]  = {"FloorLimitExceeded", "LowerOfflineLimit", "RandomSelection",
                  "UpperOfflineLimit", "ServiceNotAllowed", "NotYetEffective"},
  !["default"] = {"FloorLimitExceeded", "UpperOfflineLimit"}]
Defaults == [unableOnlineFallback |-> "Aac", onlineCapableDefault |-> "Tc",
             offlineOnlyDefault |-> "Tc"]

Trm(floor, typeLimits, percent, lower, upper) ==
  [floor |-> floor, typeLimits |-> typeLimits, percent |-> percent,
   lower |-> lower, upper |-> upper]
Plain   == Trm(1, <<>>, 0, {}, {1})
Sampled == Trm(1, <<[type |-> 1, limit |-> 0], [type |-> 0, limit |-> 2]>>, 50, {0}, {1})

App(aid, index, priority, partial, interfaces, trm) ==
  [aid |-> aid, scheme |-> 0, index |-> index, priority |-> priority,
   partial |-> partial, interfaces |-> interfaces, kernels |-> Interfaces,
   trm |-> trm, tac |-> Codes, taa |-> Defaults]

SomeProfileSets ==
  {{App(Credit, 0, 2, FALSE, Interfaces, Plain),
    App(Debit, 1, 1, TRUE, Interfaces, Sampled)},
   {App(Debit, 0, 3, TRUE, {"contact"}, Plain),
    App(Credit, 1, 2, FALSE, {"contactless"}, Plain),
    App(DebitOfBank, 2, 4, FALSE, {"contact"}, Plain)}}

Uses(services, channels) == [services |-> services, channels |-> channels]
Data(expiration, effective, country, auc) ==
  [expiration |-> expiration, effective |-> effective, version |-> {1},
   country |-> country, auc |-> {auc}, wellFormed |-> TRUE]
Everything == Uses(Regions \X Services, Channels)
AtHome     == Uses({"domestic"} \X {"goods"}, Channels)
Valid      == Data({D(26, 12, 31)}, {D(26, 3, 1)}, {840}, AtHome)
Directory(status, entries) ==
  [status |-> status, wellFormed |-> TRUE, entries |-> entries]
Card(directory, names, data) ==
  [directory |-> directory, adfs |-> [name \in names |-> name], data |-> data,
   iac |-> NoCodes]

SomeCards ==
  {Card(Directory("selected", <<Credit, DebitOfBank>>), {Credit, Debit, DebitOfBank}, Valid),
   Card(Directory("selected", <<DebitOfBank, Credit>>), {Credit}, Valid),
   Card(Directory("selected", <<>>), {Debit, Credit},
        Data({D(26, 3, 1)}, {}, {840}, Everything)),
   Card(Directory("notFound", <<>>), {DebitOfBank, Credit},
        Data({D(26, 2, 28)}, {}, {124}, Everything)),
   Card(Directory("notFound", <<>>), {Debit}, [Valid EXCEPT !.country = {}]),
   Card(Directory("selected", <<Credit, Credit>>), {Credit}, Valid),
   Card(Directory("selected", <<Debit, DebitOfBank>>), {Debit}, Valid),
   Card(Directory("refused", <<>>), {Credit}, Valid),
   [Card(Directory("notFound", <<>>), {Debit}, Valid) EXCEPT
      !.adfs = (Debit :> DebitOfBank)]}

Txn(interface, amount, type, onlineCapable) ==
  [interface |-> interface, amount |-> amount, type |-> type, terminalType |-> 34,
   country |-> 840, onlineCapable |-> onlineCapable]
SomeTransactions ==
  {Txn("contact", 1, 0, TRUE), Txn("contact", 2, 0, TRUE), Txn("contactless", 1, 0, FALSE),
   Txn("contact", 1, 1, TRUE)}

SomeSamples  == {4999, 5000, 10000}
SomeCalendar == <<D(26, 2, 28), D(26, 3, 1), D(27, 1, 1)>>
SomeOtherBits == {"CvmNotSuccessful"}
=============================================================================
