------------------------------- MODULE MCDns -------------------------------
(* Instance of Dns: a DNS service on each of two hosts that includes the common *)
(* provider, a web service that comes and goes, a forward zone, a reverse zone  *)
(* and an external one; and catalogues that break one thing each.               *)
EXTENDS Dns

TwoHosts == <<"phobos", "deimos">>

A(zone, name, at, ptr) == [zone |-> zone, type |-> "A", name |-> name, at |-> at, ptr |-> ptr]

Entries1 ==
  [phobos |-> <<A("svc", "phobos", "phobos", TRUE), A("svc", "dmz", "dmz", TRUE)>>,
   deimos |-> <<A("svc", "deimos", "deimos", TRUE),
                [A("svc", "ns", "phobos", FALSE) EXCEPT !.type = "CNAME"]>>,
   web    |-> <<A("svc", "web", "web", TRUE), A("out", "web", "web", FALSE),
                [A("20.20.172", "9", "alias", FALSE) EXCEPT !.type = "PTR"]>>,
   mail   |-> <<A("svc", "mail", "deimos", TRUE)>>]

Addresses ==
  [phobos |-> <<"172", "20", "20", "10">>, deimos |-> <<"172", "20", "20", "11">>,
   dmz |-> <<"172", "20", "100", "10">>, web |-> <<"172", "20", "20", "20">>]

SomeNetworks ==
  { [address |-> Addresses, entries |-> Entries1],
    [address |-> [Addresses EXCEPT !.web = <<"172", "20", "100", "20">>],
     entries |-> Entries1],
    [address |-> Addresses,
     entries |-> [Entries1 EXCEPT !.web = <<A("svc", "web", "lost", FALSE)>>]] }

SomeMappings ==
  { [phobos |-> <<"dns-a", "web">>, deimos |-> <<"dns-b">>],
    [phobos |-> <<"dns-a">>, deimos |-> <<"dns-b", "unlisted">>],
    [phobos |-> <<"dns-a", "web">>, deimos |-> <<"dns-b", "web">>],
    [phobos |-> <<"dns-a", "web">>, deimos |-> <<>>],
    \* a service without a definition, on the other host
    [phobos |-> <<"dns-a">>, deimos |-> <<"dns-b", "gone">>],
    [phobos |-> <<"dns-a", "dns-b">>, deimos |-> <<"dns-b">>] }

Zone(name, labels, internal) ==
  [name |-> name, labels |-> labels, internal |-> internal,
   provider |-> IF internal THEN "common" ELSE "dedyn", serial |-> internal, ip6 |-> FALSE]

Forward == Zone("svc", <<>>, TRUE)
ReverseZone == Zone("20.20.172", <<"20", "20", "172">>, TRUE)
External == Zone("out", <<>>, FALSE)

File(zone, template, perZone) ==
  [zone |-> zone, template |-> template, path |-> "zones", perZone |-> perZone]

Files1 == [s \in {"common", "dns-a", "dns-b", "web", "mid", "unlisted"} |->
            IF s = "common" THEN <<<<File("*", "t", TRUE)>>>> ELSE <<>>]
Includes1 == [s \in DOMAIN Files1 |->
               CASE s = "dns-a" -> <<"common">>
                 [] s = "dns-b" -> <<"mid", "common">>
                 [] s = "mid" -> <<"common">>
                 [] OTHER -> <<>>]

Good == [zones |-> <<Forward, ReverseZone, External>>, includes |-> Includes1,
         files |-> Files1]

SoundCatalogue == {Good}

SomeCatalogues ==
  { Good,
    \* an exact entry beside the general one, to a file of its own and to the same
    [Good EXCEPT !.files["common"] =
      <<<<[File("svc", "u", TRUE) EXCEPT !.path = "extra"], File("*", "t", TRUE)>>>>],
    [Good EXCEPT !.files["common"] = <<<<File("*", "t", TRUE), File("svc", "u", TRUE)>>>>],
    \* one file for all zones
    [Good EXCEPT !.files["common"] = <<<<File("*", "t", FALSE)>>>>],
    \* one zone of two providers
    [Good EXCEPT !.zones = <<Forward, [Forward EXCEPT !.provider = "dns-a"]>>],
    \* overridden in the chain, on one host only
    [Good EXCEPT !.files["mid"] = <<<<File("svc", "u", TRUE)>>>>],
    [Good EXCEPT !.files["common"] = <<<<>>>>],
    [Good EXCEPT !.files["common"] = <<<<File("*", "", TRUE)>>>>],
    [Good EXCEPT !.files["common"] = <<<<File("svc", "t", TRUE)>>>>],
    [Good EXCEPT !.includes["common"] = <<"mid">>],
    [Good EXCEPT !.includes["common"] = <<"gone">>],
    [Good EXCEPT !.zones = <<Forward, [External EXCEPT !.provider = NoProvider]>>],
    [Good EXCEPT !.zones = <<Forward, [ReverseZone EXCEPT !.ip6 = TRUE]>>],
    [Good EXCEPT !.zones = <<[Forward EXCEPT !.serial = FALSE]>>] }

SomeServices == {"common", "dns-a", "dns-b", "web", "mid", "unlisted", "gone"}

SomeSerials == {[date |-> 1, counter |-> 0], [date |-> 1, counter |-> 1]}
=============================================================================
