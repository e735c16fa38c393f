----------------------------- MODULE MCDeviceReader -----------------------------
(* A small instance of DeviceReader for TLC: two callers of one router or   *)
(* of two, one reads it whole and one asks for a package some routers lack. *)
(* The values have quotes, backslashes, blanks and nothing in them.         *)
EXTENDS DeviceReader, TLC
CONSTANTS all, one, natal, buzios, old, new

Value(kind, key, value) == [kind |-> kind, key |-> <<key>>, value |-> value]
Section(name, entries) == [kind |-> <<"t">>, name |-> name, entries |-> entries]
P(name, sections) == [name |-> <<name>>, sections |-> sections]

Docs ==
  {<<P("p", <<Section(<<"n", "'">>, <<Value(Option, "k", <<"a", "'", "\\", "'", "'">>),
                                    Value(List, "l", <<"\\", " ">>), Value(List, "l", <<>>)>>),
              Section(Anonymous, <<>>)>>)>>,
   <<P("q", <<>>), P("p", <<Section(Anonymous, <<Value(Option, "k", <<" ", "'", "'">>)>>)>>)>>,
   <<P("q", <<>>)>>}

Asked == all :> Whole @@ one :> <<"p">>
To(host, policy) == [host |-> host, policy |-> policy]
Where ==
  {all :> To(natal, "pinned") @@ one :> To(natal, "pinned"),
   all :> To(natal, "pinned") @@ one :> To(buzios, "pinned"),
   all :> To(natal, "pinned") @@ one :> To(natal, "first use"),
   all :> To(natal, "pinned") @@ one :> To(buzios, "first use"),
   all :> To(natal, "any") @@ one :> To(buzios, "first use")}
Bounds == "edit" :> 1 @@ "replace" :> 1 @@ "crash" :> 1 @@ "tear" :> 1 @@ "fault" :> 1
=============================================================================
