------------------------------ MODULE Prefixed ------------------------------
(***************************************************************************)
(* PrefixedRegistry (metrics/registry.go): views of a StandardRegistry     *)
(* that put a prefix before every name.  A view is the chain of prefixes   *)
(* from the registry to it, each made by NewPrefixedChildRegistry; it has  *)
(* no state of its own.  A name is a sequence of letters.                  *)
(*                                                                         *)
(* GetAll and UnregisterAll of a view go to the underlying registry as     *)
(* they are and are the operations of Registry; so is any other operation, *)
(* under the name RealName.                                                *)
(***************************************************************************)
EXTENDS Registry, SequencesExt

CONSTANTS
  Letters,  \* what names and prefixes are made of
  Views     \* chains of prefixes

ASSUME PrefixedAssumption ==
  /\ \A n \in Names : n \in Seq(Letters)
  /\ \A view \in Views : view \in Seq(Seq(Letters))

\* What a view makes of a name: the k-th from the caller's side puts its prefix
\* before it.
Prefix(view, k) == view[Len(view) + 1 - k]
Longer(view, k, x) == Prefix(view, k) \o x

\* Fault: findPrefix adds every prefix at the end.
FindPrefixAppends(view) ==
  LET found[k \in 0 .. Len(view)] == IF k = 0 THEN <<>> ELSE found[k - 1] \o Prefix(view, k)
  IN found[Len(view)]

\* findPrefix climbs from the view to the registry.
FindPrefix(view) ==
  LET found[k \in 0 .. Len(view)] == IF k = 0 THEN <<>> ELSE Longer(view, k, found[k - 1])
  IN found[Len(view)]

\* Get, GetOrRegister, Register and Unregister each put their own view's prefix
\* before the name and leave the rest to the underlying view.
RealName(view, x) ==
  LET local[k \in 0 .. Len(view)] == IF k = 0 THEN x ELSE Longer(view, k, local[k - 1])
  IN local[Len(view)]

Get(view, x) ==
  IF RealName(view, x) \in Names THEN metrics[RealName(view, x)] ELSE Nil

\* Each filters the names of the registry, and passes them on in full.
Each(view) ==
  LET prefix == FindPrefix(view)
  IN {<<n, metrics[n]>> : n \in {n \in Names : metrics[n] # Nil /\ IsPrefix(prefix, n)}}
-----------------------------------------------------------------------------
\* The names that prefixes can complete to one in use.
Locals == UNION {Suffixes(n) : n \in Names}

\* Each, which looks for one prefix from the registry's side, and Get, which
\* gathers it view by view, agree for every chain of views: Each visits exactly
\* the metrics that the view can name (registry.go:230-259).
PrefixesCompose ==
  \A view \in Views :
    Each(view) = {<<RealName(view, x), Get(view, x)>> :
                    x \in {x \in Locals : Get(view, x) # Nil}}
=============================================================================
