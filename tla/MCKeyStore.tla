---------------------------- MODULE MCKeyStore ----------------------------
(* Workloads, symmetries and small instances of KeyStore for TLC. *)
EXTENDS KeyStoreInv, TLC

Raw(fold, upper, padded) == [fold |-> fold, upper |-> upper, padded |-> padded]

\* Administrators: a padded label, the same one in capitals, a second label
AdminCalls ==
    {Op("init", n, Nil) : n \in Namespaces}
      \cup {Op("issue", n, l) : n \in Namespaces,
              l \in {Raw("a", FALSE, TRUE), Raw("a", TRUE, FALSE)}}
      \cup {Op("issue", n, Raw("b", FALSE, FALSE)) : n \in Namespaces}
      \cup {Op("revoke", n, i) : n \in Namespaces, i \in Ids}

\* Keys come and go in one namespace, where two may share an id, while another
\* gets a key with the same label and maybe the same id; a server tries every
\* token in both, and one that does not parse
TokenCalls ==
    {Op("init", "ns", Nil)}
      \cup {Op("issue", "ns", Raw(f, FALSE, FALSE)) : f \in {"a", "b"}}
      \cup {Op("issue", "other", Raw("a", FALSE, FALSE))}
      \cup {Op("revoke", "ns", i) : i \in Ids}
      \cup {Op("auth", n, t) : n \in Namespaces, t \in Tokens}
      \cup {Op("auth", "ns", Nil)}

\* The calls that take a lock, one that does not, and bad namespace names
LockingCalls ==
    {Op("init", n, Nil) : n \in Namespaces}
      \cup {Op("issue", n, Raw("a", FALSE, FALSE)) : n \in Namespaces}
      \cup {Op("revoke", n, i) : n \in Namespaces, i \in Ids}
      \cup {Op("list", n, Nil) : n \in Namespaces}
      \cup {Op(kind, n, Nil) : kind \in {"init", "auth"}, n \in BadNames}

\* The processes and the random ids are interchangeable
ProcsAndIds == Permutations(Procs) \cup Permutations(Ids)
===========================================================================
