-------------------------- MODULE MCSecretStorage --------------------------
(* Instances of SecretStorage for model checking.  From the initial state  *)
(* either the storage is used, or a key is spelled, one character at a     *)
(* time, to see what cleanKey makes of it.                                 *)
EXTENDS SecretStorage

CONSTANT MaxLength   \* of the key that is spelled

VARIABLE spelled

\* "a/b" and "A_b" are one secret; "a/b1" begins like it.
ThreeKeys == {<<"a", "/", "b">>, <<"A", "_", "b">>, <<"a", "/", "b", "1">>}
TwoFolders == {<<"a", "/">>, <<"a", "/", "b">>}

\* Clients, and values, can be exchanged for each other.
Symmetry == Permutations(Clients) \cup Permutations(Values)

Characters == {"a", "B", "1", "-", "/", "."}

\* The storage has not been used, or nothing is left of it.
Untouched ==
    /\ \A n \in Names : secrets[n] = None
    /\ \A c \in Clients : calls[c] = Idle
    /\ limbo = {}

Use == spelled = <<>> /\ Next /\ UNCHANGED spelled

Spell ==
    /\ Untouched /\ UNCHANGED vars
    /\ \/ /\ Len(spelled) < MaxLength
          /\ \E c \in Characters : spelled' = Append(spelled, c)
       \/ /\ Len(spelled) = MaxLength
          /\ spelled' = <<>>

MCInit == Init /\ spelled = <<>>
MCNext == Use \/ Spell
MCSpec == MCInit /\ [][MCNext]_<<vars, spelled>>
-----------------------------------------------------------------------------
Alphanumeric == Lowercase \cup Digits

\* With the prefix, which ends in "ingress--", a key that has a letter or a digit becomes
\* a name of the form Kubernetes asks for: letters, digits, dashes and dots, no label that
\* begins or ends with a dash, none that is empty.  Its limit of 253 characters is no part
\* of this: cleanKey does not shorten a key.
WellFormedName ==
    LET name == cleanKey(spelled)
        at(i) == name[i]
    IN  (\E i \in DOMAIN spelled : spelled[i] \in Lowercase \cup Uppercase \cup Digits) =>
            /\ name # <<>> /\ at(Len(name)) \in Alphanumeric /\ at(1) # "."
            /\ \A i \in DOMAIN name : at(i) \in Alphanumeric \cup {"-", "."}
            /\ \A i \in DOMAIN name \ {1} :
                  at(i) = "." => at(i - 1) \in Alphanumeric /\ at(i + 1) \in Alphanumeric

\* List answers with cleaned keys: they name the same secrets as the keys they were
\* stored under, so that what is listed can be loaded and deleted.
ListedKeysLoad == cleanKey(cleanKey(spelled)) = cleanKey(spelled)

\* List finds every key below a folder, wherever the folder is cut off: trimming the end of
\* the folder's name never asks for more than the key's name has.
FolderFindsKeys ==
    \A n \in 0 .. Len(spelled) :
        IsPrefix(cleanKey(SubSeq(spelled, 1, n)), cleanKey(spelled))
=============================================================================
