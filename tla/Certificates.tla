---------------------------- MODULE Certificates ----------------------------
(***************************************************************************)
(* The certificate manager: the loop that obtains and renews the           *)
(* certificate of the node over ACME, the handshakes that read its two     *)
(* certificates, admins who change the domain meanwhile, and the death of  *)
(* the process at any point.                                               *)
(*                                                                         *)
(* A certificate is its domain and whether it is due for renewal (it is    *)
(* expired, or will be within 30 days).  A transaction of the store is one *)
(* step; module Settings has what dbstore makes of it.                     *)
(***************************************************************************)
EXTENDS Naturals

CONSTANTS
    Domains,    \* domains an admin may configure
    MaxKeys,    \* bound: account keys generated; one more than can be lost
    MaxChanges  \* bound: changes of the domain, failures, deaths and expiries, each

None == [domain |-> "none", due |-> FALSE]
Certificate == [domain : Domains, due : BOOLEAN]

VARIABLES
    domain,      \* Certificate.Domain of the configuration; the email is set with it
    stored,      \* the certificate and the account key in the configuration
    served,      \* Manager.certificate
    challenge,   \* Manager.challengeCertificate: the account key that it proves, 0 for none
    client,      \* Manager.acmeClient: its key, 0 for none
    loop,        \* the goroutine: where it is, and what it has read
    authority,   \* external: the accounts, and the authorization that is pending or valid
    keys,        \* the keys generated so far
    changes      \* how often each of the bounded things happened

vars == <<domain, stored, served, challenge, client, loop, authority, keys, changes>>

Resting == [pc |-> "rest"]

Init ==
    /\ domain = "none"
    /\ stored = [certificate |-> None, account |-> 0]
    /\ served = None /\ challenge = 0 /\ client = 0
    /\ loop = Resting
    /\ authority = [accounts |-> {}, state |-> "none"]
    /\ keys = 0
    /\ changes = [domain |-> 0, fault |-> 0, death |-> 0, age |-> 0]

Count(kind) == changes[kind] < MaxChanges /\ changes' = [changes EXCEPT ![kind] = @ + 1]
Kept == UNCHANGED changes

SetDomain(d) ==
    /\ Count("domain")
    /\ domain' = d
    /\ UNCHANGED <<stored, served, challenge, client, loop, authority, keys>>

(* While the loop rests a certificate comes within 30 days of its end. *)
Aged(certificate) == IF certificate = None THEN None ELSE [certificate EXCEPT !.due = TRUE]
Age ==
    /\ loop.pc = "rest" /\ Count("age")
    /\ stored' = [stored EXCEPT !.certificate = Aged(@)]
    /\ served' = Aged(served)
    /\ UNCHANGED <<domain, challenge, client, loop, authority, keys>>

-----------------------------------------------------------------------------
(* Mutant of ShouldRenew: the host name is not verified. *)
ShouldRenewByTime(d) == served = None \/ served.due

(* shouldRenew: no certificate, or one that is due or of another domain. *)
ShouldRenew(d) == served = None \/ served.due \/ served.domain # d

(* spin, each five minutes. *)
Spin ==
    /\ loop.pc = "rest" /\ domain # "none"
    /\ ShouldRenew(domain)
    /\ loop' = [pc |-> "begin"]
    /\ Kept /\ UNCHANGED <<domain, stored, served, challenge, client, authority, keys>>

(* EnsureCertificate reads the configuration again; ensureACMEClient has a  *)
(* client, or takes the key of the configuration, or generates one.         *)
EnsureCertificate ==
    /\ loop.pc = "begin"
    /\ \/ client # 0 /\ loop' = [pc |-> "order", domain |-> domain, key |-> client] /\ UNCHANGED keys
       \/ /\ client = 0 /\ stored.account # 0
          /\ loop' = [pc |-> "register", domain |-> domain, key |-> stored.account]
          /\ UNCHANGED keys
       \/ /\ client = 0 /\ stored.account = 0 /\ keys < MaxKeys
          /\ keys' = keys + 1
          /\ loop' = [pc |-> "keep", domain |-> domain, key |-> keys']
    /\ Kept /\ UNCHANGED <<domain, stored, served, challenge, client, authority>>

Goes(pc) == loop' = [loop EXCEPT !.pc = pc]

(* Mutant of PersistAccountKey: the account is registered first. *)
RegisterFirst == UNCHANGED stored

(* The new account key is written to the configuration. *)
PersistAccountKey == stored' = [stored EXCEPT !.account = loop.key]

KeepKey ==
    /\ loop.pc = "keep"
    /\ PersistAccountKey
    /\ Goes("register")
    /\ Kept /\ UNCHANGED <<domain, served, challenge, client, authority, keys>>

(* Register: an account that exists already is fine.                        *)
Register ==
    /\ loop.pc = "register"
    /\ authority' = [authority EXCEPT !.accounts = @ \cup {loop.key}]
    /\ client' = loop.key
    /\ Goes("order")
    /\ Kept /\ UNCHANGED <<domain, stored, served, challenge, keys>>

(* AuthorizeOrder and GetAuthorization: an authorization that is not        *)
(* pending any more needs no challenge.                                     *)
AuthorizeOrder ==
    /\ loop.pc = "order"
    /\ \/ authority' = [authority EXCEPT !.state = "valid"] /\ Goes("finalize")
       \/ authority' = [authority EXCEPT !.state = "pending"] /\ Goes("challenge")
    /\ Kept /\ UNCHANGED <<domain, stored, served, challenge, client, keys>>

(* buildAlpnCertificate, for the token and the key of the client.           *)
InstallChallenge ==
    /\ loop.pc = "challenge"
    /\ challenge' = loop.key
    /\ Goes("wait")
    /\ Kept /\ UNCHANGED <<domain, stored, served, client, authority, keys>>

(* The authority connects and asks for acme-tls/1: GetCertificate answers   *)
(* with the challenge certificate.  Or it does not reach the node.          *)
GetChallengeCertificate ==
    /\ loop.pc = "wait" /\ authority.state = "pending"
    /\ \/ /\ challenge = loop.key
          /\ authority' = [authority EXCEPT !.state = "valid"]
          /\ Kept
       \/ /\ authority' = [authority EXCEPT !.state = "invalid"]
          /\ Count("fault")
    /\ UNCHANGED <<domain, stored, served, challenge, client, loop, keys>>

ClearChallenge == challenge' = 0

WaitAuthorization ==
    /\ loop.pc = "wait" /\ authority.state # "pending"
    /\ ClearChallenge
    /\ IF authority.state = "valid" THEN Goes("finalize") ELSE loop' = Resting
    /\ Kept /\ UNCHANGED <<domain, stored, served, client, authority, keys>>

(* WaitOrder and CreateOrderCert.                                           *)
Finalize ==
    /\ loop.pc = "finalize"
    /\ loop' = [pc |-> "persist", certificate |-> [domain |-> loop.domain, due |-> FALSE]]
    /\ Kept /\ UNCHANGED <<domain, stored, served, challenge, client, authority, keys>>

(* Mutant of PersistCertificate: what was stored stays. *)
PersistNothing == UNCHANGED stored

(* persistCertificate: chain, key and times in one modification.            *)
PersistCertificate == stored' = [stored EXCEPT !.certificate = loop.certificate]

Persist ==
    /\ loop.pc = "persist"
    /\ PersistCertificate
    /\ Goes("serve")
    /\ Kept /\ UNCHANGED <<domain, served, challenge, client, authority, keys>>

(* Only then it is served.                                                  *)
Serve ==
    /\ loop.pc = "serve"
    /\ served' = loop.certificate
    /\ loop' = Resting
    /\ Kept /\ UNCHANGED <<domain, stored, challenge, client, authority, keys>>

(* Mutant of Abandon: the challenge stays. *)
AbandonKeeping == loop' = Resting /\ UNCHANGED challenge

(* A return with an error: the challenge is cleared where there is one.     *)
Abandon == loop' = Resting /\ IF loop.pc = "wait" THEN ClearChallenge ELSE UNCHANGED challenge

(* A request, or a write of the configuration, fails, or the five minutes   *)
(* of the context are over.                                                 *)
Fail ==
    /\ loop.pc \notin {"rest", "begin", "challenge", "serve"}
    /\ Count("fault")
    /\ Abandon
    /\ UNCHANGED <<domain, stored, served, client, authority, keys>>

(* The process dies; Start loads the certificate of the configuration.      *)
Restart ==
    /\ Count("death")
    /\ loop' = Resting /\ challenge' = 0 /\ client' = 0
    /\ served' = stored.certificate
    /\ UNCHANGED <<domain, stored, authority, keys>>

-----------------------------------------------------------------------------
Loop == \/ Spin \/ EnsureCertificate \/ KeepKey \/ Register \/ AuthorizeOrder \/ InstallChallenge
        \/ WaitAuthorization \/ Finalize \/ Persist \/ Serve

Next == Loop \/ GetChallengeCertificate \/ Fail \/ Restart \/ Age \/ \E d \in Domains : SetDomain(d)

Spec == Init /\ [][Next]_vars

(* The loop goes on, and the authority answers.                             *)
Fairness == WF_vars(Loop) /\ WF_vars(GetChallengeCertificate)
FairSpec == Spec /\ Fairness

-----------------------------------------------------------------------------
TypeOK ==
    /\ domain \in Domains \cup {"none"}
    /\ stored.certificate \in {None} \cup Certificate /\ stored.account \in 0..MaxKeys
    /\ served \in {None} \cup Certificate
    /\ challenge \in 0..MaxKeys /\ client \in 0..MaxKeys
    /\ loop.pc \in {"rest", "begin", "keep", "register", "order", "challenge", "wait", "finalize", "persist", "serve"}
    /\ authority.accounts \subseteq 1..MaxKeys /\ authority.state \in {"none", "pending", "valid", "invalid"}
    /\ keys \in 0..MaxKeys

(* What is served survives the death of the process: it is in the           *)
(* configuration, but for the moment in which its successor is.  And no     *)
(* challenge certificate is left when the loop rests, however it came to.   *)
ServedIsKept ==
    /\ served # None => served = stored.certificate \/ (loop.pc = "serve" /\ stored.certificate # None)
    /\ loop.pc = "rest" => challenge = 0

(* However often a request fails and the process dies, one account is       *)
(* registered with the authority.                                           *)
OneAccount == authority.accounts \subseteq {stored.account} \ {0}

(* When the domain is not changed any more, a certificate of that domain,   *)
(* which is not due, comes to be served.                                    *)
CertificateComes ==
    \A d \in Domains : <>[](domain = d) => <>[](served # None /\ served.domain = d /\ ~served.due)
=============================================================================
