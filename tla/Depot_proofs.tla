---------------------------- MODULE Depot_proofs ----------------------------
(***************************************************************************)
(* Theorems about Depot, for any number of requests, emails, codes, keys   *)
(* and adhesions.                                                          *)
(***************************************************************************)
EXTENDS Depot, TLAPS

\* The steps of a deposit once its code was accepted.
Acceptees == {"effacer", "email", "cni", "carte", "inserer"}

\* What a request holds: the form it is about, attempts below the limit when it
\* is about to count one more, a code its address received, an adhesion made of
\* its form.
Tient(r) == LET q == req[r] IN
  /\ q.etape # "repos" => q.email \in Emails
  /\ q.etape \in Acceptees \cup {"cle", "verifier"} => q.pieces \in Pieces
  /\ q.etape = "compter" => q.lu \in 0..(MaxEssais - 1)
  /\ q.etape \in Acceptees \cup {"enregistrer"} => <<q.email, q.code>> \in recus
  /\ q.etape = "repondu" =>
       /\ q.rep \in Adhesions /\ adhesion[q.rep].etat # "libre"
       /\ adhesion[q.rep].origine \in {<<q.email, q.pieces>>, Aucun}

\* The row of a code names a code its address received; whoever deleted it is
\* depositing for that address.
Ligne(e) ==
  /\ otp[e].code # Aucun => <<e, otp[e].code>> \in recus
  /\ tient[e] # Aucun => /\ req[tient[e]].email = e
                         /\ req[tient[e]].etape \in {"email", "cni", "carte", "inserer"}

IInv ==
  /\ TypeOK
  /\ SansDoublon
  /\ \A r \in Requetes : Tient(r)
  /\ \A e \in Emails : Ligne(e)

-----------------------------------------------------------------------------
(* Types *)

LignesOtp == [code : Codes \cup {Aucun}, essais : 0..MaxEssais, age : Ages]
LignesAdhesion ==
  [etat : {"libre", "vivante", "supprimee"}, email : Emails \cup {Aucun},
   pieces : Pieces \cup {Aucun}, cle : Cles \cup {Aucun}, origine : Payloads \cup {Aucun}]
EtatsRequete ==
  [etape : Etapes, email : Emails \cup {Aucun}, pieces : Pieces \cup {Aucun},
   cle : Cles \cup {Aucun}, code : Codes \cup {Aucun},
   lu : 0..MaxEssais \cup {Aucun}, rep : Adhesions \cup {Aucun}]

\* The rows and requests a step may put back.
LEMMA Vides ==
  /\ SansCode \in LignesOtp
  /\ Repos \in EtatsRequete
  /\ \A etat \in {"libre", "supprimee"} : SansAdhesion(etat) \in LignesAdhesion
BY HypMax DEF SansCode, LignesOtp, Ages, Repos, EtatsRequete, Etapes, SansAdhesion,
              LignesAdhesion

\* A request that ends, or only moves, keeps the types.
LEMMA ReqType ==
  ASSUME TypeOK, NEW r \in Requetes
  PROVE  /\ Finir(r) => req' \in [Requetes -> EtatsRequete]
         /\ \A e \in Etapes : Vers(r, e) => req' \in [Requetes -> EtatsRequete]
<1>1. Finir(r) => req' \in [Requetes -> EtatsRequete]
  BY Vides DEF Finir, TypeOK, EtatsRequete
<1>2. ASSUME NEW e \in Etapes, Vers(r, e) PROVE req' \in [Requetes -> EtatsRequete]
  <2>1. [req[r] EXCEPT !.etape = e] \in EtatsRequete
    BY DEF TypeOK, EtatsRequete
  <2>. QED  BY <1>2, <2>1 DEF Vers, TypeOK, EtatsRequete
<1>. QED  BY <1>1, <1>2

\* Releasing locks keeps their types.
LEMMA RelacherType ==
  ASSUME TypeOK, NEW r \in Requetes, Relacher(r)
  PROVE  tient' \in [Emails -> Requetes \cup {Aucun}]
BY DEF Relacher, TypeOK

-----------------------------------------------------------------------------
(* What a step of one request leaves to the others *)

\* A request that does not move keeps what it holds: codes received stay
\* received, an adhesion keeps the form it was made of until it is deleted.
LEMMA Autres ==
  ASSUME TypeOK, NEW r \in Requetes, Tient(r), req'[r] = req[r], recus \subseteq recus',
         \A a \in Adhesions : adhesion[a].etat # "libre" =>
           /\ adhesion'[a].etat # "libre"
           /\ adhesion'[a].origine \in {adhesion[a].origine, Aucun}
  PROVE  Tient(r)'
BY DEF Tient

\* Locks belong to requests that are depositing.
LEMMA SansVerrou ==
  ASSUME IInv, NEW r \in Requetes, req[r].etape \notin {"email", "cni", "carte", "inserer"}
  PROVE  \A e \in Emails : tient[e] # r
BY HypAucun DEF IInv, Ligne

\* A step that changes one request only, one that holds no lock.
LEMMA Seule ==
  ASSUME IInv, NEW r \in Requetes, NEW q \in EtatsRequete,
         UNCHANGED <<otp, tient, recus, adhesion>>, req' = [req EXCEPT ![r] = q],
         \A e \in Emails : tient[e] # r, Tient(r)'
  PROVE  IInv'
<1>1. /\ req'[r] = q
      /\ \A s \in Requetes \ {r} : req'[s] = req[s]
  BY DEF IInv, TypeOK
<1>2. TypeOK'
  BY DEF IInv, TypeOK, EtatsRequete
<1>3. SansDoublon'
  BY DEF IInv, SansDoublon, Vivante, MemeCni, MemeCarte
<1>4. \A s \in Requetes : Tient(s)'
  <2>. SUFFICES ASSUME NEW s \in Requetes \ {r} PROVE Tient(s)'
    OBVIOUS
  <2>. QED  BY <1>1, Autres DEF IInv
<1>5. ASSUME NEW e \in Emails PROVE Ligne(e)'
  <2>1. tient[e] # Aucun => tient[e] \in Requetes \ {r}
    BY DEF IInv, TypeOK
  <2>. QED  BY <1>1, <2>1 DEF IInv, Ligne
<1>. QED  BY <1>2, <1>3, <1>4, <1>5 DEF IInv

\* The same, for a request that ends.
LEMMA Finie ==
  ASSUME IInv, NEW r \in Requetes, Finir(r), UNCHANGED <<otp, tient, recus, adhesion>>,
         req[r].etape \notin {"email", "cni", "carte", "inserer"}
  PROVE  IInv'
<1>1. req'[r] = Repos
  BY DEF Finir, IInv, TypeOK
<1>2. Tient(r)'
  BY <1>1 DEF Tient, Repos, Acceptees
<1>. QED  BY <1>2, Vides, SansVerrou, Seule DEF Finir

-----------------------------------------------------------------------------
(* The steps that only read *)

LEMMA DemanderCodePas ==
  ASSUME IInv, NEW r \in Requetes, NEW e \in Emails, DemanderCode(r, e)
  PROVE  IInv'
<1>. DEFINE q == [Repos EXCEPT !.etape = "charger", !.email = e]
<1>1. q \in EtatsRequete /\ q.etape = "charger" /\ q.email = e
  BY HypMax DEF Repos, EtatsRequete, Etapes
<1>2. req' = [req EXCEPT ![r] = q] /\ req[r].etape = "repos"
  BY DEF DemanderCode
<1>3. req'[r] = q
  BY <1>2 DEF IInv, TypeOK
<1>4. Tient(r)'
  <2>. HIDE DEF q
  <2>. QED  BY <1>1, <1>3 DEF Tient, Acceptees
<1>. HIDE DEF q
<1>. QED  BY <1>1, <1>2, <1>4, SansVerrou, Seule DEF DemanderCode

LEMMA ChargerCodePas ==
  ASSUME IInv, NEW r \in Requetes, ChargerCode(r)
  PROVE  IInv'
<1>. DEFINE ligne == otp[req[r].email]
            q == [req[r] EXCEPT !.etape = "envoyer",
                                !.lu = IF ligne.code = Aucun THEN Aucun ELSE ligne.essais]
<1>0. req[r].etape = "charger" /\ req[r] \in EtatsRequete /\ req[r].email \in Emails
  BY DEF ChargerCode, IInv, TypeOK, EtatsRequete, Tient
<1>1. CASE Finir(r)
  BY <1>0, <1>1, Finie DEF ChargerCode
<1>2. CASE req' = [req EXCEPT ![r] = q]
  <2>1. ligne.essais \in 0..MaxEssais
    BY <1>0 DEF IInv, TypeOK
  <2>2. q \in EtatsRequete /\ q.etape = "envoyer" /\ q.email = req[r].email
    BY <1>0, <2>1 DEF EtatsRequete, Etapes
  <2>3. req'[r] = q
    BY <1>2 DEF IInv, TypeOK
  <2>. HIDE DEF q
  <2>4. Tient(r)'
    BY <1>0, <2>2, <2>3 DEF Tient, Acceptees
  <2>. QED  BY <1>0, <1>2, <2>2, <2>4, SansVerrou, Seule DEF ChargerCode
<1>. QED  BY <1>1, <1>2 DEF ChargerCode

LEMMA VerifierPas ==
  ASSUME IInv, NEW r \in Requetes, NEW e \in Emails, NEW c \in Codes \cup {Aucun},
         Verifier(r, e, c)
  PROVE  IInv'
<1>. DEFINE q == [Repos EXCEPT !.etape = "controler", !.email = e, !.code = c]
<1>1. q \in EtatsRequete /\ q.etape = "controler" /\ q.email = e
  BY DEF Repos, EtatsRequete, Etapes
<1>2. req' = [req EXCEPT ![r] = q] /\ req[r].etape = "repos"
  BY DEF Verifier
<1>3. req'[r] = q
  BY <1>2 DEF IInv, TypeOK
<1>. HIDE DEF q
<1>4. Tient(r)'
  BY <1>1, <1>3 DEF Tient, Acceptees
<1>. QED  BY <1>1, <1>2, <1>4, SansVerrou, Seule DEF Verifier

\* A wrong guess is counted only below the limit; a right one names the code of
\* the row, which the address received.
LEMMA ControlerCodePas ==
  ASSUME IInv, NEW r \in Requetes, ControlerCode(r)
  PROVE  IInv'
<1>. DEFINE ligne == otp[req[r].email]
            q1 == [req[r] EXCEPT !.etape = "compter", !.lu = ligne.essais]
            q2 == [req[r] EXCEPT !.etape = "effacer"]
<1>0. /\ req[r].etape \in {"controler", "verifier"}
      /\ req[r] \in EtatsRequete /\ req[r].email \in Emails
  BY DEF ControlerCode, IInv, TypeOK, EtatsRequete, Tient
<1>1. CASE Finir(r)
  BY <1>0, <1>1, Finie DEF ControlerCode
<1>2. CASE ~Inutilisable(ligne) /\ req' = [req EXCEPT ![r] = q1]
  <2>1. ligne.essais \in 0..(MaxEssais - 1)
    BY <1>0, <1>2, HypMax DEF IInv, TypeOK, Inutilisable
  <2>2. ligne.essais \in 0..MaxEssais
    BY <1>0 DEF IInv, TypeOK
  <2>3. q1 \in EtatsRequete /\ q1.etape = "compter" /\ q1.email = req[r].email
        /\ q1.lu = ligne.essais
    BY <1>0, <2>2 DEF EtatsRequete, Etapes
  <2>4. req'[r] = q1
    BY <1>2 DEF IInv, TypeOK
  <2>. HIDE DEF q1
  <2>5. Tient(r)'
    BY <1>0, <2>1, <2>3, <2>4 DEF Tient, Acceptees
  <2>. QED  BY <1>0, <1>2, <2>3, <2>5, SansVerrou, Seule DEF ControlerCode
<1>3. CASE ~Inutilisable(ligne) /\ BonCode(r) /\ req[r].etape = "verifier" /\ Vers(r, "effacer")
  <2>1. <<req[r].email, req[r].code>> \in recus
    BY <1>0, <1>3 DEF Inutilisable, BonCode, IInv, Ligne
  <2>2. /\ q2 \in EtatsRequete /\ q2.etape = "effacer" /\ q2.email = req[r].email
        /\ q2.pieces = req[r].pieces /\ q2.code = req[r].code
    BY <1>0 DEF EtatsRequete, Etapes
  <2>3. req' = [req EXCEPT ![r] = q2]
    BY <1>3 DEF Vers
  <2>4. req'[r] = q2
    BY <2>3 DEF IInv, TypeOK
  <2>5. req[r].pieces \in Pieces
    BY <1>3 DEF IInv, Tient
  <2>. HIDE DEF q2
  <2>6. Tient(r)'
    BY <1>0, <2>1, <2>2, <2>4, <2>5 DEF Tient, Acceptees, ControlerCode
  <2>. QED  BY <1>0, <2>2, <2>3, <2>6, SansVerrou, Seule DEF ControlerCode
<1>. QED  BY <1>1, <1>2, <1>3 DEF ControlerCode

LEMMA DeposerPas ==
  ASSUME IInv, NEW r \in Requetes, NEW p \in Payloads, NEW k \in Cles \cup {Aucun},
         NEW c \in Codes \cup {Aucun}, Deposer(r, p, k, c)
  PROVE  IInv'
<1>. DEFINE q == [Repos EXCEPT !.etape = IF k = Aucun THEN "verifier" ELSE "cle",
                               !.email = p[1], !.pieces = p[2], !.cle = k, !.code = c]
<1>1. p[1] \in Emails /\ p[2] \in Pieces
  BY DEF Payloads
<1>2. /\ q \in EtatsRequete /\ q.etape \in {"verifier", "cle"}
      /\ q.email = p[1] /\ q.pieces = p[2]
  BY <1>1 DEF Repos, EtatsRequete, Etapes
<1>3. req' = [req EXCEPT ![r] = q] /\ req[r].etape = "repos"
  BY DEF Deposer
<1>4. req'[r] = q
  BY <1>3 DEF IInv, TypeOK
<1>. HIDE DEF q
<1>5. Tient(r)'
  BY <1>1, <1>2, <1>4 DEF Tient, Acceptees
<1>. QED  BY <1>2, <1>3, <1>5, SansVerrou, Seule DEF Deposer

\* A replay answers an adhesion made of the same form.
LEMMA LireClePas ==
  ASSUME IInv, NEW r \in Requetes, LireCle(r)
  PROVE  IInv'
<1>0. /\ req[r].etape = "cle" /\ req[r] \in EtatsRequete
      /\ req[r].email \in Emails /\ req[r].pieces \in Pieces
  BY DEF LireCle, IInv, TypeOK, EtatsRequete, Tient
<1>1. CASE Finir(r)
  BY <1>0, <1>1, Finie DEF LireCle
<1>2. CASE Vers(r, "verifier")
  <2>. DEFINE q == [req[r] EXCEPT !.etape = "verifier"]
  <2>1. /\ q \in EtatsRequete /\ q.etape = "verifier"
        /\ q.email = req[r].email /\ q.pieces = req[r].pieces
    BY <1>0 DEF EtatsRequete, Etapes
  <2>2. req' = [req EXCEPT ![r] = q] /\ req'[r] = q
    BY <1>2 DEF Vers, IInv, TypeOK
  <2>. HIDE DEF q
  <2>3. Tient(r)'
    BY <1>0, <2>1, <2>2 DEF Tient, Acceptees
  <2>. QED  BY <1>0, <2>1, <2>2, <2>3, SansVerrou, Seule DEF LireCle
<1>3. ASSUME NEW a \in Adhesions, Vivante(a), Rejeu(r, a),
             req' = [req EXCEPT ![r].etape = "repondu", ![r].rep = a]
      PROVE  IInv'
  <2>. DEFINE q == [req[r] EXCEPT !.etape = "repondu", !.rep = a]
  <2>1. /\ q \in EtatsRequete /\ q.etape = "repondu" /\ q.rep = a
        /\ q.email = req[r].email /\ q.pieces = req[r].pieces
    BY <1>0 DEF EtatsRequete, Etapes
  <2>2. req' = [req EXCEPT ![r] = q] /\ req'[r] = q
    BY <1>3 DEF IInv, TypeOK
  <2>3. adhesion' = adhesion
    BY DEF LireCle
  <2>. HIDE DEF q
  <2>4. Tient(r)'
    BY <1>0, <1>3, <2>1, <2>2, <2>3 DEF Tient, Acceptees, Rejeu, Vivante
  <2>. QED  BY <1>0, <2>1, <2>2, <2>4, SansVerrou, Seule DEF LireCle
<1>. QED  BY <1>1, <1>2, <1>3 DEF LireCle, AvecCle

LEMMA RepondrePas ==
  ASSUME IInv, NEW r \in Requetes, Repondre(r)
  PROVE  IInv'
BY Finie DEF Repondre

-----------------------------------------------------------------------------
(* The steps that write a code *)

\* What the steps below have in common: no adhesion moves, one request does.
LEMMA Ecriture ==
  ASSUME IInv, NEW r \in Requetes, UNCHANGED adhesion, recus \subseteq recus',
         \A s \in Requetes \ {r} : req'[s] = req[s], Tient(r)'
  PROVE  SansDoublon' /\ \A s \in Requetes : Tient(s)'
<1>1. SansDoublon'
  BY DEF IInv, SansDoublon, Vivante, MemeCni, MemeCarte
<1>2. ASSUME NEW s \in Requetes \ {r} PROVE Tient(s)'
  BY Autres DEF IInv
<1>. QED  BY <1>1, <1>2

LEMMA EnvoyerCodePas ==
  ASSUME IInv, NEW r \in Requetes, NEW c \in Codes, EnvoyerCode(r, c)
  PROVE  IInv'
<1>. DEFINE q == [req[r] EXCEPT !.etape = "enregistrer", !.code = c]
<1>0. /\ req[r].etape = "envoyer" /\ req[r] \in EtatsRequete /\ req[r].email \in Emails
      /\ UNCHANGED <<otp, tient, adhesion>> /\ recus' = recus \cup {<<req[r].email, c>>}
  BY DEF EnvoyerCode, IInv, TypeOK, EtatsRequete, Tient
<1>1. /\ q \in EtatsRequete /\ q.etape = "enregistrer"
      /\ q.email = req[r].email /\ q.code = c
  BY <1>0 DEF EtatsRequete, Etapes
<1>2. req' = [req EXCEPT ![r] = q] /\ req'[r] = q
      /\ \A s \in Requetes \ {r} : req'[s] = req[s]
  BY DEF EnvoyerCode, IInv, TypeOK
<1>. HIDE DEF q
<1>3. Tient(r)'
  BY <1>0, <1>1, <1>2 DEF Tient, Acceptees
<1>4. SansDoublon' /\ \A s \in Requetes : Tient(s)'
  BY <1>0, <1>2, <1>3, Ecriture
<1>5. TypeOK'
  <2>1. req' \in [Requetes -> EtatsRequete]
    BY <1>1, <1>2 DEF IInv, TypeOK, EtatsRequete
  <2>. QED  BY <1>0, <2>1 DEF IInv, TypeOK, EtatsRequete
<1>6. ASSUME NEW e \in Emails PROVE Ligne(e)'
  <2>1. tient[e] # Aucun => tient[e] \in Requetes \ {r}
    BY <1>0, SansVerrou DEF IInv, TypeOK
  <2>. QED  BY <1>0, <1>2, <2>1 DEF IInv, Ligne
<1>. QED  BY <1>4, <1>5, <1>6 DEF IInv

\* The row takes the code that was just sent; the attempts of the row loaded may
\* be stale, they are at most the limit.
LEMMA EnregistrerCodePas ==
  ASSUME IInv, NEW r \in Requetes, EnregistrerCode(r)
  PROVE  IInv'
<1>. DEFINE m == req[r].email
<1>0. /\ req[r].etape = "enregistrer" /\ req[r] \in EtatsRequete /\ m \in Emails
      /\ tient[m] = Aucun /\ Finir(r) /\ UNCHANGED <<tient, recus, adhesion>>
      /\ <<m, req[r].code>> \in recus
  BY DEF EnregistrerCode, IInv, TypeOK, EtatsRequete, Tient, Acceptees
<1>1. req'[r] = Repos /\ \A s \in Requetes \ {r} : req'[s] = req[s]
  BY <1>0 DEF Finir, IInv, TypeOK
<1>2. SansDoublon' /\ \A s \in Requetes : Tient(s)'
  <2>1. Tient(r)'
    BY <1>1 DEF Tient, Repos, Acceptees
  <2>. QED  BY <1>0, <1>1, <2>1, Ecriture
<1>3. PICK ligne \in LignesOtp :
        /\ ligne.code = req[r].code
        /\ otp' \in {otp, [otp EXCEPT ![m] = ligne]}
  <2>1. req[r].code \in Codes /\ otp[m].essais \in 0..MaxEssais /\ 0 \in 0..MaxEssais
    BY <1>0, HypMax DEF IInv, TypeOK
  <2>. DEFINE ligne == [code |-> req[r].code, age |-> "recent",
                        essais |-> IF req[r].lu = 0 THEN otp[m].essais ELSE 0]
  <2>2. ligne \in LignesOtp /\ ligne.code = req[r].code
    BY <2>1 DEF LignesOtp, Ages
  <2>3. otp' \in {otp, [otp EXCEPT ![m] = ligne]}
    BY <1>0 DEF EnregistrerCode, IInv, TypeOK
  <2>. HIDE DEF ligne
  <2>. QED  BY <2>2, <2>3
<1>4. TypeOK'
  <2>1. req' \in [Requetes -> EtatsRequete]
    BY <1>0, ReqType DEF IInv
  <2>2. otp' \in [Emails -> LignesOtp]
    BY <1>0, <1>3 DEF IInv, TypeOK, LignesOtp
  <2>. QED  BY <1>0, <2>1, <2>2 DEF IInv, TypeOK, EtatsRequete, LignesOtp
<1>5. ASSUME NEW e \in Emails PROVE Ligne(e)'
  <2>1. tient[e] # Aucun => tient[e] \in Requetes \ {r}
    BY <1>0, SansVerrou DEF IInv, TypeOK
  <2>2. otp'[e].code # Aucun => <<e, otp'[e].code>> \in recus
    BY <1>0, <1>3 DEF IInv, Ligne, TypeOK
  <2>. QED  BY <1>0, <1>1, <2>1, <2>2 DEF IInv, Ligne
<1>. QED  BY <1>2, <1>4, <1>5 DEF IInv

\* What is written back is one more than attempts that were below the limit.
LEMMA CompterEchecPas ==
  ASSUME IInv, NEW r \in Requetes, CompterEchec(r)
  PROVE  IInv'
<1>. DEFINE m == req[r].email
<1>0. /\ req[r].etape = "compter" /\ m \in Emails /\ req[r].lu \in 0..(MaxEssais - 1)
      /\ Finir(r) /\ UNCHANGED <<tient, recus, adhesion>>
  BY DEF CompterEchec, IInv, Tient
<1>1. req'[r] = Repos /\ \A s \in Requetes \ {r} : req'[s] = req[s]
  BY <1>0 DEF Finir, IInv, TypeOK
<1>2. SansDoublon' /\ \A s \in Requetes : Tient(s)'
  <2>1. Tient(r)'
    BY <1>1 DEF Tient, Repos, Acceptees
  <2>. QED  BY <1>0, <1>1, <2>1, Ecriture
<1>3. otp' \in {otp, [otp EXCEPT ![m].essais = req[r].lu + 1]}
  BY DEF CompterEchec
<1>4. otp' \in [Emails -> LignesOtp] /\ \A e \in Emails : otp'[e].code = otp[e].code
  <2>1. req[r].lu + 1 \in 0..MaxEssais
    BY <1>0, HypMax
  <2>2. otp \in [Emails -> LignesOtp]
    BY DEF IInv, TypeOK, LignesOtp
  <2>3. [otp[m] EXCEPT !.essais = req[r].lu + 1] \in LignesOtp
        /\ [otp[m] EXCEPT !.essais = req[r].lu + 1].code = otp[m].code
    BY <1>0, <2>1, <2>2 DEF LignesOtp
  <2>. QED  BY <1>0, <1>3, <2>2, <2>3
<1>5. TypeOK'
  <2>1. req' \in [Requetes -> EtatsRequete]
    BY <1>0, ReqType DEF IInv
  <2>. QED  BY <1>0, <1>4, <2>1 DEF IInv, TypeOK, EtatsRequete, LignesOtp
<1>6. ASSUME NEW e \in Emails PROVE Ligne(e)'
  <2>1. tient[e] # Aucun => tient[e] \in Requetes \ {r}
    BY <1>0, SansVerrou DEF IInv, TypeOK
  <2>. QED  BY <1>0, <1>1, <1>4, <2>1 DEF IInv, Ligne
<1>. QED  BY <1>2, <1>5, <1>6 DEF IInv

\* Time changes neither the code nor the attempts.
LEMMA VieillirPas ==
  ASSUME IInv, NEW m \in Emails, Vieillir(m)
  PROVE  IInv'
<1>. DEFINE n == IF otp[m].age = "recent" THEN "valable" ELSE "perime"
<1>0. UNCHANGED <<tient, recus, adhesion, req>> /\ otp' = [otp EXCEPT ![m].age = n]
  BY DEF Vieillir
<1>1. otp' \in [Emails -> LignesOtp] /\ \A e \in Emails : otp'[e].code = otp[e].code
  <2>1. otp \in [Emails -> LignesOtp] /\ n \in Ages
    BY DEF IInv, TypeOK, LignesOtp, Ages
  <2>. HIDE DEF n
  <2>2. [otp[m] EXCEPT !.age = n] \in LignesOtp /\ [otp[m] EXCEPT !.age = n].code = otp[m].code
    BY <2>1 DEF LignesOtp
  <2>. QED  BY <1>0, <2>1, <2>2
<1>2. TypeOK'
  BY <1>0, <1>1 DEF IInv, TypeOK, LignesOtp
<1>3. SansDoublon' /\ \A s \in Requetes : Tient(s)'
  BY <1>0 DEF IInv, SansDoublon, Vivante, Tient
<1>4. \A e \in Emails : Ligne(e)'
  BY <1>0, <1>1 DEF IInv, Ligne
<1>. QED  BY <1>2, <1>3, <1>4 DEF IInv

-----------------------------------------------------------------------------
(* The steps that take and release the row of a code *)

LEMMA EffacerCodePas ==
  ASSUME IInv, NEW r \in Requetes, EffacerCode(r)
  PROVE  IInv'
<1>. DEFINE m == req[r].email
            q == [req[r] EXCEPT !.etape = "email"]
<1>0. /\ req[r].etape = "effacer" /\ req[r] \in EtatsRequete /\ m \in Emails
      /\ req[r].pieces \in Pieces /\ <<m, req[r].code>> \in recus
      /\ UNCHANGED <<otp, recus, adhesion>> /\ tient' \in {tient, [tient EXCEPT ![m] = r]}
  BY DEF EffacerCode, IInv, TypeOK, EtatsRequete, Tient, Acceptees
<1>1. /\ q \in EtatsRequete /\ q.etape = "email" /\ q.email = m
      /\ q.pieces = req[r].pieces /\ q.code = req[r].code
  BY <1>0 DEF EtatsRequete, Etapes
<1>2. req' = [req EXCEPT ![r] = q] /\ req'[r] = q
      /\ \A s \in Requetes \ {r} : req'[s] = req[s]
  BY DEF EffacerCode, Vers, IInv, TypeOK
<1>. HIDE DEF q
<1>3. Tient(r)'
  BY <1>0, <1>1, <1>2 DEF Tient, Acceptees
<1>4. SansDoublon' /\ \A s \in Requetes : Tient(s)'
  BY <1>0, <1>2, <1>3, Ecriture
<1>5. TypeOK'
  <2>1. req' \in [Requetes -> EtatsRequete]
    BY <1>1, <1>2 DEF IInv, TypeOK, EtatsRequete
  <2>2. tient' \in [Emails -> Requetes \cup {Aucun}]
    BY <1>0 DEF IInv, TypeOK
  <2>. QED  BY <1>0, <2>1, <2>2 DEF IInv, TypeOK, EtatsRequete
<1>6. ASSUME NEW e \in Emails PROVE Ligne(e)'
  <2>1. tient[e] # Aucun => tient[e] \in Requetes \ {r}
    BY <1>0, SansVerrou DEF IInv, TypeOK
  <2>2. tient'[e] = tient[e] \/ (e = m /\ tient'[e] = r)
    BY <1>0 DEF IInv, TypeOK
  <2>. QED  BY <1>0, <1>1, <1>2, <2>1, <2>2 DEF IInv, Ligne
<1>. QED  BY <1>4, <1>5, <1>6 DEF IInv

\* A transaction that ends without a write to the tables.
LEMMA Annulee ==
  ASSUME IInv, NEW r \in Requetes, Finir(r), Relacher(r), UNCHANGED <<otp, recus, adhesion>>
  PROVE  IInv'
<1>1. req'[r] = Repos /\ \A s \in Requetes \ {r} : req'[s] = req[s]
  BY DEF Finir, IInv, TypeOK
<1>2. SansDoublon' /\ \A s \in Requetes : Tient(s)'
  <2>1. Tient(r)'
    BY <1>1 DEF Tient, Repos, Acceptees
  <2>. QED  BY <1>1, <2>1, Ecriture
<1>3. TypeOK'
  <2>1. req' \in [Requetes -> EtatsRequete]
    BY ReqType DEF IInv
  <2>2. tient' \in [Emails -> Requetes \cup {Aucun}]
    BY RelacherType DEF IInv
  <2>. QED  BY <2>1, <2>2 DEF IInv, TypeOK, EtatsRequete
<1>4. ASSUME NEW e \in Emails PROVE Ligne(e)'
  <2>1. tient'[e] # Aucun => tient'[e] = tient[e] /\ tient[e] \in Requetes \ {r}
    BY DEF Relacher, IInv, TypeOK
  <2>. QED  BY <1>1, <2>1 DEF IInv, Ligne
<1>. QED  BY <1>2, <1>3, <1>4 DEF IInv

LEMMA ChercherConflitPas ==
  ASSUME IInv, NEW r \in Requetes, ChercherConflit(r)
  PROVE  IInv'
<1>1. CASE Finir(r) /\ Relacher(r)
  BY <1>1, Annulee DEF ChercherConflit
<1>2. CASE UNCHANGED tient /\ \E s \in {"cni", "carte", "inserer"} : Vers(r, s)
  <2>1. PICK s \in {"cni", "carte", "inserer"} : Vers(r, s)
    BY <1>2
  <2>. DEFINE q == [req[r] EXCEPT !.etape = s]
  <2>2. /\ req[r].etape \in Controles /\ req[r] \in EtatsRequete
        /\ UNCHANGED <<otp, tient, recus, adhesion>>
    BY <1>2 DEF ChercherConflit, IInv, TypeOK, EtatsRequete
  <2>3. /\ q \in EtatsRequete /\ q.etape \in {"cni", "carte", "inserer"} /\ q.email = req[r].email
        /\ q.pieces = req[r].pieces /\ q.code = req[r].code
    BY <2>2 DEF EtatsRequete, Etapes
  <2>4. req' = [req EXCEPT ![r] = q] /\ req'[r] = q
        /\ \A t \in Requetes \ {r} : req'[t] = req[t]
    BY <2>1 DEF Vers, IInv, TypeOK
  <2>. HIDE DEF q
  <2>5. Tient(r)'
    BY <2>2, <2>3, <2>4 DEF IInv, Tient, Acceptees, Controles
  <2>6. SansDoublon' /\ \A t \in Requetes : Tient(t)'
    BY <2>2, <2>4, <2>5, Ecriture
  <2>7. TypeOK'
    <3>1. req' \in [Requetes -> EtatsRequete]
      BY <2>3, <2>4 DEF IInv, TypeOK, EtatsRequete
    <3>. QED  BY <2>2, <3>1 DEF IInv, TypeOK, EtatsRequete
  <2>8. ASSUME NEW e \in Emails PROVE Ligne(e)'
    <3>1. tient[e] # Aucun => tient[e] \in Requetes
      BY DEF IInv, TypeOK
    <3>. QED  BY <2>2, <2>3, <2>4, <3>1 DEF IInv, Ligne
  <2>. QED  BY <2>6, <2>7, <2>8 DEF IInv
<1>. QED  BY <1>1, <1>2 DEF ChercherConflit, Controles, Suivant

LEMMA AbandonnerPas ==
  ASSUME IInv, NEW r \in Requetes, Abandonner(r)
  PROVE  IInv'
BY Annulee DEF Abandonner

-----------------------------------------------------------------------------
(* The steps that write an adhesion *)

\* A step of the administrators: an adhesion keeps its form or loses it.
LEMMA Admin ==
  ASSUME IInv, NEW a \in Adhesions, UNCHANGED <<otp, tient, recus, req>>,
         NEW n \in LignesAdhesion, adhesion[a].etat # "libre", n.etat # "libre",
         n.origine \in {adhesion[a].origine, Aucun}, adhesion' = [adhesion EXCEPT ![a] = n]
  PROVE  /\ TypeOK' /\ (\A r \in Requetes : Tient(r)') /\ \A e \in Emails : Ligne(e)'
         /\ adhesion'[a] = n /\ \A b \in Adhesions \ {a} : adhesion'[b] = adhesion[b]
<1>1. adhesion'[a] = n /\ \A b \in Adhesions \ {a} : adhesion'[b] = adhesion[b]
  BY DEF IInv, TypeOK
<1>2. TypeOK'
  <2>1. adhesion' \in [Adhesions -> LignesAdhesion]
    BY DEF IInv, TypeOK, LignesAdhesion
  <2>. QED  BY <2>1 DEF IInv, TypeOK, LignesAdhesion
<1>3. ASSUME NEW r \in Requetes PROVE Tient(r)'
  <2>1. \A b \in Adhesions : adhesion[b].etat # "libre" =>
          /\ adhesion'[b].etat # "libre"
          /\ adhesion'[b].origine \in {adhesion[b].origine, Aucun}
    BY <1>1
  <2>. QED  BY <2>1, Autres DEF IInv
<1>4. \A e \in Emails : Ligne(e)'
  BY DEF IInv, Ligne
<1>. QED  BY <1>1, <1>2, <1>3, <1>4

LEMMA SupprimerPas ==
  ASSUME IInv, NEW a \in Adhesions, Supprimer(a)
  PROVE  IInv'
<1>. DEFINE n == SansAdhesion("supprimee")
<1>1. n \in LignesAdhesion /\ n.etat = "supprimee" /\ n.origine = Aucun
  BY Vides DEF SansAdhesion
<1>2. /\ adhesion[a].etat # "libre" /\ UNCHANGED <<otp, tient, recus, req>>
      /\ adhesion' = [adhesion EXCEPT ![a] = n]
  BY DEF Supprimer, Vivante
<1>. HIDE DEF n
<1>3. /\ TypeOK' /\ (\A r \in Requetes : Tient(r)') /\ \A e \in Emails : Ligne(e)'
      /\ adhesion'[a] = n /\ \A b \in Adhesions \ {a} : adhesion'[b] = adhesion[b]
  BY <1>1, <1>2, Admin
<1>4. SansDoublon'
  <2>1. \A b \in Adhesions : Vivante(b)' => b # a /\ Vivante(b)
    BY <1>1, <1>3 DEF Vivante
  <2>. QED  BY <1>3, <2>1 DEF IInv, SansDoublon
<1>. QED  BY <1>3, <1>4 DEF IInv

\* The index refuses what another live adhesion has.
LEMMA CorrigerPas ==
  ASSUME IInv, NEW a \in Adhesions, NEW e \in Emails, NEW c \in Pieces, Corriger(a, e, c)
  PROVE  IInv'
<1>. DEFINE n == [adhesion[a] EXCEPT !.email = e, !.pieces = c]
<1>0. adhesion[a] \in LignesAdhesion
  BY DEF IInv, TypeOK, LignesAdhesion
<1>1. /\ n \in LignesAdhesion /\ n.etat = adhesion[a].etat /\ n.origine = adhesion[a].origine
      /\ n.email = e /\ n.pieces = c /\ n.cle = adhesion[a].cle
  BY <1>0 DEF LignesAdhesion
<1>2. /\ adhesion[a].etat # "libre" /\ UNCHANGED <<otp, tient, recus, req>>
      /\ adhesion' = [adhesion EXCEPT ![a] = n]
  BY DEF Corriger, Vivante, IInv, TypeOK
<1>. HIDE DEF n
<1>3. /\ TypeOK' /\ (\A r \in Requetes : Tient(r)') /\ \A m \in Emails : Ligne(m)'
      /\ adhesion'[a] = n /\ \A b \in Adhesions \ {a} : adhesion'[b] = adhesion[b]
  BY <1>1, <1>2, Admin
<1>4. SansDoublon'
  <2>1. \A b \in Adhesions : Vivante(b)' => Vivante(b)
    BY <1>1, <1>3 DEF Vivante
  <2>2. \A b \in Adhesions \ {a} : Vivante(b) =>
          /\ adhesion[b].email # e
          /\ ~MemeCni(adhesion[b].pieces, c) /\ ~MemeCarte(adhesion[b].pieces, c)
    BY DEF Corriger, Unique
  <2>3. \A b \in Adhesions : adhesion'[b].cle = adhesion[b].cle
    BY <1>1, <1>3
  <2>. QED  BY <1>1, <1>3, <2>1, <2>2, <2>3 DEF IInv, SansDoublon, MemeCni, MemeCarte
<1>. QED  BY <1>3, <1>4 DEF IInv

\* The row inserted is the one of the form, in no other live adhesion; the codes
\* the request deleted leave with it.
LEMMA InsererEtValiderPas ==
  ASSUME IInv, NEW r \in Requetes, NEW a \in Adhesions, InsererEtValider(r, a)
  PROVE  IInv'
<1>. DEFINE f == req[r]
            q == [req[r] EXCEPT !.etape = "repondu", !.rep = a]
            n == [etat |-> "vivante", email |-> f.email, pieces |-> f.pieces, cle |-> f.cle,
                  origine |-> IF f.cle = Aucun THEN Aucun ELSE <<f.email, f.pieces>>]
<1>0. /\ f.etape = "inserer" /\ f \in EtatsRequete /\ f.email \in Emails /\ f.pieces \in Pieces
      /\ adhesion[a].etat = "libre" /\ Unique(f.email, f.pieces, f.cle, {}) /\ recus' = recus
      /\ Relacher(r)
  BY DEF InsererEtValider, IInv, TypeOK, EtatsRequete, Tient, Acceptees
<1>1. /\ n \in LignesAdhesion /\ n.etat = "vivante" /\ n.origine \in {<<f.email, f.pieces>>, Aucun}
      /\ n.email = f.email /\ n.pieces = f.pieces /\ n.cle = f.cle
  BY <1>0 DEF LignesAdhesion, EtatsRequete, Payloads
<1>2. /\ q \in EtatsRequete /\ q.etape = "repondu" /\ q.rep = a
      /\ q.email = f.email /\ q.pieces = f.pieces
  BY <1>0 DEF EtatsRequete, Etapes
<1>3. adhesion' = [adhesion EXCEPT ![a] = n] /\ adhesion'[a] = n
      /\ \A b \in Adhesions \ {a} : adhesion'[b] = adhesion[b]
  BY DEF InsererEtValider, IInv, TypeOK
<1>4. req' = [req EXCEPT ![r] = q] /\ req'[r] = q
      /\ \A s \in Requetes \ {r} : req'[s] = req[s]
  BY DEF InsererEtValider, IInv, TypeOK
<1>5. otp' = [e \in Emails |-> IF e \in Effaces(r) THEN SansCode ELSE otp[e]]
  BY DEF InsererEtValider
<1>. HIDE DEF n, q
<1>6. TypeOK'
  <2>1. otp' \in [Emails -> LignesOtp]
    BY <1>5, Vides DEF IInv, TypeOK, LignesOtp
  <2>2. tient' \in [Emails -> Requetes \cup {Aucun}]
    BY <1>0, RelacherType DEF IInv
  <2>3. adhesion' \in [Adhesions -> LignesAdhesion]
    BY <1>1, <1>3 DEF IInv, TypeOK, LignesAdhesion
  <2>4. req' \in [Requetes -> EtatsRequete]
    BY <1>2, <1>4 DEF IInv, TypeOK, EtatsRequete
  <2>. QED  BY <1>0, <2>1, <2>2, <2>3, <2>4
            DEF IInv, TypeOK, LignesOtp, LignesAdhesion, EtatsRequete
<1>7. SansDoublon'
  <2>1. \A b \in Adhesions \ {a} : Vivante(b)' => Vivante(b)
    BY <1>3 DEF Vivante
  <2>2. \A b \in Adhesions \ {a} : Vivante(b) =>
          /\ adhesion[b].email # f.email
          /\ ~MemeCni(adhesion[b].pieces, f.pieces) /\ ~MemeCarte(adhesion[b].pieces, f.pieces)
          /\ f.cle # Aucun => adhesion[b].cle # f.cle
    BY <1>0 DEF Unique
  <2>. QED  BY <1>1, <1>3, <2>1, <2>2 DEF IInv, SansDoublon, MemeCni, MemeCarte
<1>8. ASSUME NEW s \in Requetes PROVE Tient(s)'
  <2>1. CASE s = r
    BY <1>0, <1>1, <1>2, <1>3, <1>4, <2>1 DEF Tient, Acceptees
  <2>2. CASE s # r
    <3>1. \A b \in Adhesions : adhesion[b].etat # "libre" => adhesion'[b] = adhesion[b]
      BY <1>0, <1>3
    <3>. QED  BY <1>0, <1>4, <2>2, <3>1, Autres DEF IInv
  <2>. QED  BY <2>1, <2>2
<1>9. ASSUME NEW e \in Emails PROVE Ligne(e)'
  <2>1. tient'[e] # Aucun => tient'[e] = tient[e] /\ tient[e] \in Requetes \ {r}
    BY <1>0 DEF Relacher, IInv, TypeOK
  <2>2. otp'[e].code # Aucun => otp'[e] = otp[e]
    BY <1>5 DEF SansCode
  <2>3. otp'[e].code # Aucun => <<e, otp'[e].code>> \in recus'
    BY <1>0, <2>2 DEF IInv, Ligne
  <2>4. tient'[e] # Aucun => /\ req'[tient'[e]] = req[tient[e]] /\ req[tient[e]].email = e
                             /\ req[tient[e]].etape \in {"email", "cni", "carte", "inserer"}
    BY <1>4, <2>1 DEF IInv, Ligne
  <2>. QED  BY <2>3, <2>4 DEF Ligne
<1>. QED  BY <1>6, <1>7, <1>8, <1>9 DEF IInv

-----------------------------------------------------------------------------
(* The inductive invariant *)

LEMMA Initial == Init => IInv
<1>. SUFFICES ASSUME Init PROVE IInv
  OBVIOUS
<1>1. TypeOK
  BY Vides DEF Init, TypeOK, LignesOtp, LignesAdhesion, EtatsRequete
<1>2. SansDoublon
  BY DEF Init, SansDoublon, Vivante, SansAdhesion
<1>3. \A r \in Requetes : Tient(r)
  BY DEF Init, Tient, Repos, Acceptees
<1>4. \A e \in Emails : Ligne(e)
  BY DEF Init, Ligne, SansCode
<1>. QED  BY <1>1, <1>2, <1>3, <1>4 DEF IInv

LEMMA Pas == IInv /\ [Next]_vars => IInv'
<1>. SUFFICES ASSUME IInv, [Next]_vars PROVE IInv'
  OBVIOUS
<1>1. ASSUME NEW r \in Requetes, Avancer(r) PROVE IInv'
  BY <1>1, DemanderCodePas, VerifierPas, EnvoyerCodePas, DeposerPas, InsererEtValiderPas,
     ChargerCodePas, EnregistrerCodePas, ControlerCodePas, CompterEchecPas, LireClePas,
     EffacerCodePas, ChercherConflitPas, RepondrePas, AbandonnerPas, HypFormes
     DEF Avancer
<1>2. CASE UNCHANGED vars
  BY <1>2 DEF vars, IInv, TypeOK, SansDoublon, Vivante, Tient, Ligne
<1>3. \A f \in Formes : f \in Payloads /\ f[1] \in Emails /\ f[2] \in Pieces
  BY HypFormes DEF Payloads
<1>. QED  BY <1>1, <1>2, <1>3, VieillirPas, SupprimerPas, CorrigerPas DEF Next

LEMMA Invariant == Spec => []IInv
BY Initial, Pas, PTL DEF Spec

-----------------------------------------------------------------------------
(* Theorems *)

\* Types, for any number of requests: the attempts stored never pass
\* OTP_MAX_ATTEMPTS, whatever stale value a request writes back.
THEOREM TypeCorrect == Spec => []TypeOK
<1>1. IInv => TypeOK
  BY DEF IInv
<1>. QED  BY <1>1, Invariant, PTL

\* Adhesions that are not deleted never share an email, a CNI, a voter card or a
\* key.
THEOREM DoublonCorrect == Spec => []SansDoublon
<1>1. IInv => SansDoublon
  BY DEF IInv
<1>. QED  BY <1>1, Invariant, PTL

\* Who is answered is answered the adhesion of his own form, replays included.
THEOREM CleCorrecte == Spec => []CleIdempotente
<1>1. IInv => CleIdempotente
  BY DEF IInv, Tient, CleIdempotente
<1>. QED  BY <1>1, Invariant, PTL

\* A code leaves the table only with an adhesion of its email, in one commit: a
\* failure at any step of the deposit leaves it usable.
THEOREM CodeCorrect == Spec => CodeParti
<1>. DEFINE Parti == \A e \in Emails : otp[e].code # Aucun /\ otp'[e].code = Aucun =>
               \E a \in Adhesions : /\ adhesion[a].etat = "libre"
                                    /\ adhesion'[a].etat = "vivante" /\ adhesion'[a].email = e
<1>1. IInv /\ [Next]_vars => [Parti]_vars
  <2>. SUFFICES ASSUME IInv, Next, NEW e \in Emails, otp[e].code # Aucun, otp'[e].code = Aucun
                PROVE  \E a \in Adhesions :
                         /\ adhesion[a].etat = "libre"
                         /\ adhesion'[a].etat = "vivante" /\ adhesion'[a].email = e
    OBVIOUS
  <2>0. otp \in [Emails -> LignesOtp]
    BY DEF IInv, TypeOK, LignesOtp
  <2>1. otp' # otp
    OBVIOUS
  <2>2. ASSUME NEW r \in Requetes, EnregistrerCode(r) PROVE FALSE
    <3>1. <<req[r].email, req[r].code>> \in recus
      BY <2>2 DEF EnregistrerCode, IInv, Tient, Acceptees
    <3>2. req[r].code \in Codes /\ req[r].email \in Emails
      BY <3>1 DEF IInv, TypeOK
    <3>3. otp'[e].code \in {otp[e].code, req[r].code}
      BY <2>0, <2>2 DEF EnregistrerCode
    <3>. QED  BY <3>2, <3>3, HypAucun
  <2>3. ASSUME NEW r \in Requetes, CompterEchec(r) PROVE FALSE
    BY <2>0, <2>3 DEF CompterEchec, LignesOtp
  <2>4. ASSUME NEW m \in Emails, Vieillir(m) PROVE FALSE
    BY <2>0, <2>4 DEF Vieillir, LignesOtp
  <2>5. ASSUME NEW r \in Requetes, NEW a \in Adhesions, InsererEtValider(r, a)
        PROVE  adhesion[a].etat = "libre" /\ adhesion'[a].etat = "vivante"
               /\ adhesion'[a].email = e
    <3>1. tient[e] = r
      BY <2>5 DEF InsererEtValider, Effaces
    <3>2. req[r].email = e
      BY <3>1, HypAucun DEF IInv, Ligne
    <3>. QED  BY <2>5, <3>2 DEF InsererEtValider, IInv, TypeOK
  <2>6. ASSUME NEW r \in Requetes, Avancer(r)
        PROVE  EnregistrerCode(r) \/ CompterEchec(r)
               \/ \E a \in Adhesions : InsererEtValider(r, a)
    BY <2>1, <2>6 DEF Avancer, DemanderCode, Verifier, EnvoyerCode, Deposer, ChargerCode,
                      ControlerCode, LireCle, EffacerCode, ChercherConflit, Repondre, Abandonner
  <2>7. ASSUME NEW a \in Adhesions, Supprimer(a) \/ \E f \in Formes : Corriger(a, f[1], f[2])
        PROVE  FALSE
    BY <2>1, <2>7 DEF Supprimer, Corriger
  <2>. QED  BY <2>2, <2>3, <2>4, <2>5, <2>6, <2>7 DEF Next
<1>. QED  BY <1>1, Invariant, PTL DEF Spec, CodeParti

\* An adhesion is inserted for an address only with a code the address received.
THEOREM EmailCorrect == Spec => EmailProuve
<1>. DEFINE Prouve == \A a \in Adhesions :
               adhesion[a].etat = "libre" /\ adhesion'[a].etat = "vivante" =>
               \E r \in Requetes : <<adhesion'[a].email, req[r].code>> \in recus /\ req'[r].rep = a
<1>1. IInv /\ [Next]_vars => [Prouve]_vars
  <2>. SUFFICES ASSUME IInv, Next, NEW a \in Adhesions,
                       adhesion[a].etat = "libre", adhesion'[a].etat = "vivante"
                PROVE  \E r \in Requetes :
                         <<adhesion'[a].email, req[r].code>> \in recus /\ req'[r].rep = a
    OBVIOUS
  <2>0. adhesion \in [Adhesions -> LignesAdhesion] /\ req \in [Requetes -> EtatsRequete]
    BY DEF IInv, TypeOK, LignesAdhesion, EtatsRequete
  <2>1. adhesion' # adhesion
    OBVIOUS
  <2>2. ASSUME NEW r \in Requetes, NEW b \in Adhesions, InsererEtValider(r, b)
        PROVE  <<adhesion'[a].email, req[r].code>> \in recus /\ req'[r].rep = a
    <3>1. a = b
      BY <2>0, <2>2 DEF InsererEtValider
    <3>2. <<req[r].email, req[r].code>> \in recus
      BY <2>2 DEF InsererEtValider, IInv, Tient, Acceptees
    <3>3. adhesion'[a].email = req[r].email /\ req'[r].rep = a
      BY <2>0, <2>2, <3>1 DEF InsererEtValider, EtatsRequete
    <3>. QED  BY <3>2, <3>3
  <2>3. ASSUME NEW b \in Adhesions, Supprimer(b) PROVE FALSE
    BY <2>0, <2>3 DEF Supprimer, SansAdhesion, LignesAdhesion
  <2>4. ASSUME NEW b \in Adhesions, NEW f \in Formes, Corriger(b, f[1], f[2])
        PROVE  FALSE
    <3>1. adhesion'[a].etat = adhesion[a].etat
      BY <2>0, <2>4 DEF Corriger, LignesAdhesion
    <3>. QED  BY <3>1
  <2>5. ASSUME NEW m \in Emails, Vieillir(m) PROVE FALSE
    BY <2>1, <2>5 DEF Vieillir
  <2>6. ASSUME NEW r \in Requetes, Avancer(r)
        PROVE  \E b \in Adhesions : InsererEtValider(r, b)
    BY <2>1, <2>6 DEF Avancer, DemanderCode, Verifier, EnvoyerCode, Deposer, ChargerCode,
                      EnregistrerCode, ControlerCode, CompterEchec, LireCle, EffacerCode,
                      ChercherConflit, Repondre, Abandonner
  <2>. QED  BY <2>2, <2>3, <2>4, <2>5, <2>6 DEF Next
<1>. QED  BY <1>1, Invariant, PTL DEF Spec, EmailProuve

-----------------------------------------------------------------------------
(* Depot implements RegistreAdhesions *)

\* The state of the register, as the refinement mapping computes it.
DossierDe(l) == [etat |-> l.etat, email |-> l.email, pieces |-> l.pieces, cle |-> l.cle]
Dossiers     == [a \in Adhesions |-> DossierDe(adhesion[a])]
CodesPoses   == [e \in Emails |-> otp[e].code]

\* A step that changes neither the adhesions, nor the codes, nor what was received
\* is invisible in the register.
LEMMA PasInvisible ==
  ASSUME UNCHANGED <<recus, adhesion>>, \A e \in Emails : otp'[e].code = otp[e].code
  PROVE  UNCHANGED Registre!vars
<1>1. Dossiers' = Dossiers /\ CodesPoses' = CodesPoses
  BY DEF Dossiers, CodesPoses
<1>. QED  BY <1>1 DEF Registre!vars, Dossiers, CodesPoses, DossierDe

LEMMA RegistreInitial ==
  ASSUME Init
  PROVE  Registre!Init
BY DEF Init, Registre!Init, Registre!Dossier, SansAdhesion, SansCode

\* Sending a code is Envoyer.
LEMMA PasEnvoyer ==
  ASSUME IInv, NEW r \in Requetes, NEW c \in Codes, EnvoyerCode(r, c)
  PROVE  Registre!Next
<1>1. req[r].email \in Emails
  BY DEF EnvoyerCode, IInv, Tient
<1>2. Registre!Envoyer(req[r].email, c)
  BY DEF EnvoyerCode, Registre!Envoyer
<1>. QED  BY <1>1, <1>2 DEF Registre!Next

\* Recording a code is Admettre: the email received it; or nothing, when the row
\* appeared or left meanwhile.
LEMMA PasAdmettre ==
  ASSUME IInv, NEW r \in Requetes, EnregistrerCode(r)
  PROVE  Registre!Next \/ UNCHANGED Registre!vars
<1>1. PICK m \in Emails, c \in Codes : m = req[r].email /\ c = req[r].code /\ <<m, c>> \in recus
  <2>1. req[r].email \in Emails /\ <<req[r].email, req[r].code>> \in recus
    BY DEF EnregistrerCode, IInv, Tient, Acceptees
  <2>. QED  BY <2>1 DEF IInv, TypeOK
<1>2. otp \in [Emails -> LignesOtp]
  BY DEF IInv, TypeOK, LignesOtp
<1>3. UNCHANGED <<recus, adhesion>>
      /\ (otp' = otp \/ CodesPoses' = [CodesPoses EXCEPT ![m] = c])
  BY <1>1, <1>2 DEF EnregistrerCode, CodesPoses
<1>4. CASE otp' = otp
  BY <1>3, <1>4, PasInvisible
<1>5. CASE CodesPoses' = [CodesPoses EXCEPT ![m] = c]
  <2>1. Registre!Admettre(m, c)
    BY <1>1, <1>3, <1>5 DEF Registre!Admettre, CodesPoses
  <2>. QED  BY <2>1 DEF Registre!Next
<1>. QED  BY <1>3, <1>4, <1>5

\* The unique indexes are the check of the register.
LEMMA UniqueLibre ==
  ASSUME NEW e, NEW n, NEW k, NEW sauf, Unique(e, n, k, sauf)
  PROVE  Registre!Libre(e, n, k, sauf)
BY DEF Unique, Vivante, MemeCni, MemeCarte, Registre!Libre

\* The commit of a deposit is Deposer: the rows it deletes are at most the one of
\* its email.
LEMMA PasDeposer ==
  ASSUME IInv, NEW r \in Requetes, NEW a \in Adhesions, InsererEtValider(r, a)
  PROVE  Registre!Next
<1>. DEFINE e == req[r].email
            n == req[r].pieces
            k == req[r].cle
<1>0. adhesion \in [Adhesions -> LignesAdhesion] /\ req[r] \in EtatsRequete
  BY DEF IInv, TypeOK, LignesAdhesion, EtatsRequete
<1>1. e \in Emails /\ n \in Pieces /\ k \in Cles \cup {Aucun} /\ <<e, req[r].code>> \in recus
  BY <1>0 DEF InsererEtValider, IInv, Tient, Acceptees, EtatsRequete
<1>2. req[r].code \in Codes
  BY <1>1 DEF IInv, TypeOK
<1>3. Dossiers[a].etat = "libre" /\ Registre!Libre(e, n, k, {})
  BY UniqueLibre DEF InsererEtValider, Dossiers, DossierDe
<1>4. Dossiers' = [Dossiers EXCEPT ![a] = Registre!Dossier("vivante", e, n, k)]
  <2>1. adhesion'[a] = [etat |-> "vivante", email |-> e, pieces |-> n, cle |-> k,
                        origine |-> IF k = Aucun THEN Aucun ELSE <<e, n>>]
        /\ \A b \in Adhesions \ {a} : adhesion'[b] = adhesion[b]
    BY <1>0 DEF InsererEtValider
  <2>2. DossierDe(adhesion'[a]) = Registre!Dossier("vivante", e, n, k)
    BY <2>1 DEF DossierDe, Registre!Dossier
  <2>. QED  BY <2>1, <2>2 DEF Dossiers
<1>5. Effaces(r) \subseteq {e}
  BY HypAucun DEF Effaces, IInv, Ligne
<1>6. CodesPoses' \in {CodesPoses, [CodesPoses EXCEPT ![e] = Aucun]}
  <2>1. \A m \in Emails : otp'[m].code = IF m \in Effaces(r) THEN Aucun ELSE otp[m].code
    BY DEF InsererEtValider, SansCode
  <2>2. CASE e \in Effaces(r)
    BY <1>5, <2>1, <2>2 DEF CodesPoses
  <2>3. CASE e \notin Effaces(r)
    BY <1>5, <2>1, <2>3 DEF CodesPoses
  <2>. QED  BY <2>2, <2>3
<1>7. recus' = recus
  BY DEF InsererEtValider
<1>8. Registre!Deposer(a)
  BY <1>1, <1>2, <1>3, <1>4, <1>6, <1>7 DEF Registre!Deposer, Registre!Pieces, Pieces, Dossiers, DossierDe, CodesPoses
<1>. QED  BY <1>8 DEF Registre!Next

\* Deleting is Supprimer, correcting is Corriger.
LEMMA PasAdministrer ==
  ASSUME IInv, NEW a \in Adhesions,
         Supprimer(a) \/ \E f \in Formes : Corriger(a, f[1], f[2])
  PROVE  Registre!Next
<1>0. adhesion \in [Adhesions -> LignesAdhesion]
  BY DEF IInv, TypeOK, LignesAdhesion
<1>1. UNCHANGED <<CodesPoses, recus>> /\ Dossiers[a].etat = "vivante"
  BY DEF Supprimer, Corriger, CodesPoses, Vivante, Dossiers, DossierDe
<1>2. CASE Supprimer(a)
  <2>1. adhesion' = [adhesion EXCEPT ![a] = SansAdhesion("supprimee")]
    BY <1>2 DEF Supprimer
  <2>2. DossierDe(SansAdhesion("supprimee")) = Registre!Dossier("supprimee", Aucun, Aucun, Aucun)
    BY DEF SansAdhesion, DossierDe, Registre!Dossier
  <2>3. Dossiers' = [Dossiers EXCEPT ![a] = Registre!Dossier("supprimee", Aucun, Aucun, Aucun)]
    BY <1>0, <2>1, <2>2 DEF Dossiers
  <2>4. Registre!Supprimer(a)
    BY <1>1, <2>3 DEF Registre!Supprimer, Dossiers, DossierDe, CodesPoses
  <2>. QED  BY <2>4 DEF Registre!Next
<1>3. ASSUME NEW m \in Emails, NEW c \in Pieces, Corriger(a, m, c)
      PROVE  Registre!Next
  <2>1. adhesion' = [adhesion EXCEPT ![a] = [adhesion[a] EXCEPT !.email = m, !.pieces = c]]
    BY <1>0, <1>3 DEF Corriger
  <2>2. DossierDe([adhesion[a] EXCEPT !.email = m, !.pieces = c])
          = Registre!Dossier("vivante", m, c, adhesion[a].cle)
    <3>1. adhesion[a] \in LignesAdhesion /\ adhesion[a].etat = "vivante"
      BY <1>0, <1>3 DEF Corriger, Vivante
    <3>. QED  BY <3>1 DEF DossierDe, Registre!Dossier, LignesAdhesion
  <2>3. Dossiers' = [Dossiers EXCEPT ![a] = Registre!Dossier("vivante", m, c, Dossiers[a].cle)]
    BY <1>0, <2>1, <2>2 DEF Dossiers, DossierDe
  <2>4. Registre!Libre(m, c, Aucun, {a})
    BY <1>3, UniqueLibre DEF Corriger
  <2>5. Registre!Corriger(a)
    BY <1>1, <2>3, <2>4 DEF Registre!Corriger, Registre!Pieces, Pieces, Dossiers, DossierDe, CodesPoses
  <2>. QED  BY <2>5 DEF Registre!Next
<1>. QED  BY <1>2, <1>3, HypFormes DEF Payloads

LEMMA RegistreSuivant ==
  ASSUME IInv, Next
  PROVE  Registre!Next \/ UNCHANGED Registre!vars
<1>0. otp \in [Emails -> LignesOtp]
  BY DEF IInv, TypeOK, LignesOtp
<1>1. ASSUME NEW m \in Emails, Vieillir(m) PROVE UNCHANGED Registre!vars
  BY <1>0, <1>1, PasInvisible DEF Vieillir, LignesOtp
<1>2. ASSUME NEW r \in Requetes, CompterEchec(r) PROVE UNCHANGED Registre!vars
  BY <1>0, <1>2, PasInvisible DEF CompterEchec, LignesOtp
<1>3. ASSUME NEW r \in Requetes, Avancer(r), ~CompterEchec(r), ~EnregistrerCode(r),
             \A c \in Codes : ~EnvoyerCode(r, c), \A a \in Adhesions : ~InsererEtValider(r, a)
      PROVE  UNCHANGED Registre!vars
  <2>1. UNCHANGED <<otp, recus, adhesion>>
    BY <1>3 DEF Avancer, DemanderCode, Verifier, Deposer, ChargerCode, ControlerCode, LireCle,
                EffacerCode, ChercherConflit, Repondre, Abandonner
  <2>. QED  BY <2>1, PasInvisible
<1>. QED
  BY <1>1, <1>2, <1>3, PasEnvoyer, PasAdmettre, PasDeposer, PasAdministrer DEF Next

\* The requests, interleaved and failing at every SELECT, flush and commit,
\* implement the register in which a deposit is one step (AdhesionService.create,
\* send_email_otp, verify_email_otp): free identifiers, a code the address
\* received, and that code gone with the commit.
THEOREM Raffinement == Spec => RaffineRegistre
<1>1. Init => Registre!Init
  BY RegistreInitial
<1>2. IInv /\ [Next]_vars => [Registre!Next]_(Registre!vars)
  <2>1. ASSUME UNCHANGED vars PROVE UNCHANGED Registre!vars
    BY <2>1, PasInvisible DEF vars
  <2>. QED  BY <2>1, RegistreSuivant
<1>. QED
  BY <1>1, <1>2, Invariant, PTL DEF Spec, RaffineRegistre, Registre!Spec
=============================================================================
