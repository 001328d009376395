----------------------- MODULE ParcoursAdhesion_proofs -----------------------
(***************************************************************************)
(* Theorems about ParcoursAdhesion, for any number of requests, adhesions, *)
(* accounts and emails.                                                    *)
(***************************************************************************)
EXTENDS ParcoursAdhesion, TLAPS

LignesAdhesion == [statut : Statuts \cup {"supprimee", Aucun}, email : Emails \cup {Aucun}]
Etapes == {"repos", "compte", "ecrire", "assurer", "creer", "lier", "valider"}
EtatsRequete ==
  [etape : Etapes, op : Operations \cup {Aucun}, a : Adhesions \cup {Aucun},
   email : Emails \cup {Aucun}, c : Comptes \cup {Aucun}, lu : LignesCompte,
   statut : Statuts \cup {Aucun}, ecrit : LignesCompte \cup {Aucun}]

\* Operations that make an account.
Createurs == {"directoire", "connexion", "peupler"}

Ne(a) == adhesion[a].statut # Aucun

Histoires == [derniere : Operations \cup {Aucun, "script"}, reconnue : BOOLEAN]

Types ==
  /\ adhesion \in [Adhesions -> LignesAdhesion]
  /\ compte \in [Comptes -> LignesCompte]
  /\ req \in [Requetes -> EtatsRequete]
  /\ histoire \in [Adhesions -> Histoires]

\* What the status of an adhesion says of its past.
Passe(a) ==
  /\ adhesion[a].statut = "validee_accueil" => histoire[a].derniere \in {"accueil", "script"}
  /\ adhesion[a].statut = "validee" => histoire[a].reconnue = TRUE
  /\ Vivante(a) => adhesion[a].email \in Emails

\* An account: two rows never share an email or an adhesion, which exists.
Unique(c) ==
  /\ ~Existe(c) => compte[c] = SansCompte
  /\ compte[c].lien # Aucun => Ne(compte[c].lien)
  /\ \A d \in Comptes \ {c} : Existe(c) /\ Existe(d) =>
       /\ compte[c].email # compte[d].email
       /\ compte[c].lien = Aucun \/ compte[c].lien # compte[d].lien

\* Where a request is, in state q, and what it flushed to the adhesion it holds.
Controle(q) ==
  /\ q.etape = "repos" => q = Repos
  /\ q.etape # "repos" => q.a \in Adhesions /\ Ne(q.a) /\ q.email \in Emails /\ q.op # Aucun
  /\ q.etape \in {"compte", "ecrire"} => q.op \in Decisions /\ q.statut = Aucun
  /\ q.etape \in {"assurer", "creer", "lier"} => q.op \in Createurs
  /\ q.etape = "lier" => q.c \in Comptes
  /\ q.etape # "valider" => q.ecrit = Aucun
  /\ q.etape = "ecrire" /\ q.op = "directoire" => q.c = Aucun
  /\ q.etape = "valider" /\ q.op = "directoire" => q.c # Aucun
  /\ q.statut # Aucun => q.op \in Decisions /\ q.statut = Cible(q.op)
  /\ q.etape # "ecrire" /\ q.op = "directoire" =>
       q.statut # Aucun /\ adhesion[q.a].statut = "validee_accueil"
  /\ q.op \in {"connexion", "peupler"} => histoire[q.a].reconnue = TRUE /\ q.statut = Aucun

\* What it flushed to an account: the row of an account that exists, or of the
\* member it is about; nobody else has its email or its adhesion.
Flushe(q) ==
  q.ecrit # Aucun =>
    /\ q.c \in Comptes /\ q.ecrit \in LignesCompte /\ q.ecrit.email \in Emails
    /\ q.ecrit.lien # Aucun => Ne(q.ecrit.lien)
    /\ \/ Existe(q.c)
       \/ q.op \in Createurs /\ q.ecrit = [email |-> q.email, lien |-> q.a, actif |-> TRUE]
    /\ \A d \in Comptes \ {q.c} : Existe(d) =>
         /\ compte[d].email # q.ecrit.email
         /\ q.ecrit.lien = Aucun \/ compte[d].lien # q.ecrit.lien

\* Two requests hold different rows, and write different emails and links.
Exclusion(p, q) ==
  /\ p.statut # Aucun /\ q.statut # Aucun => p.a # q.a
  /\ p.ecrit # Aucun /\ q.ecrit # Aucun =>
       /\ p.c # q.c
       /\ p.ecrit.email # q.ecrit.email
       /\ p.ecrit.lien = Aucun \/ p.ecrit.lien # q.ecrit.lien

IInv ==
  /\ Types
  /\ \A a \in Adhesions : Passe(a)
  /\ \A c \in Comptes : Unique(c)
  /\ \A r \in Requetes : Controle(req[r]) /\ Flushe(req[r])
  /\ \A r \in Requetes : \A s \in Requetes \ {r} : Exclusion(req[r], req[s])

-----------------------------------------------------------------------------
(* The statuses, and the steps that change one request only *)

\* Each decision leads to a status; two of them recognise the member.
LEMMA Statuer ==
  ASSUME NEW op \in Decisions
  PROVE  /\ Cible(op) \in Statuts
         /\ Cible(op) = "validee_accueil" => op = "accueil"
         /\ op = "directoire" => Cible(op) = "validee"
BY DEF Decisions, Cible, Statuts

LEMMA ReposType == Repos \in EtatsRequete /\ SansCompte \in LignesCompte
BY DEF Repos, EtatsRequete, Etapes, SansCompte, LignesCompte

LEMMA Seule ==
  ASSUME IInv, UNCHANGED <<adhesion, compte, histoire>>, NEW r \in Requetes,
         NEW q \in EtatsRequete, req' = [req EXCEPT ![r] = q], Controle(q), Flushe(q),
         \A s \in Requetes \ {r} : Exclusion(q, req[s])
  PROVE  IInv'
<1>1. req'[r] = q /\ \A s \in Requetes \ {r} : req'[s] = req[s]
  BY DEF IInv, Types
<1>2. Types'
  BY DEF IInv, Types
<1>3. (\A a \in Adhesions : Passe(a)') /\ \A c \in Comptes : Unique(c)'
  BY DEF IInv, Passe, Unique, Vivante, Ne, Existe
<1>4. ASSUME NEW s \in Requetes PROVE Controle(req[s])' /\ Flushe(req[s])'
  <2>1. Controle(req'[s]) /\ Flushe(req'[s])
    BY <1>1 DEF IInv
  <2>. QED  BY <2>1 DEF Controle, Flushe, Ne, Existe
<1>5. ASSUME NEW s \in Requetes, NEW t \in Requetes \ {s} PROVE Exclusion(req[s], req[t])'
  <2>1. Exclusion(q, req[t]) => Exclusion(req[t], q)
    BY DEF Exclusion
  <2>2. Exclusion(req'[s], req'[t])
    BY <1>1, <2>1, s = r \/ t = r \/ (s # r /\ t # r) DEF IInv, Exclusion
  <2>. QED  BY <2>2 DEF Exclusion
<1>. QED  BY <1>2, <1>3, <1>4, <1>5 DEF IInv

\* A request that holds nothing excludes nobody.
LEMMA Libre ==
  ASSUME NEW q, q.statut = Aucun, q.ecrit = Aucun
  PROVE  Flushe(q) /\ \A s \in Requetes : Exclusion(q, req[s])
BY DEF Flushe, Exclusion

LEMMA Finie ==
  ASSUME IInv, UNCHANGED <<adhesion, compte, histoire>>, NEW r \in Requetes, Finir(r)
  PROVE  IInv'
<1>1. Repos.statut = Aucun /\ Repos.ecrit = Aucun /\ Controle(Repos)
  BY HypAucun DEF Repos, Controle, Createurs, Operations, Decisions
<1>. QED  BY <1>1, Libre, Seule, ReposType DEF Finir

-----------------------------------------------------------------------------
(* The steps that only read *)

LEMMA LirePas ==
  ASSUME IInv, NEW r \in Requetes, NEW op \in Decisions, NEW a \in Adhesions, Lire(r, op, a)
  PROVE  IInv'
<1>. DEFINE q == [Repos EXCEPT !.op = op, !.a = a, !.email = adhesion[a].email,
                    !.etape = IF op \in {"radier", "rehabiliter"} THEN "compte" ELSE "ecrire"]
<1>1. adhesion[a].email \in Emails /\ Ne(a)
  BY HypAucun DEF Lire, IInv, Passe, Vivante, Ne
<1>2. /\ q \in EtatsRequete /\ q.etape \in {"compte", "ecrire"} /\ q.op = op /\ q.a = a
      /\ q.email = adhesion[a].email /\ q.c = Aucun /\ q.statut = Aucun /\ q.ecrit = Aucun
      /\ q.etape = "compte" => op # "directoire"
  BY <1>1, ReposType DEF Repos, EtatsRequete, Etapes, Operations, LignesCompte
<1>3. req' = [req EXCEPT ![r] = q] /\ UNCHANGED <<adhesion, compte, histoire>>
  BY DEF Lire
<1>. HIDE DEF q
<1>4. Controle(q)
  BY <1>1, <1>2, HypAucun DEF Controle, Operations, Decisions, Createurs
<1>. QED  BY <1>2, <1>3, <1>4, Libre, Seule

LEMMA ConnecterPas ==
  ASSUME IInv, NEW r \in Requetes, NEW e \in Emails, NEW a \in Adhesions, Connecter(r, e, a)
  PROVE  IInv'
<1>. DEFINE q == [Repos EXCEPT !.op = "connexion", !.a = a, !.email = e, !.etape = "assurer"]
<1>1. histoire[a].reconnue = TRUE /\ Ne(a)
  BY HypAucun DEF Connecter, Reconnu, IInv, Passe, Ne, Statuts
<1>2. /\ q \in EtatsRequete /\ q.etape = "assurer" /\ q.op = "connexion" /\ q.a = a
      /\ q.email = e /\ q.c = Aucun /\ q.statut = Aucun /\ q.ecrit = Aucun
  BY ReposType DEF Repos, EtatsRequete, Etapes, Operations
<1>3. req' = [req EXCEPT ![r] = q] /\ UNCHANGED <<adhesion, compte, histoire>>
  BY DEF Connecter
<1>. HIDE DEF q
<1>4. Controle(q)
  BY <1>1, <1>2, HypAucun DEF Controle, Operations, Createurs
<1>. QED  BY <1>2, <1>3, <1>4, Libre, Seule

LEMMA PeuplerPas ==
  ASSUME IInv, NEW r \in Requetes, NEW a \in Adhesions, Peupler(r, a)
  PROVE  IInv'
<1>. DEFINE q == [Repos EXCEPT !.op = "peupler", !.a = a, !.etape = "assurer",
                               !.email = adhesion[a].email]
<1>1. histoire[a].reconnue = TRUE /\ Ne(a) /\ adhesion[a].email \in Emails
  BY HypAucun DEF Peupler, IInv, Passe, Ne, Vivante, Statuts
<1>2. /\ q \in EtatsRequete /\ q.etape = "assurer" /\ q.op = "peupler" /\ q.a = a
      /\ q.email = adhesion[a].email /\ q.c = Aucun /\ q.statut = Aucun /\ q.ecrit = Aucun
  BY <1>1, ReposType DEF Repos, EtatsRequete, Etapes, Operations
<1>3. req' = [req EXCEPT ![r] = q] /\ UNCHANGED <<adhesion, compte, histoire>>
  BY DEF Peupler
<1>. HIDE DEF q
<1>4. Controle(q)
  BY <1>1, <1>2, HypAucun DEF Controle, Operations, Createurs
<1>. QED  BY <1>2, <1>3, <1>4, Libre, Seule

LEMMA LireComptePas ==
  ASSUME IInv, NEW r \in Requetes, LireCompte(r)
  PROVE  IInv'
<1>. DEFINE q1 == [req[r] EXCEPT !.etape = "ecrire"]
<1>0. req[r] \in EtatsRequete /\ Controle(req[r]) /\ req[r].etape = "compte"
  BY DEF LireCompte, IInv, Types
<1>1. ASSUME NEW q \in EtatsRequete, q.etape = "ecrire", q.op = req[r].op, q.a = req[r].a,
             q.email = req[r].email, q.statut = req[r].statut, q.ecrit = req[r].ecrit,
             q.op = "directoire" => q.c = Aucun, req' = [req EXCEPT ![r] = q]
      PROVE  IInv'
  <2>1. Controle(q) /\ q.statut = Aucun /\ q.ecrit = Aucun
    BY <1>0, <1>1 DEF Controle, Decisions
  <2>. QED  BY <1>1, <2>1, Libre, Seule DEF LireCompte
<1>2. req[r].op # "directoire"
  BY <1>0, HypAucun DEF Controle
<1>3. ASSUME NEW c \in Comptes,
             req' = [req EXCEPT ![r].etape = "ecrire", ![r].c = c, ![r].lu = compte[c]]
      PROVE  IInv'
  <2>. DEFINE q == [req[r] EXCEPT !.etape = "ecrire", !.c = c, !.lu = compte[c]]
  <2>1. compte[c] \in LignesCompte
    BY DEF IInv, Types
  <2>2. /\ q \in EtatsRequete /\ q.etape = "ecrire" /\ q.op = req[r].op /\ q.a = req[r].a
        /\ q.email = req[r].email /\ q.statut = req[r].statut /\ q.ecrit = req[r].ecrit
    BY <1>0, <2>1 DEF EtatsRequete, Etapes
  <2>3. req' = [req EXCEPT ![r] = q]
    BY <1>3 DEF IInv, Types
  <2>. HIDE DEF q
  <2>. QED  BY <1>1, <1>2, <2>2, <2>3
<1>4. CASE Parle(r, "ecrire")
  <2>1. /\ q1 \in EtatsRequete /\ q1.etape = "ecrire" /\ q1.op = req[r].op /\ q1.a = req[r].a
        /\ q1.email = req[r].email /\ q1.statut = req[r].statut /\ q1.ecrit = req[r].ecrit
    BY <1>0 DEF EtatsRequete, Etapes
  <2>2. req' = [req EXCEPT ![r] = q1]
    BY <1>4 DEF Parle, IInv, Types
  <2>. HIDE DEF q1
  <2>. QED  BY <1>1, <1>2, <2>1, <2>2
<1>. QED  BY <1>3, <1>4 DEF LireCompte

LEMMA AssurerPas ==
  ASSUME IInv, NEW r \in Requetes, Assurer(r)
  PROVE  IInv'
<1>0. /\ req[r] \in EtatsRequete /\ Controle(req[r]) /\ req[r].etape = "assurer"
      /\ UNCHANGED <<adhesion, compte, histoire>>
  BY DEF Assurer, IInv, Types
\* Whatever it finds, it keeps the adhesion it holds.
<1>1. ASSUME NEW q \in EtatsRequete, q.etape \in {"creer", "lier", "valider"},
             q.op = req[r].op, q.a = req[r].a, q.email = req[r].email,
             q.statut = req[r].statut, q.ecrit = req[r].ecrit,
             q.etape # "creer" => q.c \in Comptes, req' = [req EXCEPT ![r] = q]
      PROVE  IInv'
  <2>1. Controle(q) /\ q.ecrit = Aucun
    BY <1>0, <1>1, HypAucun DEF Controle, Createurs
  <2>2. Flushe(q) /\ \A s \in Requetes \ {r} : Exclusion(q, req[s])
    BY <1>1, <2>1 DEF Flushe, Exclusion, IInv
  <2>. QED  BY <1>0, <1>1, <2>1, <2>2, Seule
<1>2. CASE Parle(r, "creer")
  <2>. DEFINE q == [req[r] EXCEPT !.etape = "creer"]
  <2>1. /\ q \in EtatsRequete /\ q.etape = "creer" /\ q.op = req[r].op /\ q.a = req[r].a
        /\ q.email = req[r].email /\ q.statut = req[r].statut /\ q.ecrit = req[r].ecrit
    BY <1>0 DEF EtatsRequete, Etapes
  <2>2. req' = [req EXCEPT ![r] = q]
    BY <1>2 DEF Parle, IInv, Types
  <2>. HIDE DEF q
  <2>. QED  BY <1>1, <2>1, <2>2
<1>3. ASSUME NEW c \in Comptes, NEW e \in {"valider", "lier"},
             req' = [req EXCEPT ![r].etape = e, ![r].c = c]
      PROVE  IInv'
  <2>. DEFINE q == [req[r] EXCEPT !.etape = e, !.c = c]
  <2>1. /\ q \in EtatsRequete /\ q.etape = e /\ q.op = req[r].op /\ q.a = req[r].a
        /\ q.email = req[r].email /\ q.statut = req[r].statut /\ q.ecrit = req[r].ecrit
        /\ q.c = c
    BY <1>0 DEF EtatsRequete, Etapes
  <2>2. req' = [req EXCEPT ![r] = q]
    BY <1>3 DEF IInv, Types
  <2>. HIDE DEF q
  <2>. QED  BY <1>1, <2>1, <2>2
<1>. QED  BY <1>0, <1>2, <1>3, Finie DEF Assurer

LEMMA AbandonnerPas ==
  ASSUME IInv, NEW r \in Requetes, Abandonner(r)
  PROVE  IInv'
BY Finie DEF Abandonner

-----------------------------------------------------------------------------
(* The steps that flush *)

\* The UPDATE of the adhesion, and of the account a radiation loaded.
LEMMA EcrirePas ==
  ASSUME IInv, NEW r \in Requetes, Ecrire(r)
  PROVE  IInv'
<1>. DEFINE op == req[r].op
            c == req[r].c
            e == IF c = Aucun THEN Aucun ELSE CompteEcrit(r)
            q == [req[r] EXCEPT !.statut = Cible(op),
                                !.etape = IF op = "directoire" THEN "assurer" ELSE "valider",
                                !.ecrit = e]
<1>0. /\ req[r] \in EtatsRequete /\ Controle(req[r]) /\ req[r].etape = "ecrire"
      /\ UNCHANGED <<adhesion, compte, histoire>> /\ op \in Decisions
      /\ ~TientAdhesion(req[r].a) /\ (c # Aucun => ~TientCompte(c))
  BY DEF Ecrire, IInv, Types, Controle
<1>1. CASE Finir(r)
  BY <1>0, <1>1, Finie
<1>2. CASE Touches(r) /\ ~CompteParti(r) /\ req' = [req EXCEPT ![r] = q]
  <2>1. e # Aucun => /\ c \in Comptes /\ Existe(c)
                     /\ e \in LignesCompte /\ e.email = compte[c].email /\ e.lien = compte[c].lien
    <3>. SUFFICES ASSUME e # Aucun PROVE /\ c \in Comptes /\ Existe(c)
                     /\ e \in LignesCompte /\ e.email = compte[c].email /\ e.lien = compte[c].lien
      OBVIOUS
    <3>1. c \in Comptes /\ e = [compte[c] EXCEPT !.actif = (op = "rehabiliter")]
      BY <1>0 DEF CompteEcrit, EtatsRequete
    <3>2. Existe(c)
      BY <1>2, <3>1, HypAucun DEF CompteParti, CompteEcrit
    <3>3. compte[c] \in LignesCompte /\ (op = "rehabiliter") \in BOOLEAN
      BY <3>1 DEF IInv, Types
    <3>. HIDE DEF e
    <3>. QED  BY <3>1, <3>2, <3>3 DEF LignesCompte
  <2>2. e \in LignesCompte \cup {Aucun}
    BY <2>1
  <2>3. /\ q \in EtatsRequete /\ q.op = op /\ q.a = req[r].a /\ q.email = req[r].email
        /\ q.etape = (IF op = "directoire" THEN "assurer" ELSE "valider")
        /\ q.statut = Cible(op) /\ q.ecrit = e /\ q.c = c
    <3>1. Cible(op) \in Statuts
      BY <1>0, Statuer
    <3>. DEFINE p == IF op = "directoire" THEN "assurer" ELSE "valider"
                st == Cible(op)
    <3>2. p \in Etapes
      BY DEF Etapes
    <3>. HIDE DEF e, p, st
    <3>3. q = [req[r] EXCEPT !.statut = st, !.etape = p, !.ecrit = e]
      BY DEF p, st
    <3>. HIDE DEF q
    <3>. QED  BY <1>0, <2>2, <3>1, <3>2, <3>3 DEF EtatsRequete, st, p
  <2>4. op = "directoire" => /\ c = Aucun
                             /\ adhesion[req[r].a].statut = "validee_accueil"
    BY <1>0, <1>2 DEF Controle, Touches, Admissible
  <2>. HIDE DEF q, e
  <2>5. op = "directoire" => e = Aucun
    BY <2>4 DEF e
  <2>6. Controle(q)
    BY <1>0, <2>3, <2>4, <2>5, Statuer, HypAucun DEF Controle, Decisions, Createurs
  <2>7. Flushe(q)
    BY <1>0, <2>1, <2>3 DEF Flushe, IInv, Types, LignesCompte, Unique, Existe
  <2>8. ASSUME NEW s \in Requetes \ {r} PROVE Exclusion(q, req[s])
    <3>1. req[s].statut # Aucun => q.a # req[s].a
      BY <1>0, <2>3 DEF TientAdhesion
    <3>2. q.ecrit # Aucun /\ req[s].ecrit # Aucun => q.c # req[s].c
      BY <1>0, <2>1, <2>3, HypAucun DEF TientCompte
    <3>3. q.ecrit # Aucun /\ req[s].ecrit # Aucun =>
            /\ compte[c].email # req[s].ecrit.email
            /\ req[s].ecrit.lien = Aucun \/ compte[c].lien # req[s].ecrit.lien
      BY <2>1, <2>3, <3>2 DEF IInv, Flushe
    <3>. QED  BY <2>1, <2>3, <3>1, <3>2, <3>3 DEF Exclusion
  <2>. QED  BY <1>0, <1>2, <2>3, <2>6, <2>7, <2>8, Seule
<1>3. (CompteParti(r) \/ ~Touches(r)) => Finir(r)
  BY DEF Ecrire
<1>4. ~(CompteParti(r) \/ ~Touches(r)) => req' = [req EXCEPT ![r] = q]
  BY DEF Ecrire, IInv, Types
<1>. QED  BY <1>1, <1>2, <1>3, <1>4

\* An account flushed at the end of the path: it excludes the other requests.
LEMMA CompteFlushe ==
  ASSUME IInv, UNCHANGED <<adhesion, compte, histoire>>, NEW r \in Requetes,
         req[r].etape \in {"creer", "lier"}, NEW c \in Comptes, NEW e \in LignesCompte,
         req' = [req EXCEPT ![r].etape = "valider", ![r].c = c, ![r].ecrit = e],
         e.email \in Emails, e.lien = req[r].a,
         Existe(c) \/ e = [email |-> req[r].email, lien |-> req[r].a, actif |-> TRUE],
         \A d \in Comptes \ {c} : Existe(d) =>
           compte[d].email # e.email /\ compte[d].lien # req[r].a,
         \A s \in Requetes : req[s].ecrit # Aucun =>
           req[s].c # c /\ req[s].ecrit.email # e.email /\ req[s].ecrit.lien # req[r].a
  PROVE  IInv'
<1>. DEFINE q == [req[r] EXCEPT !.etape = "valider", !.c = c, !.ecrit = e]
<1>0. req[r] \in EtatsRequete /\ Controle(req[r])
  BY DEF IInv, Types
<1>1. /\ q \in EtatsRequete /\ q.etape = "valider" /\ q.op = req[r].op /\ q.a = req[r].a
      /\ q.email = req[r].email /\ q.statut = req[r].statut /\ q.c = c /\ q.ecrit = e
  BY <1>0 DEF EtatsRequete, Etapes
<1>2. req' = [req EXCEPT ![r] = q]
  BY DEF IInv, Types
<1>. HIDE DEF q
<1>3. Controle(q) /\ Ne(q.a) /\ q.op \in Createurs
  BY <1>0, <1>1, HypAucun DEF Controle, Createurs
<1>4. Flushe(q)
  BY <1>1, <1>3 DEF Flushe
<1>5. ASSUME NEW s \in Requetes \ {r} PROVE Exclusion(q, req[s])
  <2>1. Exclusion(req[r], req[s])
    BY DEF IInv
  <2>. QED  BY <1>1, <2>1 DEF Exclusion
<1>. QED  BY <1>1, <1>2, <1>3, <1>4, <1>5, Seule

LEMMA CreerPas ==
  ASSUME IInv, NEW r \in Requetes, NEW c \in Comptes, Creer(r, c)
  PROVE  IInv'
<1>. DEFINE a == req[r].a
            e == [email |-> req[r].email, lien |-> a, actif |-> TRUE]
<1>0. /\ req[r].etape = "creer" /\ a \in Adhesions /\ req[r].email \in Emails
      /\ UNCHANGED <<adhesion, compte, histoire>>
  BY DEF Creer, IInv, Controle
<1>1. CASE Finir(r)
  BY <1>0, <1>1, Finie
<1>2. CASE /\ ~Pris(req[r].email, a, {})
           /\ req' = [req EXCEPT ![r].etape = "valider", ![r].c = c, ![r].ecrit = e]
  <2>1. e \in LignesCompte /\ e.email = req[r].email /\ e.lien = a
    BY <1>0 DEF LignesCompte
  <2>2. \A d \in Comptes \ {c} : Existe(d) => compte[d].email # req[r].email /\ compte[d].lien # a
    BY <1>0, <1>2, HypAucun DEF Pris
  <2>3. \A s \in Requetes : req[s].ecrit # Aucun =>
          req[s].c # c /\ req[s].ecrit.email # req[r].email /\ req[s].ecrit.lien # a
    BY <1>0, HypAucun DEF Creer, EnCours, TientCompte
  <2>4. e = [email |-> req[r].email, lien |-> req[r].a, actif |-> TRUE]
    OBVIOUS
  <2>. HIDE DEF e
  <2>. QED  BY <1>0, <1>2, <2>1, <2>2, <2>3, <2>4, CompteFlushe
<1>. QED  BY <1>1, <1>2 DEF Creer

LEMMA LierPas ==
  ASSUME IInv, NEW r \in Requetes, Lier(r)
  PROVE  IInv'
<1>. DEFINE a == req[r].a
            c == req[r].c
            e == [compte[c] EXCEPT !.lien = a]
<1>0. /\ req[r].etape = "lier" /\ a \in Adhesions /\ c \in Comptes
      /\ req[r] \in EtatsRequete /\ compte[c] \in LignesCompte
      /\ UNCHANGED <<adhesion, compte, histoire>>
  BY DEF Lier, IInv, Controle, Types
<1>1. CASE Finir(r)
  BY <1>0, <1>1, Finie
<1>2. CASE /\ Existe(c) /\ ~Pris(compte[c].email, a, {c})
           /\ req' = [req EXCEPT ![r].etape = "valider", ![r].ecrit = e]
  <2>1. e \in LignesCompte /\ e.email = compte[c].email /\ e.lien = a /\ e.email \in Emails
    BY <1>0, <1>2 DEF LignesCompte, Existe
  <2>2. \A d \in Comptes \ {c} : Existe(d) => compte[d].email # compte[c].email /\ compte[d].lien # a
    BY <1>0, <1>2, HypAucun DEF Pris
  <2>3. ASSUME NEW s \in Requetes, req[s].ecrit # Aucun
        PROVE  req[s].c # c /\ req[s].ecrit.email # compte[c].email /\ req[s].ecrit.lien # a
    <3>1. req[s].c # c /\ req[s].ecrit.lien # a
      BY <1>0, <2>3, HypAucun DEF Lier, EnCours, TientCompte
    <3>2. Flushe(req[s])
      BY DEF IInv
    <3>. QED  BY <1>0, <1>2, <2>3, <3>1, <3>2 DEF Flushe
  <2>4. req' = [req EXCEPT ![r].etape = "valider", ![r].c = c, ![r].ecrit = e]
    <3>. HIDE DEF e
    <3>1. \A q \in EtatsRequete : [q EXCEPT !.etape = "valider", !.c = q.c, !.ecrit = e]
                                  = [q EXCEPT !.etape = "valider", !.ecrit = e]
      BY DEF EtatsRequete
    <3>. QED  BY <1>0, <1>2, <3>1 DEF IInv, Types
  <2>5. /\ e.lien = req[r].a /\ req[r].etape \in {"creer", "lier"}
        /\ \A d \in Comptes \ {c} : Existe(d) =>
             compte[d].email # e.email /\ compte[d].lien # req[r].a
        /\ \A s \in Requetes : req[s].ecrit # Aucun =>
             req[s].c # c /\ req[s].ecrit.email # e.email /\ req[s].ecrit.lien # req[r].a
    <3>. HIDE DEF e, c
    <3>. QED  BY <1>0, <2>1, <2>2, <2>3
  <2>6. Existe(c)
    BY <1>2
  <2>. HIDE DEF e, c, a
  <2>. QED  BY <1>0, <2>1, <2>4, <2>5, <2>6, CompteFlushe
<1>. QED  BY <1>1, <1>2 DEF Lier

-----------------------------------------------------------------------------
(* The commit *)

\* A request that does not move keeps what it knew: adhesions stay, recognised
\* ones stay so, and the one it holds keeps its status.
LEMMA ControleAutres ==
  ASSUME IInv, NEW s \in Requetes, req'[s] = req[s],
         \A a \in Adhesions : /\ Ne(a) => adhesion'[a].statut # Aucun
                              /\ Ne(a) /\ histoire[a].reconnue = TRUE => histoire'[a].reconnue = TRUE,
         req[s].statut # Aucun => adhesion'[req[s].a].statut = adhesion[req[s].a].statut
  PROVE  Controle(req[s])'
<1>. DEFINE q == req[s]
<1>1. Controle(q)
  BY DEF IInv
<1>2. q.etape = "repos" => q.op = Aucun /\ q.statut = Aucun
  BY <1>1 DEF Controle, Repos
<1>3. CASE q.op \in {"directoire", "connexion", "peupler"}
  <2>1. q.a \in Adhesions /\ Ne(q.a) /\ q.etape # "repos"
    BY <1>1, <1>2, <1>3, HypAucun DEF Controle, Operations, Decisions
  <2>. QED  BY <1>1, <1>2, <1>3, <2>1 DEF Controle, Ne
<1>4. CASE q.op \notin {"directoire", "connexion", "peupler"}
  BY <1>1, <1>2, <1>4 DEF Controle, Ne
<1>. QED  BY <1>3, <1>4

LEMMA ValiderPas ==
  ASSUME IInv, NEW r \in Requetes, Valider(r)
  PROVE  IInv'
<1>. DEFINE q == req[r]
<1>0. /\ q \in EtatsRequete /\ Controle(q) /\ Flushe(q) /\ q.etape = "valider"
      /\ q.a \in Adhesions /\ Finir(r) /\ req'[r] = Repos
      /\ \A s \in Requetes \ {r} : req'[s] = req[s] /\ Exclusion(q, req[s])
  BY DEF Valider, Pret, IInv, Types, Controle, Finir
<1>1. Types'
  <2>1. adhesion' \in [Adhesions -> LignesAdhesion]
    <3>1. q.statut = Aucun \/ q.statut \in Statuts
      BY <1>0 DEF EtatsRequete
    <3>2. \A a \in Adhesions : adhesion[a] \in LignesAdhesion
      BY DEF IInv, Types
    <3>. DEFINE l == [adhesion[q.a] EXCEPT !.statut = IF @ \in Statuts THEN q.statut ELSE @]
    <3>3. q.statut # Aucun => l \in LignesAdhesion
      BY <1>0, <3>1, <3>2 DEF LignesAdhesion
    <3>4. adhesion' = IF q.statut = Aucun THEN adhesion ELSE [adhesion EXCEPT ![q.a] = l]
      BY <1>0 DEF Valider, IInv, Types
    <3>. HIDE DEF l
    <3>. QED  BY <1>0, <3>3, <3>4 DEF IInv, Types
  <2>2. compte' \in [Comptes -> LignesCompte]
    BY <1>0 DEF Valider, IInv, Types, Flushe
  <2>3. req' \in [Requetes -> EtatsRequete]
    BY <1>0, ReposType DEF IInv, Types, Finir
  <2>4. histoire' \in [Adhesions -> Histoires]
    BY <1>0 DEF Histoires, Valider, Decider, IInv, Types, EtatsRequete
  <2>. QED  BY <2>1, <2>2, <2>3, <2>4 DEF Types
<1>2. \A a \in Adhesions : /\ Ne(a) => adhesion'[a].statut # Aucun
                           /\ histoire[a].reconnue = TRUE => histoire'[a].reconnue = TRUE
                           /\ a # q.a \/ q.statut = Aucun =>
                                adhesion'[a] = adhesion[a] /\ histoire'[a] = histoire[a]
                           /\ adhesion'[a].email = adhesion[a].email
  BY <1>0, HypAucun DEF Histoires, Valider, Decider, IInv, Types, LignesAdhesion, EtatsRequete, Ne
<1>3. ASSUME NEW a \in Adhesions PROVE Passe(a)'
  <2>1. CASE a # q.a \/ q.statut = Aucun
    BY <1>2, <2>1 DEF IInv, Passe, Vivante
  <2>2. CASE a = q.a /\ q.statut # Aucun
    <3>1. /\ adhesion'[a].statut = IF adhesion[a].statut \in Statuts THEN q.statut
                                   ELSE adhesion[a].statut
          /\ histoire'[a].derniere = q.op
          /\ Cible(q.op) = "validee" => histoire'[a].reconnue = TRUE
          /\ q.statut = Cible(q.op) /\ q.op \in Decisions
      BY <1>0, <2>2 DEF Histoires, Valider, Decider, IInv, Types, LignesAdhesion, Controle
    <3>2. adhesion[a].statut \notin Statuts => ~Vivante(a)'
      BY <3>1 DEF Vivante
    <3>. QED  BY <1>2, <3>1, <3>2, Statuer DEF IInv, Passe, Vivante, Statuts
  <2>. QED  BY <2>1, <2>2
<1>4. \A c \in Comptes : compte'[c] = IF q.ecrit # Aucun /\ c = q.c THEN q.ecrit ELSE compte[c]
  BY <1>0 DEF Valider, IInv, Types, Flushe
<1>5. q.ecrit # Aucun => /\ q.c \in Comptes /\ q.ecrit.email \in Emails
                         /\ q.ecrit.lien # Aucun => q.ecrit.lien \in Adhesions /\ Ne(q.ecrit.lien)
                         /\ \A d \in Comptes \ {q.c} : Existe(d) =>
                              /\ compte[d].email # q.ecrit.email
                              /\ q.ecrit.lien = Aucun \/ compte[d].lien # q.ecrit.lien
  BY <1>0 DEF Flushe, LignesCompte
<1>6. \A c \in Comptes : compte[c].lien # Aucun => compte[c].lien \in Adhesions
  BY DEF IInv, Types, LignesCompte
<1>7. ASSUME NEW c \in Comptes PROVE Unique(c)'
  <2>1. Unique(c)
    BY DEF IInv
  <2>2. q.ecrit # Aucun => q.ecrit.email # Aucun
    BY <1>5, HypAucun
  <2>3. ~Existe(c)' => compte'[c] = SansCompte
    BY <1>4, <2>1, <2>2 DEF Unique, Existe
  <2>5. compte'[c].lien # Aucun => adhesion'[compte'[c].lien].statut # Aucun
    BY <1>2, <1>4, <1>5, <1>6, <2>1 DEF Unique, Ne
  <2>6. ASSUME NEW d \in Comptes \ {c}, compte'[c].email # Aucun, compte'[d].email # Aucun
        PROVE  /\ compte'[c].email # compte'[d].email
               /\ compte'[c].lien = Aucun \/ compte'[c].lien # compte'[d].lien
    BY <1>4, <1>5, <2>1, <2>6 DEF Unique, Existe
  <2>. QED  BY <2>3, <2>5, <2>6 DEF Unique, Existe, Ne
<1>8. ASSUME NEW s \in Requetes PROVE Controle(req[s])' /\ Flushe(req[s])'
  <2>1. CASE s = r
    <3>1. Controle(Repos)' /\ Flushe(Repos)'
      BY HypAucun DEF Repos, Controle, Flushe, Createurs, Operations, Decisions
    <3>. QED  BY <1>0, <2>1, <3>1 DEF Controle, Flushe
  <2>2. CASE s # r
    <3>1. req'[s] = req[s] /\ Exclusion(q, req[s]) /\ Flushe(req[s])
      BY <1>0, <2>2 DEF IInv
    <3>2. req[s].statut # Aucun => adhesion'[req[s].a].statut = adhesion[req[s].a].statut
      <4>1. req[s].statut # Aucun => req[s].a \in Adhesions
        BY DEF IInv, Controle, Repos
      <4>. QED  BY <1>2, <3>1, <4>1 DEF Exclusion
    <3>3. Controle(req[s])'
      BY <1>2, <3>1, <3>2, ControleAutres
    <3>4. req[s].ecrit # Aucun => /\ req[s].c \in Comptes /\ compte'[req[s].c] = compte[req[s].c]
                                  /\ req[s].ecrit.lien # Aucun => req[s].ecrit.lien \in Adhesions
      BY <1>4, <3>1 DEF Exclusion, Flushe, LignesCompte
    <3>5. Flushe(req[s])'
      BY <1>2, <1>4, <1>5, <3>1, <3>4 DEF Flushe, Exclusion, Existe, Ne
    <3>. QED  BY <3>3, <3>5
  <2>. QED  BY <2>1, <2>2
<1>9. ASSUME NEW s \in Requetes, NEW t \in Requetes \ {s} PROVE Exclusion(req[s], req[t])'
  <2>1. Exclusion(req'[s], req'[t])
    BY <1>0 DEF IInv, Exclusion, Repos
  <2>. QED  BY <2>1 DEF Exclusion
<1>. QED  BY <1>1, <1>3, <1>7, <1>8, <1>9 DEF IInv

-----------------------------------------------------------------------------
(* Deposits, administrators and scripts: the requests do not move *)

LEMMA SansRequete ==
  ASSUME IInv, UNCHANGED req, Types', \A a \in Adhesions : Passe(a)',
         \A c \in Comptes : Unique(c)', \A r \in Requetes : Flushe(req[r])',
         \A a \in Adhesions :
           /\ Ne(a) => adhesion'[a].statut # Aucun
           /\ Ne(a) /\ histoire[a].reconnue = TRUE => histoire'[a].reconnue = TRUE
           /\ Ne(a) /\ TientAdhesion(a) => adhesion'[a].statut = adhesion[a].statut
  PROVE  IInv'
<1>1. ASSUME NEW s \in Requetes PROVE Controle(req[s])'
  <2>1. req[s].statut # Aucun => req[s].a \in Adhesions /\ Ne(req[s].a) /\ TientAdhesion(req[s].a)
    BY DEF IInv, Controle, Repos, TientAdhesion
  <2>. QED  BY <2>1, ControleAutres
<1>2. \A r \in Requetes : \A s \in Requetes \ {r} : Exclusion(req[r], req[s])'
  BY DEF IInv, Exclusion
<1>. QED  BY <1>1, <1>2 DEF IInv

\* The same when the accounts do not change either.
LEMMA SansCompteNiRequete ==
  ASSUME IInv, UNCHANGED <<req, compte>>, Types', \A a \in Adhesions : Passe(a)',
         \A a \in Adhesions :
           /\ Ne(a) => adhesion'[a].statut # Aucun
           /\ Ne(a) /\ histoire[a].reconnue = TRUE => histoire'[a].reconnue = TRUE
           /\ Ne(a) /\ TientAdhesion(a) => adhesion'[a].statut = adhesion[a].statut
  PROVE  IInv'
<1>1. \A c \in Comptes : compte[c] \in LignesCompte
  BY DEF IInv, Types
<1>2. \A c \in Comptes : Unique(c)'
  BY <1>1 DEF IInv, Unique, Ne, Existe, LignesCompte
<1>3. ASSUME NEW r \in Requetes PROVE Flushe(req[r])'
  <2>1. Flushe(req[r])
    BY DEF IInv
  <2>. QED  BY <2>1 DEF Flushe, Ne, Existe, LignesCompte
<1>. QED  BY <1>2, <1>3, SansRequete

\* The same when only accounts change.
LEMMA CompteSeul ==
  ASSUME IInv, UNCHANGED <<req, adhesion, histoire>>, NEW c \in Comptes, NEW l \in LignesCompte,
         compte' = [compte EXCEPT ![c] = l], ~TientCompte(c),
         l.lien = Aucun \/ l.lien = compte[c].lien,
         l.email = Aucun => l = SansCompte,
         l.email # Aucun =>
           /\ \A d \in Comptes \ {c} : Existe(d) => compte[d].email # l.email
           /\ \A r \in Requetes : req[r].ecrit # Aucun => req[r].ecrit.email # l.email
  PROVE  IInv'
<1>1. compte'[c] = l /\ \A d \in Comptes \ {c} : compte'[d] = compte[d]
  BY DEF IInv, Types
<1>2. Types'
  BY DEF IInv, Types
<1>3. \A a \in Adhesions : Passe(a)'
  BY DEF IInv, Passe, Vivante
<1>4. Unique(c)
  BY DEF IInv
<1>5. Existe(c) \/ compte[c].lien = Aucun
  BY <1>4 DEF Unique, SansCompte
<1>6. ASSUME NEW d \in Comptes PROVE Unique(d)'
  <2>1. Unique(d)
    BY DEF IInv
  <2>2. CASE d = c
    BY <1>1, <1>4, <1>5, <2>2 DEF Unique, Existe, Ne
  <2>3. CASE d # c
    BY <1>1, <1>4, <1>5, <2>1, <2>3 DEF Unique, Existe, Ne
  <2>. QED  BY <2>2, <2>3
<1>7. ASSUME NEW r \in Requetes PROVE Flushe(req[r])'
  <2>1. Flushe(req[r])
    BY DEF IInv
  <2>2. req[r].ecrit # Aucun => req[r].c # c
    BY DEF TientCompte
  <2>. QED  BY <1>1, <1>5, <2>1, <2>2 DEF Flushe, Existe, Ne
<1>. QED  BY <1>2, <1>3, <1>6, <1>7, SansRequete DEF Ne

LEMMA DeposerPas ==
  ASSUME IInv, NEW a \in Adhesions, NEW e \in Emails, Deposer(a, e)
  PROVE  IInv'
<1>1. ~Ne(a)
  BY DEF Deposer, SansAdhesion, Ne
<1>2. Types'
  BY DEF Deposer, IInv, Types, LignesAdhesion, Statuts
<1>3. \A b \in Adhesions : Passe(b)'
  BY DEF Deposer, IInv, Types, Passe, Vivante
<1>. QED  BY <1>1, <1>2, <1>3, SansCompteNiRequete DEF Deposer, IInv, Types, Ne

LEMMA CorrigerPas ==
  ASSUME IInv, NEW a \in Adhesions, NEW e \in Emails, Corriger(a, e)
  PROVE  IInv'
<1>1. Types'
  BY DEF Corriger, IInv, Types, LignesAdhesion
<1>2. \A b \in Adhesions : adhesion'[b].statut = adhesion[b].statut
                           /\ adhesion'[b].email \in {adhesion[b].email, e}
  BY DEF Corriger, IInv, Types, LignesAdhesion
<1>3. \A b \in Adhesions : Passe(b)'
  BY <1>2 DEF Corriger, IInv, Passe, Vivante
<1>. QED  BY <1>1, <1>2, <1>3, SansCompteNiRequete DEF Corriger, Ne

LEMMA SupprimerPas ==
  ASSUME IInv, NEW a \in Adhesions, Supprimer(a)
  PROVE  IInv'
<1>. DEFINE l == [SansAdhesion EXCEPT !.statut = "supprimee"]
<1>1. l \in LignesAdhesion /\ l.statut = "supprimee" /\ l.statut # Aucun
  BY HypAucun DEF SansAdhesion, LignesAdhesion
<1>2. adhesion' = [adhesion EXCEPT ![a] = l] /\ ~TientAdhesion(a) /\ UNCHANGED <<compte, req, histoire>>
  BY DEF Supprimer
<1>. HIDE DEF l
<1>3. /\ adhesion'[a] = l
      /\ \A b \in Adhesions \ {a} : adhesion'[b] = adhesion[b]
  BY <1>2 DEF IInv, Types
<1>4. Types'
  BY <1>1, <1>2 DEF IInv, Types
<1>5. ASSUME NEW b \in Adhesions PROVE Passe(b)'
  <2>1. Passe(b)
    BY DEF IInv
  <2>. QED  BY <1>1, <1>2, <1>3, <2>1, b = a \/ b # a DEF Passe, Vivante, Statuts
<1>. QED  BY <1>1, <1>2, <1>3, <1>4, <1>5, SansCompteNiRequete DEF Ne

LEMMA CreerComptePas ==
  ASSUME IInv, NEW c \in Comptes, NEW e \in Emails, CreerCompte(c, e)
  PROVE  IInv'
<1>. DEFINE l == [email |-> e, lien |-> Aucun, actif |-> TRUE]
<1>1. l \in LignesCompte /\ l.email = e /\ l.lien = Aucun /\ e # Aucun
  BY HypAucun DEF LignesCompte
<1>2. /\ compte' = [compte EXCEPT ![c] = l] /\ ~TientCompte(c)
      /\ UNCHANGED <<req, adhesion, histoire>>
      /\ \A d \in Comptes : Existe(d) => compte[d].email # e
      /\ \A r \in Requetes : req[r].ecrit # Aucun => req[r].ecrit.email # e
  BY DEF CreerCompte, Pris, EnCours
<1>. HIDE DEF l
<1>. QED  BY <1>1, <1>2, CompteSeul

LEMMA ModifierComptePas ==
  ASSUME IInv, NEW c \in Comptes, NEW e \in Emails, ModifierCompte(c, e)
  PROVE  IInv'
<1>. DEFINE l == [compte[c] EXCEPT !.email = e]
<1>1. l \in LignesCompte /\ l.email = e /\ l.lien = compte[c].lien /\ e # Aucun
  BY HypAucun DEF LignesCompte, IInv, Types
<1>2. /\ compte' = [compte EXCEPT ![c] = l] /\ ~TientCompte(c)
      /\ UNCHANGED <<req, adhesion, histoire>>
      /\ \A d \in Comptes \ {c} : compte[d].email # e
      /\ \A r \in Requetes : req[r].ecrit # Aucun => req[r].ecrit.email # e
  BY DEF ModifierCompte, EnCours, IInv, Types
<1>. HIDE DEF l
<1>. QED  BY <1>1, <1>2, CompteSeul

LEMMA SupprimerComptePas ==
  ASSUME IInv, NEW c \in Comptes, SupprimerCompte(c)
  PROVE  IInv'
<1>1. SansCompte \in LignesCompte /\ SansCompte.lien = Aucun /\ SansCompte.email = Aucun
  BY ReposType DEF SansCompte
<1>. QED  BY <1>1, CompteSeul DEF SupprimerCompte

\* Every account gets an adhesion of its own, which did not exist.
LEMMA ReconstruirePas ==
  ASSUME IInv, NEW lignes \in [Comptes -> Adhesions], NEW connus, NEW s \in Statuts,
         Reconstruire(lignes, connus, s)
  PROVE  IInv'
<1>. DEFINE De(a) == CHOOSE c \in SansLien : lignes[c] = a
            Faite(a) == \E c \in SansLien : lignes[c] = a
            St(a) == IF De(a) \in connus THEN "validee" ELSE s
<1>1. /\ UNCHANGED req
      /\ \A a \in Adhesions : adhesion'[a] = IF Faite(a) THEN [statut |-> St(a), email |-> compte[De(a)].email]
                                            ELSE adhesion[a]
      /\ \A a \in Adhesions : histoire'[a] = IF Faite(a) THEN Naissance(St(a)) ELSE histoire[a]
      /\ \A c \in Comptes : compte'[c] = IF c \in SansLien THEN [compte[c] EXCEPT !.lien = lignes[c]]
                                         ELSE compte[c]
  BY DEF Reconstruire, Reconstruite, Rebati
<1>2. SansLien \subseteq Comptes /\ \A c \in SansLien : /\ lignes[c] \in Adhesions /\ ~Ne(lignes[c])
                                                       /\ compte[c].email \in Emails
                                                       /\ compte[c].lien = Aucun /\ Existe(c)
  BY DEF SansLien, Reconstruire, SansAdhesion, Ne, Existe, IInv, Types, LignesCompte
<1>3. \A c, d \in SansLien : c # d => lignes[c] # lignes[d]
  BY DEF Reconstruire
<1>4. \A a \in Adhesions : Faite(a) => ~Ne(a) /\ De(a) \in SansLien /\ compte[De(a)].email \in Emails
  BY <1>2
<1>5. \A a \in Adhesions : Faite(a) =>
        /\ adhesion'[a] \in LignesAdhesion /\ adhesion'[a].email \in Emails
        /\ histoire'[a] \in Histoires /\ adhesion'[a].statut \in Statuts
        /\ adhesion'[a].statut = "validee_accueil" => histoire'[a].derniere = "script"
        /\ adhesion'[a].statut = "validee" => histoire'[a].reconnue = TRUE
  <2>. SUFFICES ASSUME NEW a \in Adhesions, Faite(a)
                PROVE  /\ adhesion'[a] \in LignesAdhesion /\ adhesion'[a].email \in Emails
                       /\ histoire'[a] \in Histoires /\ adhesion'[a].statut \in Statuts
                       /\ adhesion'[a].statut = "validee_accueil" => histoire'[a].derniere = "script"
                       /\ adhesion'[a].statut = "validee" => histoire'[a].reconnue = TRUE
    OBVIOUS
  <2>. DEFINE e == compte[De(a)].email
              t == St(a)
  <2>1. /\ adhesion'[a] = [statut |-> t, email |-> e] /\ e \in Emails
        /\ histoire'[a] = Naissance(t) /\ t \in Statuts
    BY <1>1, <1>4 DEF Statuts
  <2>. HIDE DEF e, t
  <2>2. adhesion'[a] \in LignesAdhesion /\ adhesion'[a].email \in Emails /\ adhesion'[a].statut = t
    BY <2>1 DEF LignesAdhesion
  <2>. DEFINE k == t = "validee"
              d == IF t = "validee_accueil" THEN "script" ELSE Aucun
  <2>3. histoire'[a] = [derniere |-> d, reconnue |-> k]
    BY <2>1, Zenon DEF Naissance
  <2>4. k \in BOOLEAN /\ (t = "validee" => k = TRUE)
    BY Zenon
  <2>5. d \in {"script", Aucun} /\ (t = "validee_accueil" => d = "script")
    OBVIOUS
  <2>. HIDE DEF k, d
  <2>. QED  BY <2>1, <2>2, <2>3, <2>4, <2>5 DEF Histoires
<1>6. \A c \in Comptes : /\ compte'[c].email = compte[c].email
                         /\ compte'[c].lien = IF c \in SansLien THEN lignes[c] ELSE compte[c].lien
                         /\ compte'[c] \in LignesCompte
                         /\ c \notin SansLien => compte'[c] = compte[c]
  <2>. SUFFICES ASSUME NEW c \in Comptes
                PROVE  /\ compte'[c].email = compte[c].email
                       /\ compte'[c].lien = IF c \in SansLien THEN lignes[c] ELSE compte[c].lien
                       /\ compte'[c] \in LignesCompte
                       /\ c \notin SansLien => compte'[c] = compte[c]
    OBVIOUS
  <2>1. compte[c] \in LignesCompte
    BY DEF IInv, Types
  <2>2. CASE c \in SansLien
    <3>1. compte'[c] = [compte[c] EXCEPT !.lien = lignes[c]]
      BY <1>1, <2>2
    <3>. QED  BY <1>2, <2>1, <2>2, <3>1 DEF LignesCompte
  <2>3. CASE c \notin SansLien
    BY <1>1, <2>1, <2>3
  <2>. QED  BY <2>2, <2>3
<1>7. Types'
  <2>1. adhesion' \in [Adhesions -> LignesAdhesion]
    BY <1>1, <1>5 DEF Reconstruire, IInv, Types
  <2>2. compte' \in [Comptes -> LignesCompte]
    BY <1>6 DEF Reconstruire
  <2>3. histoire' \in [Adhesions -> Histoires]
    <3>1. \A a \in Adhesions :
            histoire'[a] \in Histoires
      <4>. HIDE DEF Faite
      <4>. QED  BY <1>1, <1>5 DEF IInv, Types
    <3>2. histoire' = [a \in Adhesions |-> histoire'[a]]
      BY DEF Reconstruire
    <3>. QED  BY <3>1, <3>2
  <2>. QED  BY <1>1, <2>1, <2>2, <2>3 DEF IInv, Types
<1>. HIDE DEF De, Faite
<1>8. ASSUME NEW a \in Adhesions PROVE Passe(a)'
  <2>1. CASE Faite(a)
    <3>1. /\ adhesion'[a].email \in Emails
          /\ adhesion'[a].statut = "validee_accueil" => histoire'[a].derniere = "script"
          /\ adhesion'[a].statut = "validee" => histoire'[a].reconnue = TRUE
      BY <1>5, <2>1
    <3>. QED  BY <3>1 DEF Passe, Vivante
  <2>2. CASE ~Faite(a)
    <3>1. Passe(a) /\ adhesion'[a] = adhesion[a] /\ histoire'[a] = histoire[a]
      BY <1>1, <2>2 DEF IInv
    <3>. QED  BY <3>1 DEF Passe, Vivante
  <2>. QED  BY <2>1, <2>2
<1>9. \A a \in Adhesions : Ne(a) => adhesion'[a] = adhesion[a] /\ histoire'[a] = histoire[a]
  BY <1>1, <1>4
<1>10. \A c \in SansLien : adhesion'[lignes[c]].statut # Aucun
  <2>1. \A c \in SansLien : Faite(lignes[c])
    BY DEF Faite
  <2>2. Aucun \notin Statuts
    BY HypAucun
  <2>. QED  BY <1>2, <1>5, <2>1, <2>2
<1>11. \A c \in Comptes : compte[c].lien # Aucun => compte[c].lien \in Adhesions /\ Ne(compte[c].lien)
  BY DEF IInv, Types, LignesCompte, Unique
<1>12. ASSUME NEW c \in Comptes PROVE Unique(c)'
  <2>1. ~Existe(c)' => compte'[c] = SansCompte
    BY <1>2, <1>6 DEF IInv, Unique, Existe
  <2>2. compte'[c].lien # Aucun => adhesion'[compte'[c].lien].statut # Aucun
    BY <1>6, <1>9, <1>10, <1>11 DEF Ne
  <2>3. ASSUME NEW d \in Comptes \ {c}, compte[c].email # Aucun, compte[d].email # Aucun
        PROVE  /\ compte[c].email # compte[d].email
               /\ compte'[c].lien = Aucun \/ compte'[c].lien # compte'[d].lien
    <3>1. /\ compte[c].email # compte[d].email
          /\ compte[c].lien = Aucun \/ compte[c].lien # compte[d].lien
      BY <2>3 DEF IInv, Unique, Existe
    <3>. QED  BY <1>2, <1>3, <1>6, <1>11, <3>1
  <2>. QED  BY <1>6, <2>1, <2>2, <2>3 DEF Unique, Existe, Ne
<1>13. ASSUME NEW r \in Requetes PROVE Flushe(req[r])'
  <2>1. Flushe(req[r])
    BY DEF IInv
  <2>2. req[r].ecrit # Aucun /\ req[r].ecrit.lien # Aucun =>
          /\ req[r].ecrit.lien \in Adhesions
          /\ \A d \in SansLien : lignes[d] # req[r].ecrit.lien
    BY <1>2, <2>1 DEF Flushe, LignesCompte
  <2>. QED  BY <1>1, <1>6, <1>9, <2>1, <2>2 DEF Flushe, Existe, Ne
<1>. QED  BY <1>1, <1>7, <1>8, <1>9, <1>12, <1>13, SansRequete DEF Ne

-----------------------------------------------------------------------------
(* Theorems *)

LEMMA Initial == Init => IInv
<1>. SUFFICES ASSUME Init PROVE IInv
  OBVIOUS
<1>1. Types
  BY ReposType DEF Histoires, Init, Types, LignesAdhesion, SansAdhesion
<1>2. \A a \in Adhesions : Passe(a)
  BY HypAucun DEF Init, Passe, Vivante, SansAdhesion, Statuts
<1>3. \A c \in Comptes : Unique(c)
  BY DEF Init, Unique, Existe, SansCompte
<1>4. Controle(Repos) /\ Repos.ecrit = Aucun /\ Repos.statut = Aucun
  BY HypAucun DEF Repos, Controle, Createurs, Operations, Decisions
<1>5. \A r \in Requetes : req[r] = Repos
  BY DEF Init
<1>. QED  BY <1>1, <1>2, <1>3, <1>4, <1>5, Libre DEF IInv

LEMMA Pas == IInv /\ [Next]_vars => IInv'
<1>. SUFFICES ASSUME IInv, [Next]_vars PROVE IInv'
  OBVIOUS
<1>1. ASSUME NEW r \in Requetes, Avancer(r) PROVE IInv'
  BY <1>1, LirePas, LireComptePas, EcrirePas, ConnecterPas, PeuplerPas, AssurerPas,
     CreerPas, LierPas, ValiderPas, AbandonnerPas DEF Avancer
<1>2. ASSUME NEW a \in Adhesions, NEW e \in Emails, Deposer(a, e) \/ Corriger(a, e) PROVE IInv'
  BY <1>2, DeposerPas, CorrigerPas
<1>3. ASSUME NEW c \in Comptes, NEW e \in Emails, CreerCompte(c, e) \/ ModifierCompte(c, e)
      PROVE  IInv'
  BY <1>3, CreerComptePas, ModifierComptePas
<1>4. CASE UNCHANGED vars
  BY <1>4 DEF vars, IInv, Types, Passe, Unique, Controle, Flushe, Exclusion, Vivante, Existe, Ne
<1>. QED  BY <1>1, <1>2, <1>3, <1>4, SupprimerPas, SupprimerComptePas, ReconstruirePas DEF Next

THEOREM Invariant == Spec => []IInv
BY Initial, Pas, PTL DEF Spec

\* Types; and two accounts never share an email or an adhesion, whatever
\* validations, first logins, scripts and administrators race on them.
THEOREM TypeCorrect == Spec => []TypeOK
<1>1. IInv => TypeOK
  BY DEF IInv, Types, TypeOK, LignesAdhesion, EtatsRequete, Unique
<1>. QED  BY <1>1, Invariant, PTL

\* The directoire validates only what the accueil validated last, or what the
\* script rebuilt as such and nobody decided on: the UPDATE it flushed still holds
\* the row, whose status says so.
THEOREM NiveauxCorrect == Spec => DeuxNiveaux
<1>1. IInv /\ [Next]_vars =>
        [\A r \in Requetes : Valider(r) /\ req[r].op = "directoire" =>
           histoire[req[r].a].derniere \in {"accueil", "script"}]_vars
  <2>. SUFFICES ASSUME IInv, NEW r \in Requetes, Valider(r), req[r].op = "directoire"
                PROVE  histoire[req[r].a].derniere \in {"accueil", "script"}
    BY Zenon
  <2>1. req[r].a \in Adhesions /\ adhesion[req[r].a].statut = "validee_accueil"
    BY DEF Valider, Pret, IInv, Controle
  <2>. QED  BY <2>1 DEF IInv, Passe
<1>. QED  BY <1>1, Invariant, PTL DEF Spec, DeuxNiveaux

\* No account appears linked to an adhesion that nobody recognised.
THEOREM CompteCorrect == Spec => CompteReconnu
<1>1. IInv /\ [Next]_vars =>
        [\A c \in Comptes : ~Existe(c) /\ compte'[c].lien # Aucun =>
           histoire'[compte'[c].lien].reconnue]_vars
  <2>. SUFFICES ASSUME IInv, Next, NEW c \in Comptes, ~Existe(c), compte'[c].lien # Aucun
                PROVE  histoire'[compte'[c].lien].reconnue = TRUE
    BY Zenon
  <2>1. compte[c].lien = Aucun
    BY DEF IInv, Unique, SansCompte
  <2>2. UNCHANGED compte => FALSE
    BY <2>1
  <2>3. ASSUME NEW r \in Requetes, Valider(r) PROVE histoire'[compte'[c].lien].reconnue = TRUE
    <3>. DEFINE q == req[r]
    <3>1. /\ Controle(q) /\ Flushe(q) /\ q.etape = "valider" /\ q.a \in Adhesions
          /\ q.ecrit # Aucun /\ c = q.c /\ compte'[c] = q.ecrit
      BY <2>1, <2>2, <2>3 DEF Valider, Pret, IInv, Types, Controle, Flushe
    <3>2. q.op \in Createurs /\ compte'[c].lien = q.a
      BY <3>1 DEF Flushe
    <3>3. CASE q.op = "directoire"
      <4>1. q.statut # Aucun
        BY <3>1, <3>3 DEF Controle
      <4>2. histoire'[q.a].reconnue = (histoire[q.a].reconnue \/ Cible(q.op) = "validee")
        BY <2>3, <3>1, <4>1 DEF Histoires, Valider, Decider, IInv, Types
      <4>. QED  BY <3>2, <3>3, <4>2, Statuer DEF Decisions
    <3>4. CASE q.op # "directoire"
      BY <2>3, <3>1, <3>2, <3>4 DEF Valider, Controle, Createurs
    <3>. QED  BY <3>3, <3>4
  <2>4. ASSUME NEW r \in Requetes, Avancer(r) PROVE histoire'[compte'[c].lien].reconnue = TRUE
    BY <2>2, <2>3, <2>4 DEF Avancer, Lire, LireCompte, Ecrire, Connecter, Peupler, Assurer,
       Creer, Lier, Abandonner
  <2>5. ASSUME NEW d \in Comptes, NEW e \in Emails, CreerCompte(d, e) \/ ModifierCompte(d, e)
        PROVE  FALSE
    BY <2>1, <2>5 DEF CreerCompte, ModifierCompte, IInv, Types
  <2>6. ASSUME NEW d \in Comptes, SupprimerCompte(d) PROVE FALSE
    BY <2>1, <2>6 DEF SupprimerCompte, SansCompte, IInv, Types
  <2>7. ASSUME NEW lignes \in [Comptes -> Adhesions], NEW connus, NEW s \in Statuts,
               Reconstruire(lignes, connus, s)
        PROVE  FALSE
    BY <2>1, <2>7 DEF Reconstruire, SansLien
  <2>. QED  BY <2>2, <2>4, <2>5, <2>6, <2>7 DEF Next, Deposer, Corriger, Supprimer
<1>. QED  BY <1>1, Invariant, PTL DEF Spec, CompteReconnu

\* The validation of the directoire and its account are one commit: the account
\* it flushed appears with the status, linked to the adhesion and active.
THEOREM ValidationCorrecte == Spec => ValidationEntiere
<1>1. IInv /\ [Next]_vars =>
        [\A r \in Requetes : Valider(r) /\ req[r].op = "directoire" =>
           \/ \E c \in Comptes : /\ ~Existe(c) /\ compte'[c].actif
                                 /\ compte'[c].email = req[r].email /\ compte'[c].lien = req[r].a
           \/ req[r].c # Aucun /\ (Existe(req[r].c) \/ req[r].ecrit = Aucun)]_vars
  <2>. SUFFICES ASSUME IInv, NEW r \in Requetes, Valider(r), req[r].op = "directoire"
                PROVE  \/ \E c \in Comptes :
                            /\ ~Existe(c) /\ compte'[c].actif
                            /\ compte'[c].email = req[r].email /\ compte'[c].lien = req[r].a
                       \/ req[r].c # Aucun /\ (Existe(req[r].c) \/ req[r].ecrit = Aucun)
    BY Zenon
  <2>1. req[r].c # Aucun
    BY DEF Valider, Pret, IInv, Controle
  <2>2. CASE req[r].ecrit # Aucun /\ ~Existe(req[r].c)
    <3>1. /\ req[r].c \in Comptes
          /\ req[r].ecrit = [email |-> req[r].email, lien |-> req[r].a, actif |-> TRUE]
      BY <2>2 DEF IInv, Flushe
    <3>2. compte'[req[r].c] = req[r].ecrit
      BY <2>2, <3>1 DEF Valider, IInv, Types
    <3>. QED  BY <2>2, <3>1, <3>2
  <2>. QED  BY <2>1, <2>2
<1>. QED  BY <1>1, Invariant, PTL DEF Spec, ValidationEntiere

=============================================================================
