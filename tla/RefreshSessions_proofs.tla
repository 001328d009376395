----------------------- MODULE RefreshSessions_proofs -----------------------
(***************************************************************************)
(* Theorems about RefreshSessions, for any number of requests and tokens.  *)
(***************************************************************************)
EXTENDS RefreshSessions, FiniteSetTheorems, TLAPS

N == Cardinality(Requetes)

\* Requests that read j while it was live and may still exchange it.
EnVol(j) == {r \in Requetes : etape[r] \in {"compte", "tourner", "creer"} /\ jeton[r] = j}
\* Requests that found the account enabled and may still open a session.
Admises  == {r \in Requetes : etape[r] \in {"tourner", "creer", "connexion"}}

Presente(r) == etape[r] \notin {"repos", "connexion"} => jeton[r] \in Existants
Bilan(j) ==
  /\ Suivants(j) # {} => lignes[j].existe /\ lignes[j].tourne
  /\ IsFiniteSet(Suivants(j))
  /\ Cardinality(Suivants(j)) + Cardinality(EnVol(j)) <= N

IInv ==
  /\ TypeOK
  /\ \A r \in Requetes : Presente(r)
  /\ \A j \in Jetons : Bilan(j)
  /\ ~actif => nees + Cardinality(Admises) <= N

-----------------------------------------------------------------------------
(* Counting *)

\* Any set of requests is finite and at most as large as Requetes.
LEMMA Borne ==
  ASSUME NEW S \in SUBSET Requetes
  PROVE  IsFiniteSet(S) /\ Cardinality(S) \in Nat /\ Cardinality(S) <= N
BY HypRequetes, FS_Subset, FS_CardinalityType DEF N

\* ... and a part of it counts no more.
LEMMA Partie ==
  ASSUME NEW S \in SUBSET Requetes, NEW T \in SUBSET S
  PROVE  Cardinality(T) <= Cardinality(S)
BY Borne, FS_Subset

\* The empty set counts zero.
LEMMA Vide == IsFiniteSet({}) /\ Cardinality({}) = 0
BY FS_EmptySet

\* A request leaves a set it is in: one less.
LEMMA Sortie ==
  ASSUME NEW S \in SUBSET Requetes, NEW r \in S, NEW T \in SUBSET (S \ {r})
  PROVE  Cardinality(T) + 1 <= Cardinality(S)
<1>1. IsFiniteSet(S) /\ Cardinality(S \ {r}) = Cardinality(S) - 1
  BY Borne, FS_RemoveElement
<1>2. Cardinality(T) <= Cardinality(S \ {r})
  BY Partie, S \ {r} \in SUBSET Requetes
<1>. QED  BY <1>1, <1>2, Borne, T \in SUBSET Requetes

-----------------------------------------------------------------------------
(* Types *)

\* Updating a row keeps it a row.
LEMMA LigneType ==
  /\ \A p \in Jetons \cup {Aucun} : \A b \in BOOLEAN : Ligne(b, p) \in Lignes
  /\ \A l \in Lignes : /\ [l EXCEPT !.revoque = TRUE] \in Lignes
                       /\ [l EXCEPT !.expire = TRUE] \in Lignes
                       /\ \A b \in BOOLEAN : [l EXCEPT !.tourne = b] \in Lignes
BY DEF Ligne, Lignes

\* A session that opens keeps the types of the rows and of the counter.
LEMMA OuvrirType ==
  ASSUME TypeOK, NEW k \in Jetons, NEW p \in Jetons \cup {Aucun},
         NEW rotation \in BOOLEAN, Ouvrir(k, p, rotation)
  PROVE  lignes' \in [Jetons -> Lignes] /\ nees' \in Nat
<1>1. \A j \in Jetons : lignes'[j] \in Lignes
  <2>. TAKE j \in Jetons
  <2>1. Ligne(TRUE, p) \in Lignes /\ [lignes[j] EXCEPT !.tourne = rotation] \in Lignes
    BY LigneType, Zenon DEF TypeOK
  <2>2. lignes'[j] \in {Ligne(TRUE, p), [lignes[j] EXCEPT !.tourne = rotation], lignes[j]}
    BY Zenon DEF Ouvrir
  <2>. QED  BY <2>1, <2>2, Zenon DEF TypeOK
<1>2. lignes' = [j \in Jetons |-> lignes'[j]]
  BY Zenon DEF Ouvrir
<1>3. nees' \in Nat
  BY DEF Ouvrir, TypeOK
<1>. QED  BY <1>1, <1>2, <1>3, Zenon

\* A request that ends keeps the types of the requests.
LEMMA TerminerType ==
  ASSUME TypeOK, NEW r \in Requetes, Terminer(r)
  PROVE  /\ etape' \in [Requetes -> Etapes]
         /\ jeton' \in [Requetes -> Jetons \cup {Aucun}]
         /\ vues' \in [Requetes -> SUBSET Jetons]
BY DEF TypeOK, Terminer, Etapes

\* ... and a lock of another one stays held by a rotation.
LEMMA TerminerTenu ==
  ASSUME TypeOK, NEW r \in Requetes, Terminer(r), NEW j \in Jetons,
         verrou'[j] = Aucun \/ (verrou'[j] = verrou[j] /\ verrou[j] # r)
  PROVE  Tenu(j)'
BY DEF TypeOK, Terminer, Tenu

\* The initial state has the types of TypeOK.
LEMMA TypeInitial == Init => TypeOK
<1>. SUFFICES ASSUME Init PROVE TypeOK
  OBVIOUS
<1>1. lignes \in [Jetons -> Lignes]
  BY LigneType, Zenon DEF Init
<1>2. radiations \in 0..MaxRadiations
  BY HypBorne DEF Init
<1>. QED  BY <1>1, <1>2 DEF Init, TypeOK, Etapes, Tenu

\* Every step keeps them, and only a rotation under way holds a lock.
LEMMA TypeSuivant == TypeOK /\ [Next]_vars => TypeOK'
<1>. SUFFICES ASSUME TypeOK, [Next]_vars PROVE TypeOK'
  OBVIOUS
<1>1. ASSUME NEW r \in Requetes, NEW j \in Jetons, Presenter(r, j) PROVE TypeOK'
  <2>1. SuiteDe(lignes[j]) \in Etapes
    BY Zenon DEF SuiteDe, Etapes
  <2>. QED  BY <1>1, <2>1 DEF Presenter, TypeOK, Tenu
<1>2. ASSUME NEW r \in Requetes, LireCompte(r) PROVE TypeOK'
  BY <1>2 DEF LireCompte, SuiteCompte, Etapes, TypeOK, Tenu
<1>3. ASSUME NEW r \in Requetes, Tourner(r) PROVE TypeOK'
  <2>1. \A j \in Jetons : Tenu(j)'
    BY <1>3 DEF Tourner, TypeOK, Tenu
  <2>2. verrou' \in [Jetons -> Requetes \cup {Aucun}] /\ etape' \in [Requetes -> Etapes]
    BY <1>3 DEF Tourner, TypeOK, Etapes
  <2>. QED  BY <1>3, <2>1, <2>2 DEF Tourner, TypeOK
<1>4. ASSUME NEW r \in Requetes, NEW j \in Jetons, ValiderRotation(r, j) PROVE TypeOK'
  <2>1. lignes' \in [Jetons -> Lignes] /\ nees' \in Nat
    BY <1>4, OuvrirType DEF ValiderRotation, TypeOK
  <2>2. \A k \in Jetons : Tenu(k)'
    BY <1>4, TerminerTenu DEF ValiderRotation, Liberer
  <2>3. verrou' \in [Jetons -> Requetes \cup {Aucun}]
    BY <1>4 DEF ValiderRotation, Liberer, TypeOK
  <2>. QED  BY <1>4, <2>1, <2>2, <2>3, TerminerType DEF ValiderRotation, TypeOK
<1>5. ASSUME NEW r \in Requetes, DebutRevoquerTout(r) PROVE TypeOK'
  BY <1>5 DEF DebutRevoquerTout, ARevoquer, Existants, Etapes, TypeOK, Tenu
<1>6. ASSUME NEW r \in Requetes, FinRevoquerTout(r) PROVE TypeOK'
  <2>1. lignes' \in [Jetons -> Lignes]
    BY <1>6, LigneType, Zenon DEF FinRevoquerTout, TypeOK
  <2>2. \A k \in Jetons : Tenu(k)'
    BY <1>6, TerminerTenu DEF FinRevoquerTout, TypeOK, Tenu
  <2>. QED  BY <1>6, <2>1, <2>2, TerminerType DEF FinRevoquerTout, TypeOK
<1>7. ASSUME NEW r \in Requetes, NEW j \in Jetons, Deconnecter(r, j) PROVE TypeOK'
  BY <1>7 DEF Deconnecter, Etapes, TypeOK, Tenu
<1>8. ASSUME NEW r \in Requetes, Revoquer(r) PROVE TypeOK'
  <2>1. lignes' \in [Jetons -> Lignes]
    BY <1>8, LigneType DEF Revoquer, TypeOK
  <2>2. \A k \in Jetons : Tenu(k)'
    BY <1>8, TerminerTenu DEF Revoquer, TypeOK, Tenu
  <2>. QED  BY <1>8, <2>1, <2>2, TerminerType DEF Revoquer, TypeOK
<1>9. ASSUME NEW r \in Requetes, Connecter(r) PROVE TypeOK'
  BY <1>9 DEF Connecter, Etapes, TypeOK, Tenu
<1>10. ASSUME NEW r \in Requetes, NEW j \in Jetons, ValiderConnexion(r, j) PROVE TypeOK'
  <2>1. lignes' \in [Jetons -> Lignes] /\ nees' \in Nat
    BY <1>10, OuvrirType DEF ValiderConnexion
  <2>2. \A k \in Jetons : Tenu(k)'
    BY <1>10, TerminerTenu DEF ValiderConnexion, TypeOK, Tenu
  <2>. QED  BY <1>10, <2>1, <2>2, TerminerType DEF ValiderConnexion, TypeOK
<1>11. ASSUME NEW r \in Requetes, Abandonner(r) PROVE TypeOK'
  <2>1. verrou' \in [Jetons -> Requetes \cup {Aucun}]
    BY <1>11 DEF Abandonner, Liberer, TypeOK
  <2>2. \A k \in Jetons : Tenu(k)'
    BY <1>11, TerminerTenu DEF Abandonner, Liberer
  <2>. QED  BY <1>11, <2>1, <2>2, TerminerType DEF Abandonner, TypeOK
<1>12. ASSUME NEW j \in Jetons, Expirer(j) PROVE TypeOK'
  <2>1. lignes' \in [Jetons -> Lignes]
    BY <1>12, LigneType DEF Expirer, TypeOK
  <2>. QED  BY <1>12, <2>1 DEF Expirer, TypeOK, Tenu
<1>13. CASE Radier
  <2>1. radiations' \in 0..MaxRadiations
    BY <1>13, HypBorne DEF Radier, TypeOK
  <2>. QED  BY <1>13, <2>1 DEF Radier, TypeOK, Tenu
<1>14. CASE Rehabiliter
  BY <1>14 DEF Rehabiliter, TypeOK, Tenu
<1>15. CASE UNCHANGED vars
  BY <1>15 DEF vars, TypeOK, Tenu
<1>. QED
  BY <1>1, <1>2, <1>3, <1>4, <1>5, <1>6, <1>7, <1>8, <1>9, <1>10, <1>11, <1>12,
     <1>13, <1>14, <1>15 DEF Next, Requete

-----------------------------------------------------------------------------
(* The counting invariant *)

\* A step that opens no session and admits nobody.
LEMMA SansOuverture ==
  ASSUME IInv, TypeOK', NEW r \in Requetes,
         \A j \in Jetons : /\ lignes'[j].existe = lignes[j].existe
                           /\ lignes'[j].parent = lignes[j].parent
                           /\ lignes[j].tourne => lignes'[j].tourne,
         \A q \in Requetes \ {r} : etape'[q] = etape[q] /\ jeton'[q] = jeton[q],
         Presente(r)',
         etape'[r] \in {"compte", "tourner", "creer"} =>
            \/ etape[r] \in {"compte", "tourner", "creer"} /\ jeton'[r] = jeton[r]
            \/ Suivants(jeton'[r]) = {},
         ~actif' => /\ nees' = nees /\ ~actif
                    /\ etape'[r] \in {"tourner", "creer", "connexion"} =>
                         etape[r] \in {"tourner", "creer", "connexion"}
  PROVE  IInv'
<1>. USE DEF IInv
<1>1. \A j \in Jetons : Suivants(j)' = Suivants(j)
  BY DEF Suivants, Existants
<1>2. Existants' = Existants
  BY DEF Existants
<1>3. \A q \in Requetes : Presente(q)'
  BY <1>2 DEF Presente
<1>4. ASSUME NEW j \in Jetons PROVE Bilan(j)'
  <2>1. Cardinality(Suivants(j)) + Cardinality(EnVol(j)') <= N
    <3>1. EnVol(j)' \in SUBSET Requetes /\ EnVol(j) \in SUBSET Requetes
      BY DEF EnVol
    <3>2. CASE EnVol(j)' \subseteq EnVol(j)
      <4>1. Cardinality(EnVol(j)') <= Cardinality(EnVol(j))
        BY <3>1, <3>2, Partie
      <4>2. Cardinality(Suivants(j)) \in Nat
        BY FS_CardinalityType DEF Bilan
      <4>. QED  BY <4>1, <4>2, <3>1, Borne, HypRequetes, FS_CardinalityType DEF Bilan, N
    <3>3. CASE Suivants(j) = {}
      BY <3>1, <3>3, Borne, Vide, FS_CardinalityType, HypRequetes DEF N
    <3>. QED  BY <3>2, <3>3 DEF EnVol
  <2>. QED  BY <2>1, <1>1 DEF Bilan, N, TypeOK
<1>5. ~actif' => nees' + Cardinality(Admises') <= N'
  <2>. SUFFICES ASSUME ~actif' PROVE nees + Cardinality(Admises') <= N
    BY DEF N
  <2>1. Admises' \subseteq Admises /\ Admises \in SUBSET Requetes /\ Admises' \in SUBSET Requetes
    BY DEF Admises
  <2>2. Cardinality(Admises') <= Cardinality(Admises)
    BY <2>1, Partie
  <2>. QED  BY <2>1, <2>2, Borne, HypRequetes, FS_CardinalityType DEF TypeOK, N
<1>. QED  BY <1>3, <1>4, <1>5

\* A session is opened for request r, in row k, with parent p.
LEMMA AvecOuverture ==
  ASSUME IInv, TypeOK', NEW r \in Requetes, NEW k \in Jetons,
         NEW p \in Jetons \cup {Aucun}, NEW rotation \in BOOLEAN,
         Ouvrir(k, p, rotation), Terminer(r), actif' = actif,
         r \in Admises,
         p # Aucun => rotation /\ r \in EnVol(p) /\ p \in Existants
  PROVE  IInv'
<1>. USE DEF IInv
<1>1. \A j \in Jetons : Suivants(j)' = IF j = p THEN Suivants(j) \cup {k} ELSE Suivants(j)
  BY DEF Suivants, Existants, Ouvrir, Ligne, TypeOK
<1>2. Existants' = Existants \cup {k} /\ k \notin Existants
  BY DEF Existants, Ouvrir, Ligne, TypeOK
<1>3. ASSUME NEW q \in Requetes PROVE Presente(q)'
  BY <1>2 DEF Presente, Terminer, TypeOK
<1>4. \A j \in Jetons : /\ EnVol(j)' \in SUBSET Requetes /\ EnVol(j) \in SUBSET Requetes
                        /\ EnVol(j)' \in SUBSET (EnVol(j) \ {r})
  BY DEF EnVol, Terminer, TypeOK
<1>5. ASSUME NEW j \in Jetons PROVE Bilan(j)'
  <2>1. Cardinality(EnVol(j)) \in Nat /\ Cardinality(EnVol(j)') \in Nat
        /\ Cardinality(Suivants(j)) \in Nat /\ N \in Nat
    BY <1>4, Borne, FS_CardinalityType, HypRequetes DEF Bilan, N
  <2>2. Suivants(k) = {}
    BY DEF Bilan, Ouvrir
  <2>3. CASE j = p
    <3>1. j \in Existants /\ j # k /\ j # Aucun
      BY <2>3, <1>2, HypJetons
    <3>2. lignes'[j].existe /\ lignes'[j].tourne
      BY <2>3, <3>1 DEF Ouvrir, Existants, TypeOK, Lignes
    <3>3. IsFiniteSet(Suivants(j)') /\ Cardinality(Suivants(j)') <= Cardinality(Suivants(j)) + 1
          /\ Cardinality(Suivants(j)') \in Nat
      <4>1. Suivants(j)' = Suivants(j) \cup {k} /\ IsFiniteSet(Suivants(j))
        BY <1>1, <2>3 DEF Bilan
      <4>2. /\ IsFiniteSet(Suivants(j) \cup {k})
            /\ Cardinality(Suivants(j) \cup {k}) <= Cardinality(Suivants(j)) + 1
        <5>1. /\ IsFiniteSet(Suivants(j) \cup {k})
              /\ Cardinality(Suivants(j) \cup {k}) =
                   IF k \in Suivants(j) THEN Cardinality(Suivants(j))
                   ELSE Cardinality(Suivants(j)) + 1
          BY <4>1, FS_AddElement
        <5>. QED  BY <5>1, <2>1
      <4>3. Cardinality(Suivants(j)') \in Nat
        BY <4>1, <4>2, FS_CardinalityType
      <4>. QED  BY <4>1, <4>2, <4>3
    <3>4. Cardinality(EnVol(j)') + 1 <= Cardinality(EnVol(j))
      BY <1>4, <2>3, <3>1, Sortie
    <3>5. Cardinality(Suivants(j)') + Cardinality(EnVol(j)') <= N
      BY <3>3, <3>4, <2>1 DEF Bilan
    <3>. QED  BY <3>2, <3>3, <3>5 DEF Bilan, N
  <2>4. CASE j # p
    <3>1. Suivants(j)' = Suivants(j)
      BY <1>1, <2>4
    <3>2. Cardinality(EnVol(j)') <= Cardinality(EnVol(j))
      BY <1>4, Partie
    <3>3. Cardinality(Suivants(j)) + Cardinality(EnVol(j)') <= N
      BY <2>1, <3>2 DEF Bilan
    <3>4. Suivants(j) # {} => lignes'[j].existe /\ lignes'[j].tourne
      BY <2>2, <2>4 DEF Bilan, Ouvrir, TypeOK
    <3>. QED  BY <3>1, <3>3, <3>4 DEF Bilan, N
  <2>. QED  BY <2>3, <2>4
<1>6. ~actif' => nees' + Cardinality(Admises') <= N'
  <2>. SUFFICES ASSUME ~actif PROVE nees + 1 + Cardinality(Admises') <= N
    BY DEF N, Ouvrir, TypeOK
  <2>1. Admises \in SUBSET Requetes /\ Admises' \in SUBSET (Admises \ {r})
    BY DEF Admises, Terminer, TypeOK
  <2>2. Cardinality(Admises') + 1 <= Cardinality(Admises)
    BY <2>1, Sortie
  <2>3. Admises' \in SUBSET Requetes
    BY <2>1
  <2>4. Cardinality(Admises) \in Nat /\ Cardinality(Admises') \in Nat /\ N \in Nat /\ nees \in Nat
    BY <2>1, <2>3, Borne, HypRequetes, FS_CardinalityType DEF N, TypeOK
  <2>. QED  BY <2>2, <2>4
<1>. QED  BY <1>3, <1>5, <1>6

\* The account being disabled or enabled, and time, change no request.
LEMMA SansRequete ==
  ASSUME IInv, TypeOK', UNCHANGED <<etape, jeton>>,
         \A j \in Jetons : /\ lignes'[j].existe = lignes[j].existe
                           /\ lignes'[j].parent = lignes[j].parent
                           /\ lignes'[j].tourne = lignes[j].tourne,
         ~actif' => nees' = 0 \/ (~actif /\ nees' = nees)
  PROVE  IInv'
<1>. USE DEF IInv
<1>1. /\ Existants' = Existants /\ Admises' = Admises
      /\ \A j \in Jetons : Suivants(j)' = Suivants(j) /\ EnVol(j)' = EnVol(j)
  BY DEF Existants, Suivants, EnVol, Admises
<1>2. \A r \in Requetes : Presente(r)'
  BY <1>1 DEF Presente
<1>3. \A j \in Jetons : Bilan(j)'
  BY <1>1 DEF Bilan, N
<1>4. ~actif' => nees' + Cardinality(Admises') <= N'
  <2>1. Cardinality(Admises) \in Nat /\ Cardinality(Admises) <= N
    BY Borne DEF Admises
  <2>. QED  BY <1>1, <2>1 DEF N
<1>. QED  BY <1>2, <1>3, <1>4

\* The counting invariant holds initially.
LEMMA InvariantInitial == Init => IInv
<1>. SUFFICES ASSUME Init PROVE IInv
  OBVIOUS
<1>1. Admises = {} /\ \A j \in Jetons : Suivants(j) = {} /\ EnVol(j) = {}
  BY DEF Init, Admises, Suivants, EnVol, Existants, Ligne
<1>2. N \in Nat
  BY HypRequetes, FS_CardinalityType DEF N
<1>3. \A r \in Requetes : Presente(r)
  BY DEF Init, Presente
<1>4. \A j \in Jetons : Bilan(j)
  BY <1>1, <1>2, Vide DEF Bilan
<1>5. actif
  BY DEF Init
<1>. QED  BY <1>3, <1>4, <1>5, TypeInitial DEF IInv

\* ... and every step keeps it.
LEMMA InvariantSuivant == IInv /\ [Next]_vars => IInv'
<1>. SUFFICES ASSUME IInv, [Next]_vars PROVE IInv'
  OBVIOUS
<1>0. TypeOK /\ TypeOK'
  BY TypeSuivant DEF IInv
<1>1. ASSUME NEW r \in Requetes, NEW j \in Jetons, Presenter(r, j) PROVE IInv'
  <2>1. etape'[r] = "compte" => Suivants(j) = {}
    BY <1>0, <1>1 DEF Presenter, SuiteDe, IInv, Bilan, TypeOK
  <2>2. etape'[r] \in {"compte", "refuser", "revoquer"} /\ jeton'[r] = j /\ Presente(r)'
    BY <1>0, <1>1 DEF Presenter, SuiteDe, Presente, Existants, TypeOK
  <2>. QED  BY <1>0, <1>1, <2>1, <2>2, SansOuverture DEF Presenter, TypeOK
<1>2. ASSUME NEW r \in Requetes, LireCompte(r) PROVE IInv'
  <2>1. Presente(r)'
    BY <1>0, <1>2 DEF LireCompte, IInv, Presente, Existants, TypeOK
  <2>. QED  BY <1>0, <1>2, <2>1, SansOuverture DEF LireCompte, SuiteCompte, TypeOK
<1>3. ASSUME NEW r \in Requetes, Tourner(r) PROVE IInv'
  <2>1. Presente(r)'
    BY <1>0, <1>3 DEF Tourner, IInv, Presente, Existants, TypeOK
  <2>. QED  BY <1>0, <1>3, <2>1, SansOuverture DEF Tourner, TypeOK
<1>4. ASSUME NEW r \in Requetes, NEW j \in Jetons, ValiderRotation(r, j) PROVE IInv'
  <2>1. jeton[r] \in Existants
    BY <1>4 DEF ValiderRotation, IInv, Presente
  <2>2. r \in Admises /\ r \in EnVol(jeton[r])
    BY <1>4 DEF ValiderRotation, Admises, EnVol
  <2>. QED  BY <1>0, <1>4, <2>1, <2>2, AvecOuverture DEF ValiderRotation, Existants
<1>5. ASSUME NEW r \in Requetes, DebutRevoquerTout(r) PROVE IInv'
  <2>1. Presente(r)'
    BY <1>0, <1>5 DEF DebutRevoquerTout, IInv, Presente, Existants, TypeOK
  <2>. QED  BY <1>0, <1>5, <2>1, SansOuverture DEF DebutRevoquerTout, TypeOK
<1>6. ASSUME NEW r \in Requetes, FinRevoquerTout(r) PROVE IInv'
  <2>1. Presente(r)'
    BY <1>0, <1>6 DEF FinRevoquerTout, Terminer, Presente, TypeOK
  <2>. QED  BY <1>0, <1>6, <2>1, SansOuverture DEF FinRevoquerTout, Terminer, TypeOK
<1>7. ASSUME NEW r \in Requetes, NEW j \in Jetons, Deconnecter(r, j) PROVE IInv'
  <2>1. Presente(r)'
    BY <1>0, <1>7 DEF Deconnecter, Presente, Existants, TypeOK
  <2>. QED  BY <1>0, <1>7, <2>1, SansOuverture DEF Deconnecter, TypeOK
<1>8. ASSUME NEW r \in Requetes, Revoquer(r) PROVE IInv'
  <2>1. Presente(r)'
    BY <1>0, <1>8 DEF Revoquer, Terminer, Presente, TypeOK
  <2>. QED  BY <1>0, <1>8, <2>1, SansOuverture DEF Revoquer, Terminer, TypeOK
<1>9. ASSUME NEW r \in Requetes, Connecter(r) PROVE IInv'
  <2>1. Presente(r)'
    BY <1>0, <1>9 DEF Connecter, Presente, TypeOK
  <2>. QED  BY <1>0, <1>9, <2>1, SansOuverture DEF Connecter, TypeOK
<1>10. ASSUME NEW r \in Requetes, NEW j \in Jetons, ValiderConnexion(r, j) PROVE IInv'
  <2>1. r \in Admises
    BY <1>10 DEF ValiderConnexion, Admises
  <2>. QED  BY <1>0, <1>10, <2>1, AvecOuverture DEF ValiderConnexion
<1>11. ASSUME NEW r \in Requetes, Abandonner(r) PROVE IInv'
  <2>1. Presente(r)'
    BY <1>0, <1>11 DEF Abandonner, Terminer, Presente, TypeOK
  <2>. QED  BY <1>0, <1>11, <2>1, SansOuverture DEF Abandonner, Terminer, TypeOK
<1>12. ASSUME NEW j \in Jetons, Expirer(j) PROVE IInv'
  BY <1>0, <1>12, SansRequete DEF Expirer, TypeOK
<1>13. CASE Radier
  BY <1>0, <1>13, SansRequete DEF Radier
<1>14. CASE Rehabiliter
  BY <1>0, <1>14, SansRequete DEF Rehabiliter
<1>15. CASE UNCHANGED vars
  BY <1>0, <1>15, SansRequete DEF vars
<1>. QED
  BY <1>1, <1>2, <1>3, <1>4, <1>5, <1>6, <1>7, <1>8, <1>9, <1>10, <1>11, <1>12,
     <1>13, <1>14, <1>15 DEF Next, Requete

-----------------------------------------------------------------------------
(* Theorems *)

\* Every reachable state has the types of TypeOK, and locks are held only by
\* rotations under way.
THEOREM TypeCorrect == Spec => []TypeOK
BY TypeInitial, TypeSuivant, PTL DEF Spec

\* The counting invariant holds in every reachable state.
THEOREM InvariantCorrect == Spec => []IInv
BY InvariantInitial, InvariantSuivant, PTL DEF Spec

\* For any number of requests and tokens, a token is exchanged at most once by
\* each request: mark_rotated and the check of rotated_at bound its uses.
THEOREM UsagesCorrect == Spec => []UsagesBornes
<1>1. IInv => UsagesBornes
  <2>. SUFFICES ASSUME IInv, NEW j \in Jetons
                PROVE  Cardinality(Suivants(j)) <= Cardinality(Requetes)
    BY DEF UsagesBornes
  <2>1. Cardinality(EnVol(j)) \in Nat /\ N \in Nat
    BY Borne, HypRequetes, FS_CardinalityType DEF EnVol, N
  <2>2. Cardinality(Suivants(j)) \in Nat
    BY FS_CardinalityType DEF IInv, Bilan
  <2>. QED  BY <2>1, <2>2 DEF IInv, Bilan, N
<1>. QED  BY <1>1, InvariantCorrect, PTL

\* A disabled account opens at most one more session per request under way.
THEOREM RadiationCorrecte == Spec => []RadiationContient
<1>1. IInv => RadiationContient
  <2>1. Cardinality(Admises) \in Nat /\ N \in Nat
    BY Borne, HypRequetes, FS_CardinalityType DEF Admises, N
  <2>. QED  BY <2>1 DEF IInv, RadiationContient, TypeOK, N
<1>. QED  BY <1>1, InvariantCorrect, PTL
=============================================================================
