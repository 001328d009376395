--------------------------- MODULE Articles_proofs ---------------------------
(***************************************************************************)
(* Theorems about Articles, for any number of articles, users, rows and    *)
(* requests.                                                               *)
(***************************************************************************)
EXTENDS Articles, FiniteSetTheorems, TLAPS

LignesArticle ==
  [statut : Statuts \cup {Aucun}, auteur : Utilisateurs \cup {Aucun}, date : BOOLEAN,
   supprime : BOOLEAN, vues : Nat, likes : Nat, comments : Nat]
LignesCommentaire ==
  [article : Articles \cup {Aucun}, auteur : Utilisateurs \cup {Aucun}, supprime : BOOLEAN]
TableLikes == [Articles -> [Utilisateurs -> SUBSET Likes]]
EtatsRequete ==
  [etape : {"repos", "ecrire", "moderer", "voir"} \cup Comptent, op : Operations \cup {Aucun},
   qui : Utilisateurs \cup {Aucun}, a : Articles \cup {Aucun}, c : Commentaires \cup {Aucun},
   lu : SUBSET Likes, date : BOOLEAN, vues : Nat, statut : Statuts \cup {Aucun},
   champs : BOOLEAN, ecrit : [Utilisateurs -> SUBSET Likes], likes : Nat, comments : Nat,
   seul : BOOLEAN]

\* The rows of an article.
Lignes(a) ==
  /\ ~Existe(a) => article[a] = SansArticle
  /\ article[a].vues = lectures[a]
  /\ article[a].statut = "published" => article[a].date = TRUE
  /\ \A u \in Utilisateurs : \A k, l \in aime[a][u] : k = l

\* Who writes where: the requests that flushed their rows.
Ecrits == Comptent \ {"semer"}
Ajoutent == {"commenter", "semer"}

\* Where a request in state q is, and what it may have flushed.
Controle(q) ==
  /\ q.etape = "repos" => q = Repos
  /\ q.etape # "repos" => q.a \in Articles /\ Existe(q.a) /\ q.op \in Operations
  /\ q.etape = "moderer" => q.op \in Moderations /\ q.qui \in Staff
  /\ q.etape = "semer" => q.op = "semer"
  /\ q.etape \in {"compter_likes", "compter_comments"} => q.op # "semer"
  /\ q.etape \in Comptent \cup {"ecrire"} => q.op \notin Moderations \cup {"voir"}
  /\ q.op \in Bascule => q.qui \in Utilisateurs
  /\ q.op \notin Bascule => q.lu = {}
  /\ q.op = "decommenter" => q.c \in Commentaires /\ commentaire[q.c].article = q.a
  /\ q.op \in Ajoutent /\ q.c # Aucun => commentaire[q.c] = SansCommentaire
  /\ q.op \notin Ajoutent \cup {"decommenter"} => q.c = Aucun
  /\ q.op = "commenter" /\ q.etape # "ecrire" => q.c # Aucun
  /\ q.statut # Aucun => q.op = "modifier"
  /\ q.statut = "published" => q.qui \in Staff /\ (q.date = TRUE \/ article[q.a].date = TRUE)

\* The likes it flushed: at most one per user, who has none in the table, and none
\* at all if it deletes one.
LikesFlushes(q) ==
  /\ \A u \in Utilisateurs : q.ecrit[u] # {} =>
       /\ \E l \in Likes : q.ecrit[u] = {l}
       /\ q.op = "semer" \/ (q.op \in Bascule /\ u = q.qui /\ q.etape \in Ecrits)
       /\ q.etape \in Ecrits => aime[q.a][u] = {}

\* What the two COUNTs give a request that counts now: the rows once it is committed.
LikesApres(q) ==
  Cardinality({x \in Utilisateurs \X Likes : x[2] \in (aime[q.a][x[1]] \ q.lu) \cup q.ecrit[x[1]]})
CommentairesApres(q) ==
  Cardinality({c \in Commentaires : IF c = q.c THEN q.op # "decommenter"
                                    ELSE commentaire[c].article = q.a /\ ~commentaire[c].supprime})

\* What it counted is still right if nobody writes the same article.
Comptes(q) ==
  q.seul /\ q.op # "semer" =>
    /\ q.etape \in {"compter_comments", "enregistrer"} => q.likes = LikesApres(q)
    /\ q.etape = "enregistrer" => q.comments = CommentairesApres(q)

\* A request in state q with another in state p.
Touche(q, u) == IF q.op \in Bascule THEN u = q.qui ELSE q.ecrit[u] # {}
Paire(q, p) ==
  /\ q.seul /\ q.etape \in Comptent /\ p.etape \in Comptent => q.a # p.a
  /\ q.etape \in Ecrits /\ p.etape \in Ecrits /\ q.a = p.a =>
       \A u \in Utilisateurs : ~(Touche(q, u) /\ Touche(p, u))
  /\ q.op \in Ajoutent /\ q.c # Aucun => p.c # q.c

Seule(q) == Controle(q) /\ LikesFlushes(q) /\ Comptes(q)

\* A comment that was inserted is about an article that was.
Reelles(c) ==
  commentaire[c] # SansCommentaire => commentaire[c].article \in Articles /\ Existe(commentaire[c].article)

Tables ==
  /\ article \in [Articles -> LignesArticle]
  /\ aime \in TableLikes
  /\ commentaire \in [Commentaires -> LignesCommentaire]
  /\ lectures \in [Articles -> Nat] /\ semes \subseteq Articles /\ lancees \in 0..MaxLancees
  /\ \A a \in Articles : Lignes(a)
  /\ \A c \in Commentaires : Reelles(c)

EnCours ==
  /\ req \in [Requetes -> EtatsRequete]
  /\ \A r \in Requetes : Seule(req[r])
  /\ \A r, p \in Requetes : r # p => Paire(req[r], req[p])

IInv == Tables /\ EnCours

LEMMA ReposType == Repos \in EtatsRequete
  BY DEF Repos, EtatsRequete

LEMMA ReposSeul == Seule(Repos) /\ Seule(Repos)'
<1>1. Aucun \notin Operations /\ Aucun # "published"
  BY HypAucun DEF Statuts, Reserves
<1>2. Controle(Repos) /\ Controle(Repos)'
  BY <1>1 DEF Repos, Controle, Comptent, Operations, Bascule, Moderations, Ajoutent
<1>3. LikesFlushes(Repos) /\ Comptes(Repos)
  BY DEF Repos, LikesFlushes, Comptes
<1>4. LikesFlushes(Repos)' /\ Comptes(Repos)'
  BY DEF Repos, LikesFlushes, Comptes
<1>. QED  BY <1>2, <1>3, <1>4 DEF Seule

LEMMA Depart ==
  ASSUME Init
  PROVE  IInv
<1>. USE DEF Init
<1>1. Tables
  <2>1. article \in [Articles -> LignesArticle]
    BY DEF SansArticle, LignesArticle
  <2>2. aime \in TableLikes /\ commentaire \in [Commentaires -> LignesCommentaire]
    BY DEF TableLikes, SansCommentaire, LignesCommentaire
  <2>3. lectures \in [Articles -> Nat] /\ semes \subseteq Articles /\ lancees \in 0..MaxLancees
    BY HypBorne
  <2>4. ASSUME NEW a \in Articles PROVE Lignes(a)
    BY HypAucun DEF Lignes, SansArticle, Existe, Statuts, Reserves
  <2>. QED  BY <2>1, <2>2, <2>3, <2>4 DEF Tables, Reelles
<1>2. req \in [Requetes -> EtatsRequete] /\ \A r \in Requetes : Seule(req[r])
  BY <1>1, ReposType, ReposSeul
<1>3. ASSUME NEW r \in Requetes, NEW p \in Requetes PROVE Paire(req[r], req[p])
  BY DEF Paire, Repos, Comptent, Ecrits
<1>. QED  BY <1>1, <1>2, <1>3 DEF IInv, EnCours

\* What happens to the articles does not disturb the requests.
Avancent ==
  \A a \in Articles : Existe(a) =>
    article'[a].statut # Aucun /\ (article[a].date = TRUE => article'[a].date = TRUE)

\* A request nobody moves, save that another one enters its section.
LEMMA RequeteImmobile ==
  ASSUME IInv, NEW p \in Requetes, UNCHANGED <<aime, commentaire>>, Avancent,
         NEW q, q = req[p] \/ (req[p].etape \in Comptent /\ q = [req[p] EXCEPT !.seul = FALSE])
  PROVE  Seule(q)'
<1>1. req[p] \in EtatsRequete /\ Seule(req[p])
  BY DEF IInv, EnCours
<1>2. /\ q.etape = req[p].etape /\ q.op = req[p].op /\ q.qui = req[p].qui /\ q.a = req[p].a
      /\ q.c = req[p].c /\ q.lu = req[p].lu /\ q.date = req[p].date /\ q.statut = req[p].statut
      /\ q.ecrit = req[p].ecrit /\ q.likes = req[p].likes /\ q.comments = req[p].comments
      /\ q.seul = req[p].seul \/ q.seul = FALSE
  BY <1>1 DEF EtatsRequete
<1>3. Controle(q)'
  <2>1. Controle(req[p])
    BY <1>1 DEF Seule
  <2>2. q.etape = "repos" => q = Repos
    BY <1>1, <1>2, <2>1 DEF Controle, Comptent
  <2>3. Controle(q)
    BY <1>2, <2>1, <2>2 DEF Controle
  <2>4. q.a \in Articles /\ Existe(q.a) =>
          article'[q.a].statut # Aucun /\ (article[q.a].date = TRUE => article'[q.a].date = TRUE)
    BY DEF Avancent
  <2>5. q.statut = "published" => q.etape # "repos"
    BY <2>3, HypAucun DEF Controle, Repos, Statuts, Reserves
  <2>. QED  BY <2>3, <2>4, <2>5 DEF Controle, Existe
<1>4. LikesFlushes(q)'
  BY <1>1, <1>2 DEF Seule, LikesFlushes
<1>5. Comptes(q)'
  <2>1. PICK o : o = req[p]
    OBVIOUS
  <2>2. LikesApres(q)' = LikesApres(o)
    BY <1>2, <2>1 DEF LikesApres
  <2>3. CommentairesApres(q)' = CommentairesApres(o)
    BY <1>2, <2>1 DEF CommentairesApres
  <2>. QED  BY <1>1, <1>2, <2>1, <2>2, <2>3 DEF Seule, Comptes
<1>. QED  BY <1>3, <1>4, <1>5 DEF Seule

\* Request r goes to state q; others may learn that they are not alone.
Reste(p) == req'[p] = req[p] \/ (req[p].etape \in Comptent /\ req'[p] = [req[p] EXCEPT !.seul = FALSE])

LEMMA Champs ==
  ASSUME NEW o \in EtatsRequete, NEW x, x = [o EXCEPT !.seul = FALSE]
  PROVE  /\ x \in EtatsRequete /\ x.seul = FALSE
         /\ x.etape = o.etape /\ x.op = o.op /\ x.qui = o.qui
         /\ x.a = o.a /\ x.c = o.c /\ x.ecrit = o.ecrit
  BY DEF EtatsRequete

LEMMA PairesEgales ==
  ASSUME NEW q, NEW p, NEW x, NEW y, Paire(q, p),
         x.etape = q.etape, x.op = q.op, x.qui = q.qui, x.a = q.a, x.c = q.c, x.ecrit = q.ecrit,
         y.etape = p.etape, y.op = p.op, y.qui = p.qui, y.a = p.a, y.c = p.c, y.ecrit = p.ecrit,
         x.seul = q.seul \/ x.seul = FALSE
  PROVE  Paire(x, y)
<1>1. \A u \in Utilisateurs : (Touche(x, u) <=> Touche(q, u)) /\ (Touche(y, u) <=> Touche(p, u))
  BY DEF Touche
<1>. QED  BY <1>1 DEF Paire

LEMMA PasDeRequete ==
  ASSUME IInv, NEW r \in Requetes, NEW q \in EtatsRequete, DOMAIN req' = Requetes,
         req' = [p \in DOMAIN req' |-> req'[p]], req'[r] = q, \A p \in Requetes \ {r} : Reste(p),
         UNCHANGED <<aime, commentaire>>, Avancent, Seule(q)',
         \A p \in Requetes \ {r} : Paire(q, req[p]) /\ Paire(req'[p], q)
  PROVE  EnCours'
<1>1. ASSUME NEW p \in Requetes \ {r}
      PROVE  /\ req'[p] = req[p] \/ (req[p].etape \in Comptent /\ req'[p] = [req[p] EXCEPT !.seul = FALSE])
             /\ req[p] \in EtatsRequete
  BY DEF IInv, EnCours, Reste
<1>2. req'[r] = q
  OBVIOUS
<1>3. req' \in [Requetes -> EtatsRequete]
  <2>1. ASSUME NEW p \in Requetes \ {r} PROVE req'[p] \in EtatsRequete
    BY <1>1, Champs
  <2>. QED  BY <1>2, <2>1
<1>4. ASSUME NEW p \in Requetes PROVE Seule(req[p])'
  <2>1. CASE p = r
    BY <1>2, <2>1
  <2>2. CASE p # r
    <3>1. PICK o : o = req'[p]
      OBVIOUS
    <3>2. Seule(o)'
      BY <1>1, <2>2, <3>1, RequeteImmobile
    <3>. QED  BY <3>1, <3>2
  <2>. QED  BY <2>1, <2>2
<1>5. ASSUME NEW p \in Requetes, NEW o \in Requetes, p # o PROVE Paire(req'[p], req'[o])
  <2>1. ASSUME NEW x \in Requetes \ {r}
        PROVE  /\ req'[x].etape = req[x].etape /\ req'[x].op = req[x].op /\ req'[x].qui = req[x].qui
               /\ req'[x].a = req[x].a /\ req'[x].c = req[x].c /\ req'[x].ecrit = req[x].ecrit
               /\ req'[x].seul = req[x].seul \/ req'[x].seul = FALSE
    <3>1. req[x] \in EtatsRequete
      BY <1>1
    <3>2. CASE req'[x] = req[x]
      BY <3>2
    <3>3. CASE req'[x] = [req[x] EXCEPT !.seul = FALSE]
      <4>1. PICK y : y = req'[x]
        OBVIOUS
      <4>. QED  BY <3>1, <3>3, <4>1, Champs
    <3>. QED  BY <1>1, <3>2, <3>3
  <2>2. CASE p = r
    <3>1. Paire(q, req[o]) /\ o \in Requetes \ {r}
      BY <1>5, <2>2
    <3>2. Paire(q, req'[o])
      BY <2>1, <3>1 DEF Paire, Touche
    <3>. QED  BY <1>2, <2>2, <3>2
  <2>3. CASE o = r
    BY <1>2, <1>5, <2>3
  <2>4. CASE p # r /\ o # r
    <3>1. Paire(req[p], req[o])
      BY <1>5 DEF IInv, EnCours
    <3>2. PICK x : x = req'[p]
      OBVIOUS
    <3>3. PICK y : y = req'[o]
      OBVIOUS
    <3>4. PICK v : v = req[p]
      OBVIOUS
    <3>5. PICK w : w = req[o]
      OBVIOUS
    <3>6. /\ x.etape = v.etape /\ x.op = v.op /\ x.qui = v.qui /\ x.a = v.a /\ x.c = v.c
          /\ x.ecrit = v.ecrit /\ (x.seul = v.seul \/ x.seul = FALSE)
      BY <2>1, <2>4, <3>2, <3>4
    <3>7. /\ y.etape = w.etape /\ y.op = w.op /\ y.qui = w.qui /\ y.a = w.a /\ y.c = w.c
          /\ y.ecrit = w.ecrit
      BY <2>1, <2>4, <3>3, <3>5
    <3>8. Paire(v, w)
      BY <3>1, <3>4, <3>5
    <3>9. Paire(x, y)
      BY <3>6, <3>7, <3>8, PairesEgales
    <3>. QED  BY <3>2, <3>3, <3>9
  <2>. QED  BY <2>2, <2>3, <2>4
<1>. QED  BY <1>3, <1>4, <1>5 DEF EnCours, Paire, Touche

\* Requests are left alone.
LEMMA SansRequete ==
  ASSUME IInv, UNCHANGED <<req, aime, commentaire>>, Avancent
  PROVE  EnCours'
<1>1. ASSUME NEW p \in Requetes PROVE Seule(req[p])'
  <2>1. PICK o : o = req[p]
    OBVIOUS
  <2>2. Seule(o)'
    BY <2>1, RequeteImmobile
  <2>. QED  BY <2>1, <2>2
<1>. QED  BY <1>1 DEF IInv, EnCours, Paire, Touche

\* A request ends, or starts over.
LEMMA PasFinir ==
  ASSUME IInv, NEW r \in Requetes, Finir(r), UNCHANGED <<aime, commentaire>>, Avancent, Tables'
  PROVE  IInv'
<1>1. PICK q : q = Repos
  OBVIOUS
<1>2. q \in EtatsRequete /\ Seule(q)'
  BY <1>1, ReposType, ReposSeul
<1>3. /\ DOMAIN req' = Requetes /\ req' = [p \in DOMAIN req' |-> req'[p]]
      /\ req'[r] = q /\ \A p \in Requetes \ {r} : req'[p] = req[p]
  BY <1>1 DEF IInv, EnCours, Finir
<1>4. ASSUME NEW p \in Requetes \ {r} PROVE Paire(q, req[p]) /\ Paire(req'[p], q)
  <2>1. q.etape = "repos" /\ q.op = Aucun /\ q.c = Aucun
    BY <1>1 DEF Repos
  <2>2. req'[p] = req[p] /\ Aucun \notin Ajoutent
    BY <1>3, HypAucun DEF Ajoutent, Operations
  <2>. QED  BY <2>1, <2>2 DEF Paire, Comptent, Ecrits
<1>. QED  BY <1>2, <1>3, <1>4, PasDeRequete DEF IInv, Reste

\* Two requests do not insert the same comment.
Distincts(q, p) ==
  (q.op \in Ajoutent /\ q.c # Aucun) \/ (p.op \in Ajoutent /\ p.c # Aucun) => p.c # q.c

\* A request starts: it has read, and flushed nothing.
LEMMA PasDebuter ==
  ASSUME IInv, NEW r \in Requetes, NEW q \in EtatsRequete, Debuter(r, q),
         q.etape \in {"ecrire", "moderer", "voir"},
         UNCHANGED <<article, aime, commentaire, lectures, semes>>,
         Controle(q), LikesFlushes(q),
         \A p \in Requetes \ {r} : Distincts(q, req[p])
  PROVE  IInv'
<1>1. Tables'
  BY HypBorne DEF IInv, Tables, Lignes, Reelles, Existe, Debuter
<1>2. Avancent
  BY DEF Avancent, Existe
<1>3. /\ DOMAIN req' = Requetes /\ req' = [p \in DOMAIN req' |-> req'[p]]
      /\ req'[r] = q /\ \A p \in Requetes \ {r} : req'[p] = req[p]
  BY DEF IInv, EnCours, Debuter
<1>4. Seule(q)'
  BY DEF Seule, Comptes, Controle, Existe, LikesFlushes
<1>5. ASSUME NEW p \in Requetes \ {r} PROVE Paire(q, req[p]) /\ Paire(req'[p], q)
  <2>1. req'[p] = req[p]
    BY <1>3
  <2>. QED  BY <2>1 DEF Paire, Comptent, Ecrits, Distincts
<1>. QED  BY <1>1, <1>2, <1>3, <1>4, <1>5, PasDeRequete DEF IInv, Reste

\* A request flushes its rows, and counts.
LEMMA PasEntrer ==
  ASSUME IInv, NEW r \in Requetes, NEW f \in EtatsRequete, Entrer(r, f), f.a = req[r].a,
         UNCHANGED <<article, aime, commentaire, lectures, semes, lancees>>,
         NEW q, q = [f EXCEPT !.etape = IF f.op = "semer" THEN "semer" ELSE "compter_likes",
                              !.seul = (Concurrents(r) = {})],
         Controle(q), LikesFlushes(q),
         \A p \in Requetes \ {r} : Distincts(f, req[p]),
         \A p \in Concurrents(r), u \in Utilisateurs :
           f.op # "semer" /\ req[p].etape # "semer" => ~(Touche(f, u) /\ Touche(req[p], u))
  PROVE  IInv'
<1>1. Tables' /\ Avancent
  BY DEF IInv, Tables, Lignes, Reelles, Existe, Avancent
<1>2. /\ DOMAIN req' = Requetes /\ req' = [p \in DOMAIN req' |-> req'[p]]
      /\ req'[r] = q
      /\ \A p \in Requetes \ {r} :
           req'[p] = IF p \in Concurrents(r) THEN [req[p] EXCEPT !.seul = FALSE] ELSE req[p]
  BY DEF Entrer
<1>3. /\ q \in EtatsRequete
      /\ q.a = req[r].a /\ q.c = f.c /\ q.op = f.op /\ q.qui = f.qui /\ q.ecrit = f.ecrit
      /\ q.seul => Concurrents(r) = {}
      /\ q.etape = IF f.op = "semer" THEN "semer" ELSE "compter_likes"
  <2>1. PICK seul \in BOOLEAN : seul = (Concurrents(r) = {})
    OBVIOUS
  <2>2. PICK e \in Comptent : e = IF f.op = "semer" THEN "semer" ELSE "compter_likes"
    BY DEF Comptent
  <2>3. q = [f EXCEPT !.etape = e, !.seul = seul]
    BY <2>1, <2>2
  <2>4. q \in EtatsRequete /\ q.etape = e /\ q.seul = seul
    BY <2>3 DEF EtatsRequete
  <2>5. q.a = req[r].a /\ q.c = f.c /\ q.op = f.op /\ q.qui = f.qui /\ q.ecrit = f.ecrit
    BY <2>3 DEF EtatsRequete
  <2>. QED  BY <2>1, <2>2, <2>4, <2>5
<1>4. \A p \in Requetes \ {r} : Reste(p)
  BY <1>2 DEF Reste, Concurrents
<1>5. Seule(q)'
  BY <1>3 DEF Seule, Comptes, Controle, Existe, LikesFlushes
<1>6. ASSUME NEW p \in Requetes \ {r} PROVE Paire(q, req[p]) /\ Paire(req'[p], q)
  <2>1. req[p] \in EtatsRequete
    BY DEF IInv, EnCours
  <2>2. /\ req'[p].etape = req[p].etape /\ req'[p].op = req[p].op /\ req'[p].qui = req[p].qui
        /\ req'[p].a = req[p].a /\ req'[p].c = req[p].c /\ req'[p].ecrit = req[p].ecrit
        /\ p \in Concurrents(r) => req'[p].seul = FALSE
    BY <1>2, <2>1 DEF EtatsRequete
  <2>3. p \in Concurrents(r) <=> req[p].a = q.a /\ req[p].etape \in Comptent
    BY <1>3 DEF Concurrents
  <2>4. ASSUME NEW u \in Utilisateurs, q.etape \in Ecrits, req[p].etape \in Ecrits, q.a = req[p].a
        PROVE  ~(Touche(q, u) /\ Touche(req[p], u))
    BY <1>3, <2>3, <2>4 DEF Ecrits, Touche
  <2>5. Distincts(q, req[p])
    BY <1>3 DEF Distincts
  <2>6. Paire(q, req[p])
    BY <1>3, <2>3, <2>4, <2>5 DEF Paire, Distincts
  <2>7. Paire(req'[p], q)
    BY <1>3, <2>2, <2>3, <2>4, <2>5 DEF Paire, Distincts, Touche
  <2>. QED  BY <2>6, <2>7
<1>7. EnCours'
  BY <1>1, <1>2, <1>3, <1>4, <1>5, <1>6, PasDeRequete
<1>. QED  BY <1>1, <1>7 DEF IInv

-----------------------------------------------------------------------------
(* What a request reads                                                      *)

LEMMA PasLireModification ==
  ASSUME IInv, NEW r \in Requetes, NEW u \in Utilisateurs, NEW a \in Articles,
         NEW s \in Statuts \cup {Aucun}, NEW champs \in BOOLEAN, LireModification(r, u, a, s, champs)
  PROVE  IInv'
<1>1. PICK t \in Statuts \cup {Aucun} : t = StatutDemande(u, s)
  BY DEF StatutDemande, Statuts
<1>2. PICK d \in BOOLEAN : d = Dater(a, t)
  BY DEF Dater
<1>. DEFINE q == [Repos EXCEPT !.etape = "ecrire", !.op = "modifier", !.qui = u, !.a = a,
                    !.statut = t, !.date = d, !.champs = champs]
<1>3. Debuter(r, q) /\ Existe(a) /\ UNCHANGED <<article, aime, commentaire, lectures, semes>>
  BY <1>1, <1>2 DEF LireModification
<1>4. q \in EtatsRequete
  BY DEF EtatsRequete, Repos, Operations
<1>5. q.statut = "published" => u \in Staff /\ (d = TRUE \/ article[a].date = TRUE)
  <2>1. article[a].date \in BOOLEAN
    BY DEF IInv, Tables, LignesArticle
  <2>. QED  BY <1>1, <1>2, <2>1, HypAucun DEF Repos, StatutDemande, Dater, Statuts
<1>6. Controle(q)
  BY <1>3, <1>5 DEF Controle, Repos, Operations, Bascule, Moderations, Ajoutent, Comptent
<1>7. LikesFlushes(q) /\ q.op \notin Ajoutent /\ q.c = Aucun /\ q.etape = "ecrire"
  BY DEF LikesFlushes, Repos, Ajoutent
<1>8. ASSUME NEW p \in Requetes PROVE Distincts(q, req[p])
  BY <1>7 DEF Distincts
<1>. HIDE DEF q
<1>. QED  BY <1>3, <1>4, <1>6, <1>7, <1>8, PasDebuter

LEMMA PasLireModeration ==
  ASSUME IInv, NEW r \in Requetes, NEW u \in Utilisateurs, NEW a \in Articles,
         NEW op \in Moderations, LireModeration(r, u, a, op)
  PROVE  IInv'
<1>. DEFINE q == [Repos EXCEPT !.etape = "moderer", !.op = op, !.qui = u, !.a = a]
<1>1. Debuter(r, q) /\ Existe(a) /\ u \in Staff /\ UNCHANGED <<article, aime, commentaire, lectures, semes>>
  BY DEF LireModeration
<1>2. q \in EtatsRequete
  BY DEF EtatsRequete, Repos, Operations
<1>3. Controle(q)
  BY <1>1, HypAucun DEF Controle, Repos, Operations, Statuts, Reserves, Bascule, Moderations, Ajoutent, Comptent
<1>4. LikesFlushes(q) /\ q.op \notin Ajoutent /\ q.c = Aucun /\ q.etape = "moderer"
  BY DEF LikesFlushes, Repos, Ajoutent, Moderations
<1>5. ASSUME NEW p \in Requetes PROVE Distincts(q, req[p])
  BY <1>4 DEF Distincts
<1>. HIDE DEF q
<1>. QED  BY <1>1, <1>2, <1>3, <1>4, <1>5, PasDebuter

LEMMA PasLireArticle ==
  ASSUME IInv, NEW r \in Requetes, NEW a \in Articles, LireArticle(r, a)
  PROVE  IInv'
<1>. DEFINE q == [Repos EXCEPT !.etape = "voir", !.op = "voir", !.a = a, !.vues = article[a].vues]
<1>1. Debuter(r, q) /\ Existe(a) /\ UNCHANGED <<article, aime, commentaire, lectures, semes>>
  BY DEF LireArticle, Publie, Visible
<1>2. q \in EtatsRequete
  <2>1. article[a].vues \in Nat
    BY DEF IInv, Tables, LignesArticle
  <2>. QED  BY <2>1 DEF EtatsRequete, Repos, Operations
<1>3. Controle(q)
  BY <1>1, HypAucun DEF Controle, Repos, Operations, Statuts, Reserves, Bascule, Moderations, Ajoutent, Comptent
<1>4. LikesFlushes(q) /\ q.op \notin Ajoutent /\ q.c = Aucun /\ q.etape = "voir"
  BY DEF LikesFlushes, Repos, Ajoutent
<1>5. ASSUME NEW p \in Requetes PROVE Distincts(q, req[p])
  BY <1>4 DEF Distincts
<1>. HIDE DEF q
<1>. QED  BY <1>1, <1>2, <1>3, <1>4, <1>5, PasDebuter

LEMMA PasLireLike ==
  ASSUME IInv, NEW r \in Requetes, NEW u \in Utilisateurs, NEW a \in Articles,
         NEW op \in Bascule, LireLike(r, u, a, op)
  PROVE  IInv'
<1>. DEFINE q == [Repos EXCEPT !.etape = "ecrire", !.op = op, !.qui = u, !.a = a, !.lu = aime[a][u]]
<1>1. Debuter(r, q) /\ Existe(a) /\ UNCHANGED <<article, aime, commentaire, lectures, semes>>
  BY DEF LireLike, Publie, Visible
<1>2. q \in EtatsRequete
  <2>1. aime[a][u] \subseteq Likes
    BY DEF IInv, Tables, TableLikes
  <2>. QED  BY <2>1 DEF EtatsRequete, Repos, Operations
<1>3. Controle(q)
  BY <1>1, HypAucun DEF Controle, Repos, Operations, Statuts, Reserves, Bascule, Moderations, Ajoutent, Comptent
<1>4. LikesFlushes(q) /\ q.op \notin Ajoutent /\ q.c = Aucun /\ q.etape = "ecrire"
  BY DEF LikesFlushes, Repos, Ajoutent, Bascule
<1>5. ASSUME NEW p \in Requetes PROVE Distincts(q, req[p])
  BY <1>4 DEF Distincts
<1>. HIDE DEF q
<1>. QED  BY <1>1, <1>2, <1>3, <1>4, <1>5, PasDebuter

LEMMA PasLireCommenter ==
  ASSUME IInv, NEW r \in Requetes, NEW u \in Utilisateurs, NEW a \in Articles, LireCommenter(r, u, a)
  PROVE  IInv'
<1>. DEFINE q == [Repos EXCEPT !.etape = "ecrire", !.op = "commenter", !.qui = u, !.a = a]
<1>1. Debuter(r, q) /\ Existe(a) /\ UNCHANGED <<article, aime, commentaire, lectures, semes>>
  BY DEF LireCommenter, Visible
<1>2. q \in EtatsRequete
  BY DEF EtatsRequete, Repos, Operations
<1>3. Controle(q)
  BY <1>1, HypAucun DEF Controle, Repos, Operations, Statuts, Reserves, Bascule, Moderations, Ajoutent, Comptent
<1>4. LikesFlushes(q) /\ q.c = Aucun /\ q.etape = "ecrire"
  BY DEF LikesFlushes, Repos
<1>5. ASSUME NEW p \in Requetes PROVE Distincts(q, req[p])
  BY <1>4 DEF Distincts
<1>. HIDE DEF q
<1>. QED  BY <1>1, <1>2, <1>3, <1>4, <1>5, PasDebuter

LEMMA PasLireDecommenter ==
  ASSUME IInv, NEW r \in Requetes, NEW u \in Utilisateurs, NEW c \in Commentaires,
         LireDecommenter(r, u, c)
  PROVE  IInv'
<1>. DEFINE q == [Repos EXCEPT !.etape = "ecrire", !.op = "decommenter", !.qui = u,
                               !.a = commentaire[c].article, !.c = c]
<1>1. Debuter(r, q) /\ commentaire[c] # SansCommentaire
      /\ UNCHANGED <<article, aime, commentaire, lectures, semes>>
  BY DEF LireDecommenter
<1>2. commentaire[c].article \in Articles /\ Existe(commentaire[c].article)
  BY <1>1 DEF IInv, Tables, Reelles
<1>3. q \in EtatsRequete
  BY <1>2 DEF EtatsRequete, Repos, Operations
<1>4. Controle(q)
  BY <1>2, HypAucun DEF Controle, Repos, Operations, Statuts, Reserves, Bascule, Moderations, Ajoutent, Comptent
<1>5. LikesFlushes(q) /\ q.c = c /\ q.etape = "ecrire" /\ q.op \notin Ajoutent
  BY DEF LikesFlushes, Repos, Ajoutent
<1>6. ASSUME NEW p \in Requetes PROVE Distincts(q, req[p])
  <2>1. Controle(req[p])
    BY DEF IInv, EnCours, Seule
  <2>. QED  BY <1>1, <1>5, <2>1 DEF Distincts, Controle
<1>. HIDE DEF q
<1>. QED  BY <1>1, <1>3, <1>4, <1>5, <1>6, PasDebuter

-----------------------------------------------------------------------------
(* What a request writes, and counts                                         *)

LEMMA Distinctes ==
  ASSUME IInv, NEW r \in Requetes, NEW p \in Requetes \ {r}
  PROVE  Distincts(req[r], req[p])
<1>1. Paire(req[r], req[p]) /\ Paire(req[p], req[r])
  BY DEF IInv, EnCours
<1>. QED  BY <1>1 DEF Paire, Distincts

\* A request enters its section as it is.
LEMMA PasEntrerTel ==
  ASSUME IInv, NEW r \in Requetes, req[r].etape = "ecrire",
         req[r].op \in {"modifier", "decommenter", "semer"}, Entrer(r, req[r]),
         UNCHANGED <<article, aime, commentaire, lectures, semes, lancees>>
  PROVE  IInv'
<1>1. PICK f : f = req[r]
  OBVIOUS
<1>2. f \in EtatsRequete /\ Controle(f) /\ LikesFlushes(f) /\ f.etape = "ecrire"
      /\ f.op \in {"modifier", "decommenter", "semer"}
  BY <1>1 DEF IInv, EnCours, Seule
<1>3. PICK e \in {"semer", "compter_likes"} : e = IF f.op = "semer" THEN "semer" ELSE "compter_likes"
  OBVIOUS
<1>4. PICK b \in BOOLEAN : b = (Concurrents(r) = {})
  OBVIOUS
<1>. DEFINE q == [f EXCEPT !.etape = e, !.seul = b]
<1>5. /\ q.etape = e /\ q.op = f.op /\ q.qui = f.qui /\ q.a = f.a /\ q.c = f.c /\ q.lu = f.lu
      /\ q.date = f.date /\ q.statut = f.statut /\ q.ecrit = f.ecrit
  BY <1>2 DEF EtatsRequete
<1>6. q = [f EXCEPT !.etape = IF f.op = "semer" THEN "semer" ELSE "compter_likes",
                    !.seul = (Concurrents(r) = {})]
  BY <1>3, <1>4
<1>. HIDE DEF q
<1>7. Controle(q)
  BY <1>2, <1>3, <1>5 DEF Controle, Comptent, Moderations
<1>8. LikesFlushes(q) /\ (f.op # "semer" => \A u \in Utilisateurs : ~Touche(f, u))
  BY <1>2, <1>3, <1>5 DEF LikesFlushes, Ecrits, Comptent, Bascule, Touche
<1>9. \A p \in Requetes \ {r} : Distincts(f, req[p])
  BY <1>1, Distinctes
<1>10. Entrer(r, f) /\ f.a = req[r].a
  BY <1>1
<1>. QED  BY <1>2, <1>6, <1>7, <1>8, <1>9, <1>10, PasEntrer

LEMMA PasEcrireModification ==
  ASSUME IInv, NEW r \in Requetes, EcrireModification(r)
  PROVE  IInv'
  BY PasEntrerTel DEF EcrireModification

LEMMA PasEcrireSemis ==
  ASSUME IInv, NEW r \in Requetes, EcrireSemis(r)
  PROVE  IInv'
  BY PasEntrerTel DEF EcrireSemis

\* The tables stay as they are.
LEMMA TablesFixes ==
  ASSUME IInv, UNCHANGED <<article, aime, commentaire, lectures, semes, lancees>>
  PROVE  Tables' /\ Avancent
  BY DEF IInv, Tables, Lignes, Reelles, Existe, Avancent

LEMMA PasEcrireDecommenter ==
  ASSUME IInv, NEW r \in Requetes, EcrireDecommenter(r)
  PROVE  IInv'
<1>1. CASE commentaire[req[r].c].supprime
  BY <1>1, TablesFixes, PasFinir DEF EcrireDecommenter
<1>2. CASE ~commentaire[req[r].c].supprime
  BY <1>2, PasEntrerTel DEF EcrireDecommenter
<1>. QED  BY <1>1, <1>2

LEMMA PasEcrireCommentaire ==
  ASSUME IInv, NEW r \in Requetes, NEW c \in Commentaires, EcrireCommentaire(r, c)
  PROVE  IInv'
<1>1. PICK o : o = req[r]
  OBVIOUS
<1>2. o \in EtatsRequete /\ Controle(o) /\ LikesFlushes(o) /\ o.etape = "ecrire" /\ o.op = "commenter"
  BY <1>1 DEF IInv, EnCours, Seule, EcrireCommentaire
<1>3. PICK f : f = [o EXCEPT !.c = c]
  OBVIOUS
<1>4. /\ f \in EtatsRequete /\ f.c = c
      /\ f.op = o.op /\ f.qui = o.qui /\ f.a = o.a /\ f.lu = o.lu
      /\ f.date = o.date /\ f.statut = o.statut /\ f.ecrit = o.ecrit
  BY <1>2, <1>3 DEF EtatsRequete
<1>5. Entrer(r, f) /\ UNCHANGED <<article, aime, commentaire, lectures, semes, lancees>>
  BY <1>1, <1>3 DEF EcrireCommentaire
<1>6. PICK b \in BOOLEAN : b = (Concurrents(r) = {})
  OBVIOUS
<1>. DEFINE q == [f EXCEPT !.etape = "compter_likes", !.seul = b]
<1>7. /\ q.etape = "compter_likes" /\ q.op = f.op /\ q.qui = f.qui /\ q.a = f.a /\ q.c = f.c
      /\ q.lu = f.lu /\ q.date = f.date /\ q.statut = f.statut /\ q.ecrit = f.ecrit
  BY <1>4 DEF EtatsRequete
<1>8. q = [f EXCEPT !.etape = IF f.op = "semer" THEN "semer" ELSE "compter_likes",
                    !.seul = (Concurrents(r) = {})]
  BY <1>2, <1>4, <1>6
<1>. HIDE DEF q
<1>9. commentaire[c] = SansCommentaire /\ \A p \in Requetes : req[p].c # c
  BY DEF EcrireCommentaire, CommentaireNeuf
<1>10. Controle(q)
  BY <1>2, <1>4, <1>7, <1>9, HypAucun DEF Controle, Comptent, Ajoutent, Moderations
<1>11. LikesFlushes(q) /\ \A u \in Utilisateurs : ~Touche(f, u)
  BY <1>2, <1>4, <1>7 DEF LikesFlushes, Ecrits, Comptent, Bascule, Touche
<1>12. \A p \in Requetes \ {r} : Distincts(f, req[p])
  BY <1>4, <1>9 DEF Distincts
<1>. QED  BY <1>1, <1>4, <1>5, <1>8, <1>10, <1>11, <1>12, PasEntrer

LEMMA PasEcrireLike ==
  ASSUME IInv, NEW r \in Requetes, NEW l \in Likes, EcrireLike(r, l)
  PROVE  IInv'
<1>1. PICK o : o = req[r]
  OBVIOUS
<1>2. /\ o \in EtatsRequete /\ Controle(o) /\ LikesFlushes(o)
      /\ o.etape = "ecrire" /\ o.op \in Bascule /\ o.qui \in Utilisateurs
  BY <1>1 DEF IInv, EnCours, Seule, EcrireLike, Controle
<1>3. UNCHANGED <<article, aime, commentaire, lectures, semes, lancees>>
  BY DEF EcrireLike
<1>4. CASE Refuse(r)
  <2>1. Finir(r)
    BY <1>4 DEF EcrireLike
  <2>. QED  BY <1>3, <2>1, TablesFixes, PasFinir
<1>5. CASE ~Refuse(r)
  <2>1. PICK n \in SUBSET Likes : n = IF o.lu = {} THEN {l} ELSE {}
    OBVIOUS
  <2>2. PICK f : f = [o EXCEPT !.ecrit[o.qui] = n]
    OBVIOUS
  <2>3. /\ f \in EtatsRequete /\ f.ecrit = [o.ecrit EXCEPT ![o.qui] = n]
        /\ f.op = o.op /\ f.qui = o.qui /\ f.a = o.a /\ f.lu = o.lu
        /\ f.date = o.date /\ f.statut = o.statut /\ f.c = o.c
    BY <1>2, <2>2 DEF EtatsRequete
  <2>4. Entrer(r, f)
    BY <1>1, <1>5, <2>1, <2>2 DEF EcrireLike
  <2>5. PICK b \in BOOLEAN : b = (Concurrents(r) = {})
    OBVIOUS
  <2>. DEFINE q == [f EXCEPT !.etape = "compter_likes", !.seul = b]
  <2>6. /\ q.etape = "compter_likes" /\ q.op = f.op /\ q.qui = f.qui /\ q.a = f.a /\ q.c = f.c
        /\ q.lu = f.lu /\ q.date = f.date /\ q.statut = f.statut /\ q.ecrit = f.ecrit
    BY <2>3 DEF EtatsRequete
  <2>7. q = [f EXCEPT !.etape = IF f.op = "semer" THEN "semer" ELSE "compter_likes",
                      !.seul = (Concurrents(r) = {})]
    BY <1>2, <2>3, <2>5 DEF Bascule
  <2>. HIDE DEF q
  <2>8. Controle(q)
    BY <1>2, <2>3, <2>6 DEF Controle, Comptent, Ajoutent, Moderations, Bascule
  <2>9. \A u \in Utilisateurs : q.ecrit[u] # {} => u = o.qui /\ q.ecrit[u] = {l} /\ o.lu = {}
    <3>1. \A u \in Utilisateurs : o.ecrit[u] = {}
      BY <1>2 DEF LikesFlushes, Bascule, Ecrits, Comptent
    <3>2. o.ecrit \in [Utilisateurs -> SUBSET Likes]
      BY <1>2 DEF EtatsRequete
    <3>. QED  BY <1>2, <2>1, <2>3, <2>6, <3>1, <3>2
  <2>10. o.lu = {} => aime[o.a][o.qui] = {}
    BY <1>1, <1>2, <1>5 DEF Refuse, Nouveaux, Aimeurs
  <2>11. LikesFlushes(q)
    BY <1>2, <2>3, <2>6, <2>9, <2>10 DEF LikesFlushes, Ecrits, Comptent
  <2>12. ASSUME NEW p \in Concurrents(r), NEW u \in Utilisateurs, req[p].etape # "semer"
         PROVE  ~(Touche(f, u) /\ Touche(req[p], u))
    <3>1. Aimeurs(p) \cap Aimeurs(r) = {}
      BY <2>12 DEF EcrireLike, MemeLike
    <3>2. Aimeurs(r) = {o.qui} /\ (Touche(f, u) => u = o.qui)
      BY <1>1, <1>2, <2>3 DEF Aimeurs, Touche
    <3>3. Touche(req[p], u) => u \in Aimeurs(p)
      BY DEF Touche, Aimeurs
    <3>. QED  BY <3>1, <3>2, <3>3
  <2>13. \A p \in Requetes \ {r} : Distincts(f, req[p])
    BY <1>1, <2>3, Distinctes DEF Distincts
  <2>. QED  BY <1>1, <1>3, <2>3, <2>4, <2>7, <2>8, <2>11, <2>12, <2>13, PasEntrer
<1>. QED  BY <1>4, <1>5

\* A request in its section goes one step further.
LEMMA PasDansSection ==
  ASSUME IInv, NEW r \in Requetes, NEW q \in EtatsRequete, req' = [req EXCEPT ![r] = q],
         UNCHANGED <<article, aime, commentaire, lectures, semes, lancees>>,
         req[r].etape \in Comptent, q.etape \in Ecrits,
         q.op = req[r].op, q.qui = req[r].qui, q.a = req[r].a, q.c = req[r].c,
         q.ecrit = req[r].ecrit, q.seul = req[r].seul,
         Controle(q), LikesFlushes(q), Comptes(q),
         \A p \in Concurrents(r), u \in Utilisateurs :
           req[p].etape # "semer" => ~(Touche(q, u) /\ Touche(req[p], u))
  PROVE  IInv'
<1>1. Tables' /\ Avancent
  BY TablesFixes
<1>2. /\ DOMAIN req' = Requetes /\ req' = [p \in DOMAIN req' |-> req'[p]]
      /\ req'[r] = q /\ \A p \in Requetes \ {r} : req'[p] = req[p]
  BY DEF IInv, EnCours
<1>3. Seule(q)'
  BY DEF Seule, Comptes, Controle, Existe, LikesFlushes, LikesApres, CommentairesApres
<1>4. ASSUME NEW p \in Requetes \ {r} PROVE Paire(q, req[p]) /\ Paire(req'[p], q)
  <2>1. Paire(req[r], req[p]) /\ Paire(req[p], req[r])
    BY DEF IInv, EnCours
  <2>2. ASSUME NEW u \in Utilisateurs, req[p].etape \in Ecrits, q.a = req[p].a
        PROVE  ~(Touche(q, u) /\ Touche(req[p], u))
    BY <2>2 DEF Concurrents, Ecrits
  <2>. QED  BY <1>2, <2>1, <2>2 DEF Paire, Ecrits
<1>. QED  BY <1>1, <1>2, <1>3, <1>4, PasDeRequete DEF IInv, Reste

\* What the counts are worth: COUNT sees the committed rows and those of the request.
LEMMA CompteLikes ==
  ASSUME IInv, NEW r \in Requetes, req[r].etape # "repos"
  PROVE  LikesVus(r) = LikesApres(req[r]) /\ LikesApres(req[r]) \in Nat
<1>1. req[r].a \in Articles /\ req[r].a # Aucun
  BY HypAucun DEF IInv, EnCours, Seule, Controle
<1>2. AimeSelon(r)[req[r].a] =
        [u \in Utilisateurs |-> (aime[req[r].a][u] \ req[r].lu) \cup req[r].ecrit[u]]
  BY <1>1 DEF AimeSelon, IInv, Tables, TableLikes
<1>3. LikesVus(r) = LikesApres(req[r])
  BY <1>2 DEF LikesVus, NbLikes, LikesApres
<1>4. LikesApres(req[r]) \in Nat
  <2>1. IsFiniteSet(Utilisateurs \X Likes)
    BY HypFinis, FS_Product
  <2>2. ASSUME NEW T \in SUBSET (Utilisateurs \X Likes) PROVE Cardinality(T) \in Nat
    BY <2>1, FS_Subset, FS_CardinalityType
  <2>. QED  BY <2>2 DEF LikesApres
<1>. QED  BY <1>3, <1>4

LEMMA CompteCommentaires ==
  ASSUME IInv, NEW r \in Requetes, req[r].etape \in Ecrits
  PROVE  /\ NbComments(CommentairesSelon(r), req[r].a) = CommentairesApres(req[r])
         /\ CommentairesApres(req[r]) \in Nat
<1>1. PICK q : q = req[r]
  OBVIOUS
<1>2. q \in EtatsRequete /\ Controle(q) /\ q.etape \in Ecrits
  BY <1>1 DEF IInv, EnCours, Seule
<1>3. commentaire \in [Commentaires -> LignesCommentaire]
  BY DEF IInv, Tables
<1>. DEFINE t == CommentairesSelon(r)
<1>4. ASSUME NEW c \in Commentaires
      PROVE  (t[c].article = q.a /\ ~t[c].supprime) <=>
             (IF c = q.c THEN q.op # "decommenter" ELSE commentaire[c].article = q.a /\ ~commentaire[c].supprime)
  <2>1. CASE q.op \in Ajoutent /\ q.c # Aucun
    <3>1. t = [commentaire EXCEPT ![q.c] = [article |-> q.a, auteur |-> q.qui, supprime |-> FALSE]]
      BY <1>1, <2>1 DEF CommentairesSelon, Ajoutent
    <3>. QED  BY <1>3, <2>1, <3>1 DEF Ajoutent
  <2>2. CASE q.op = "decommenter"
    <3>1. t = [commentaire EXCEPT ![q.c].supprime = TRUE]
      BY <1>1, <2>2 DEF CommentairesSelon
    <3>. QED  BY <1>3, <2>2, <3>1 DEF LignesCommentaire
  <2>3. CASE q.op # "decommenter" /\ (q.op \notin Ajoutent \/ q.c = Aucun)
    <3>1. t = commentaire
      BY <1>1, <2>3 DEF CommentairesSelon, Ajoutent
    <3>2. q.c = Aucun
      BY <1>2, <2>3 DEF Controle
    <3>. QED  BY <3>1, <3>2, HypAucun
  <2>. QED  BY <2>1, <2>2, <2>3
<1>5. NbComments(t, q.a) = CommentairesApres(q)
  <2>. HIDE DEF t
  <2>. QED  BY <1>4 DEF NbComments, CommentairesApres
<1>6. CommentairesApres(q) \in Nat
  <2>1. ASSUME NEW T \in SUBSET Commentaires PROVE Cardinality(T) \in Nat
    BY HypFinis, FS_Subset, FS_CardinalityType
  <2>. QED  BY <2>1 DEF CommentairesApres
<1>. QED  BY <1>1, <1>5, <1>6

LEMMA PasCompterLikes ==
  ASSUME IInv, NEW r \in Requetes, CompterLikes(r)
  PROVE  IInv'
<1>1. PICK o : o = req[r]
  OBVIOUS
<1>2. /\ o \in EtatsRequete /\ Controle(o) /\ LikesFlushes(o) /\ o.etape = "compter_likes"
      /\ LikesVus(r) = LikesApres(o) /\ LikesApres(o) \in Nat
  BY <1>1, CompteLikes DEF IInv, EnCours, Seule, CompterLikes
<1>. DEFINE q == [o EXCEPT !.etape = "compter_comments", !.likes = LikesApres(o)]
<1>3. /\ q \in EtatsRequete /\ q.etape = "compter_comments" /\ q.likes = LikesApres(o)
      /\ q.op = o.op /\ q.qui = o.qui /\ q.a = o.a /\ q.c = o.c /\ q.lu = o.lu
      /\ q.date = o.date /\ q.statut = o.statut /\ q.ecrit = o.ecrit /\ q.seul = o.seul
  BY <1>2 DEF EtatsRequete, Comptent
<1>4. req' = [req EXCEPT ![r] = q]
  BY <1>1, <1>2 DEF CompterLikes, IInv, EnCours, EtatsRequete
<1>. HIDE DEF q
<1>5. Controle(q)
  BY <1>2, <1>3 DEF Controle, Comptent
<1>6. LikesFlushes(q)
  BY <1>2, <1>3 DEF LikesFlushes, Ecrits, Comptent
<1>7. Comptes(q)
  BY <1>3 DEF Comptes, LikesApres
<1>8. ASSUME NEW p \in Concurrents(r), NEW u \in Utilisateurs, req[p].etape # "semer"
      PROVE  ~(Touche(q, u) /\ Touche(req[p], u))
  <2>1. Paire(req[r], req[p])
    BY DEF IInv, EnCours, Concurrents
  <2>. QED  BY <1>1, <1>2, <1>3, <1>8, <2>1 DEF Paire, Touche, Ecrits, Comptent, Concurrents
<1>. QED  BY <1>1, <1>2, <1>3, <1>4, <1>5, <1>6, <1>7, <1>8, PasDansSection
          DEF CompterLikes, Ecrits, Comptent

LEMMA PasCompterCommentaires ==
  ASSUME IInv, NEW r \in Requetes, CompterCommentaires(r)
  PROVE  IInv'
<1>1. PICK o : o = req[r]
  OBVIOUS
<1>2. /\ o \in EtatsRequete /\ Controle(o) /\ LikesFlushes(o) /\ Comptes(o)
      /\ o.etape = "compter_comments"
      /\ NbComments(CommentairesSelon(r), req[r].a) = CommentairesApres(o) /\ CommentairesApres(o) \in Nat
  BY <1>1, CompteCommentaires DEF IInv, EnCours, Seule, CompterCommentaires, Ecrits, Comptent
<1>. DEFINE q == [o EXCEPT !.etape = "enregistrer", !.comments = CommentairesApres(o)]
<1>3. /\ q \in EtatsRequete /\ q.etape = "enregistrer" /\ q.comments = CommentairesApres(o)
      /\ q.op = o.op /\ q.qui = o.qui /\ q.a = o.a /\ q.c = o.c /\ q.lu = o.lu /\ q.likes = o.likes
      /\ q.date = o.date /\ q.statut = o.statut /\ q.ecrit = o.ecrit /\ q.seul = o.seul
  BY <1>2 DEF EtatsRequete, Comptent
<1>4. req' = [req EXCEPT ![r] = q]
  BY <1>1, <1>2 DEF CompterCommentaires, IInv, EnCours, EtatsRequete
<1>. HIDE DEF q
<1>5. Controle(q)
  BY <1>2, <1>3 DEF Controle, Comptent
<1>6. LikesFlushes(q)
  BY <1>2, <1>3 DEF LikesFlushes, Ecrits, Comptent
<1>7. Comptes(q)
  BY <1>2, <1>3 DEF Comptes, LikesApres, CommentairesApres
<1>8. ASSUME NEW p \in Concurrents(r), NEW u \in Utilisateurs, req[p].etape # "semer"
      PROVE  ~(Touche(q, u) /\ Touche(req[p], u))
  <2>1. Paire(req[r], req[p])
    BY DEF IInv, EnCours, Concurrents
  <2>. QED  BY <1>1, <1>2, <1>3, <1>8, <2>1 DEF Paire, Touche, Ecrits, Comptent, Concurrents
<1>. QED  BY <1>1, <1>2, <1>3, <1>4, <1>5, <1>6, <1>7, <1>8, PasDansSection
          DEF CompterCommentaires, Ecrits, Comptent

LEMMA PasInsererSemis ==
  ASSUME IInv, NEW r \in Requetes, InsererSemis(r)
  PROVE  IInv'
<1>1. CASE Refuse(r)
  <2>1. Finir(r) /\ UNCHANGED <<article, aime, commentaire, lectures, semes, lancees>>
    BY <1>1 DEF InsererSemis
  <2>. QED  BY <2>1, TablesFixes, PasFinir
<1>2. CASE ~Refuse(r)
  <2>1. PICK o : o = req[r]
    OBVIOUS
  <2>2. /\ o \in EtatsRequete /\ Controle(o) /\ LikesFlushes(o) /\ o.etape = "semer" /\ o.op = "semer"
    BY <2>1 DEF IInv, EnCours, Seule, Controle, InsererSemis
  <2>. DEFINE q == [o EXCEPT !.etape = "enregistrer"]
  <2>3. /\ q \in EtatsRequete /\ q.etape = "enregistrer"
        /\ q.op = o.op /\ q.qui = o.qui /\ q.a = o.a /\ q.c = o.c /\ q.lu = o.lu
        /\ q.date = o.date /\ q.statut = o.statut /\ q.ecrit = o.ecrit /\ q.seul = o.seul
    BY <2>2 DEF EtatsRequete, Comptent
  <2>4. req' = [req EXCEPT ![r] = q]
    BY <1>2, <2>1, <2>2 DEF InsererSemis, IInv, EnCours, EtatsRequete
  <2>. HIDE DEF q
  <2>5. Controle(q)
    BY <2>2, <2>3 DEF Controle, Comptent
  <2>6. \A u \in Utilisateurs : q.ecrit[u] # {} => aime[q.a][u] = {}
    BY <1>2, <2>1, <2>2, <2>3 DEF Refuse, Nouveaux, Aimeurs, Bascule
  <2>7. LikesFlushes(q) /\ Comptes(q)
    BY <2>2, <2>3, <2>6 DEF LikesFlushes, Comptes
  <2>8. ASSUME NEW p \in Concurrents(r), NEW u \in Utilisateurs, req[p].etape # "semer"
        PROVE  ~(Touche(q, u) /\ Touche(req[p], u))
    <3>1. Aimeurs(p) \cap Aimeurs(r) = {}
      BY <2>8 DEF InsererSemis, MemeLike
    <3>2. Touche(q, u) => u \in Aimeurs(r)
      BY <2>1, <2>2, <2>3 DEF Touche, Aimeurs, Bascule
    <3>3. Touche(req[p], u) => u \in Aimeurs(p)
      BY DEF Touche, Aimeurs
    <3>. QED  BY <3>1, <3>2, <3>3
  <2>. QED  BY <2>1, <2>2, <2>3, <2>4, <2>5, <2>7, <2>8, PasDansSection
            DEF InsererSemis, Ecrits, Comptent
<1>. QED  BY <1>1, <1>2

-----------------------------------------------------------------------------
(* Steps that write the articles                                             *)

\* A row a of the articles becomes l.
LEMMA LigneEcrite ==
  ASSUME IInv, NEW a \in Articles, NEW l \in LignesArticle, article' = [article EXCEPT ![a] = l],
         l.statut # Aucun, l.statut = "published" => l.date = TRUE, article[a].date = TRUE => l.date = TRUE,
         lectures' \in [Articles -> Nat], l.vues = lectures'[a],
         \A b \in Articles \ {a} : lectures'[b] = lectures[b],
         semes' \subseteq Articles, lancees' \in 0..MaxLancees
  PROVE  /\ article' \in [Articles -> LignesArticle] /\ Avancent
         /\ \A b \in Articles : /\ article'[b].statut = Aucun => article'[b] = SansArticle
                                /\ article'[b].vues = lectures'[b]
                                /\ article'[b].statut = "published" => article'[b].date = TRUE
                                /\ Existe(b) => article'[b].statut # Aucun
<1>1. article \in [Articles -> LignesArticle] /\ \A b \in Articles : Lignes(b)
  BY DEF IInv, Tables
<1>2. article' \in [Articles -> LignesArticle]
  BY <1>1
<1>3. \A b \in Articles : article'[b] = IF b = a THEN l ELSE article[b]
  BY <1>1
<1>. QED  BY <1>1, <1>2, <1>3 DEF Avancent, Lignes, Existe

LEMMA ArticleEcrit ==
  ASSUME IInv, NEW a \in Articles, NEW l \in LignesArticle, article' = [article EXCEPT ![a] = l],
         l.statut # Aucun, l.statut = "published" => l.date = TRUE, article[a].date = TRUE => l.date = TRUE,
         lectures' \in [Articles -> Nat], l.vues = lectures'[a],
         \A b \in Articles \ {a} : lectures'[b] = lectures[b],
         semes' \subseteq Articles, UNCHANGED <<aime, commentaire, lancees>>
  PROVE  Tables' /\ Avancent
<1>1. lancees' \in 0..MaxLancees
  BY DEF IInv, Tables
<1>2. ASSUME NEW b \in Articles PROVE Lignes(b)'
  <2>1. \A u \in Utilisateurs : \A k, m \in aime[b][u] : k = m
    BY DEF IInv, Tables, Lignes
  <2>2. /\ article'[b].statut = Aucun => article'[b] = SansArticle
        /\ article'[b].vues = lectures'[b]
        /\ article'[b].statut = "published" => article'[b].date = TRUE
    BY <1>1, LigneEcrite
  <2>. QED  BY <2>1, <2>2 DEF Lignes, Existe
<1>3. ASSUME NEW c \in Commentaires PROVE Reelles(c)'
  <2>1. Reelles(c)
    BY DEF IInv, Tables
  <2>. QED  BY <1>1, <2>1, LigneEcrite DEF Reelles, Existe
<1>. QED  BY <1>1, <1>2, <1>3, LigneEcrite DEF IInv, Tables

LEMMA PasModerer ==
  ASSUME IInv, NEW r \in Requetes, Moderer(r)
  PROVE  IInv'
<1>1. PICK q : q = req[r]
  OBVIOUS
<1>2. q \in EtatsRequete /\ Controle(q) /\ q.etape = "moderer"
  BY <1>1 DEF IInv, EnCours, Seule, Moderer
<1>3. q.a \in Articles /\ Existe(q.a) /\ q.op \in Moderations
  BY <1>2 DEF Controle
<1>4. Finir(r) /\ UNCHANGED <<aime, commentaire, lectures, semes, lancees>>
  BY DEF Moderer
<1>5. CASE article[q.a].supprime
  <2>1. article' = article
    BY <1>1, <1>5 DEF Moderer
  <2>. QED  BY <1>4, <2>1, TablesFixes, PasFinir
<1>6. CASE ~article[q.a].supprime
  <2>1. PICK v \in Statuts : v = Verdict(q.op) /\ (v = "published" => q.op = "approuver")
    BY <1>3 DEF Verdict, Moderations, Statuts, Reserves
  <2>2. PICK d \in BOOLEAN : d = (article[q.a].date \/ q.op = "approuver")
    BY DEF IInv, Tables
  <2>3. article[q.a] \in LignesArticle /\ Lignes(q.a) /\ article \in [Articles -> LignesArticle]
    BY <1>3 DEF IInv, Tables
  <2>. DEFINE l == [article[q.a] EXCEPT !.statut = v, !.date = d]
  <2>4. article' = [article EXCEPT ![q.a] = l]
    BY <1>1, <1>6, <2>1, <2>2, <2>3 DEF Moderer, LignesArticle
  <2>5. l \in LignesArticle /\ l.statut = v /\ l.date = d /\ l.vues = article[q.a].vues
    BY <2>3 DEF LignesArticle
  <2>6. article[q.a].date = TRUE => d = TRUE
    BY <2>2
  <2>7. v # Aucun
    BY HypAucun
  <2>. HIDE DEF l
  <2>8. (v = "published" => d = TRUE) /\ lectures' \in [Articles -> Nat] /\ semes' \subseteq Articles
        /\ l.vues = lectures'[q.a]
    BY <1>4, <2>1, <2>2, <2>3, <2>5 DEF IInv, Tables, Lignes
  <2>9. Tables' /\ Avancent
    BY <1>3, <1>4, <2>4, <2>5, <2>6, <2>7, <2>8, ArticleEcrit
  <2>. QED  BY <1>4, <2>9, PasFinir
<1>. QED  BY <1>5, <1>6

LEMMA PasVoir ==
  ASSUME IInv, NEW r \in Requetes, Voir(r)
  PROVE  IInv'
<1>1. PICK a \in Articles : a = req[r].a /\ Existe(a)
  BY DEF IInv, EnCours, Seule, Controle, Voir
<1>2. Finir(r) /\ UNCHANGED <<aime, commentaire, semes, lancees>>
  BY DEF Voir
<1>3. CASE article[a].supprime
  <2>1. UNCHANGED <<article, lectures>>
    BY <1>1, <1>3 DEF Voir
  <2>. QED  BY <1>2, <2>1, TablesFixes, PasFinir
<1>4. CASE ~article[a].supprime
  <2>1. article' = [article EXCEPT ![a].vues = Vues(r)] /\ lectures' = [lectures EXCEPT ![a] = @ + 1]
    BY <1>1, <1>4 DEF Voir
  <2>2. article[a] \in LignesArticle /\ Lignes(a) /\ article \in [Articles -> LignesArticle]
        /\ lectures \in [Articles -> Nat] /\ semes \subseteq Articles
    BY DEF IInv, Tables
  <2>. DEFINE l == [article[a] EXCEPT !.vues = article[a].vues + 1]
  <2>3. article' = [article EXCEPT ![a] = l]
    BY <1>1, <2>1, <2>2 DEF Vues
  <2>4. l \in LignesArticle /\ l.statut = article[a].statut /\ l.date = article[a].date
        /\ l.vues = article[a].vues + 1
    BY <2>2 DEF LignesArticle
  <2>. HIDE DEF l
  <2>5. l.statut # Aucun /\ (l.statut = "published" => l.date = TRUE) /\ (article[a].date = TRUE => l.date = TRUE)
    BY <1>1, <2>2, <2>4 DEF Existe, Lignes
  <2>6. lectures' \in [Articles -> Nat] /\ l.vues = lectures'[a]
        /\ \A b \in Articles \ {a} : lectures'[b] = lectures[b]
    BY <2>1, <2>2, <2>4 DEF Lignes
  <2>7. Tables' /\ Avancent
    BY <1>2, <2>2, <2>3, <2>4, <2>5, <2>6, ArticleEcrit
  <2>. QED  BY <1>2, <2>7, PasFinir
<1>. QED  BY <1>3, <1>4

\* A new article, by a user or by a script.
LEMMA PasNouveau ==
  ASSUME IInv, NEW a \in Articles, NEW u \in Utilisateurs, NEW t \in Statuts, ~Existe(a),
         NEW v \in Nat,
         article' = [article EXCEPT ![a] = Nouveau(u, t, v)],
         lectures' = [lectures EXCEPT ![a] = v],
         UNCHANGED <<aime, commentaire, req, lancees>>, semes' \subseteq Articles
  PROVE  IInv'
<1>1. PICK d \in BOOLEAN : d = (t = "published")
  OBVIOUS
<1>. DEFINE l == [SansArticle EXCEPT !.statut = t, !.auteur = u, !.date = d, !.vues = v]
<1>2. l \in LignesArticle /\ l.statut = t /\ l.date = d /\ l.vues = v
  BY DEF LignesArticle, SansArticle
<1>3. article' = [article EXCEPT ![a] = l]
  BY <1>1 DEF Nouveau
<1>. HIDE DEF l
<1>4. /\ article[a] = SansArticle /\ lectures' \in [Articles -> Nat] /\ lectures'[a] = v
      /\ \A b \in Articles \ {a} : lectures'[b] = lectures[b]
  BY DEF IInv, Tables, Lignes, Existe
<1>5. l.vues = lectures'[a] /\ article[a].date # TRUE /\ t # Aucun
  BY <1>2, <1>4, HypAucun DEF SansArticle
<1>6. l.statut # Aucun /\ (l.statut = "published" => l.date = TRUE) /\ (article[a].date = TRUE => l.date = TRUE)
  BY <1>1, <1>2, <1>5
<1>7. Tables' /\ Avancent
  BY <1>2, <1>3, <1>4, <1>5, <1>6, ArticleEcrit
<1>. QED  BY <1>7, SansRequete DEF IInv

LEMMA PasCreer ==
  ASSUME IInv, NEW a \in Articles, NEW u \in Utilisateurs, NEW s \in Statuts, Creer(a, u, s)
  PROVE  IInv'
<1>1. PICK t \in Statuts : t = StatutCree(u, s)
  BY DEF StatutCree, Statuts
<1>2. article[a] = SansArticle /\ lectures[a] = 0 /\ lectures \in [Articles -> Nat]
  BY DEF Creer, Existe, IInv, Tables, Lignes, SansArticle
<1>3. lectures' = [lectures EXCEPT ![a] = 0]
  BY <1>2 DEF Creer
<1>4. article' = [article EXCEPT ![a] = Nouveau(u, t, 0)]
  BY <1>1 DEF Creer
<1>5. ~Existe(a) /\ UNCHANGED <<aime, commentaire, req, lancees>> /\ semes' \subseteq Articles
  BY DEF Creer, IInv, Tables
<1>. QED  BY <1>3, <1>4, <1>5, PasNouveau

LEMMA PasSemer ==
  ASSUME IInv, NEW a \in Articles, NEW u \in Utilisateurs, NEW s \in {"draft", "published"},
         NEW v \in VuesSemees, Semer(a, u, s, v)
  PROVE  IInv'
<1>1. s \in Statuts /\ semes' \subseteq Articles /\ v \in Nat
  BY HypVues DEF Statuts, Reserves, Semer, IInv, Tables
<1>. QED  BY <1>1, PasNouveau DEF Semer

LEMMA PasSupprimer ==
  ASSUME IInv, NEW a \in Articles, NEW u \in Utilisateurs, Supprimer(u, a)
  PROVE  IInv'
<1>1. article[a] \in LignesArticle /\ Lignes(a) /\ article \in [Articles -> LignesArticle]
      /\ lectures \in [Articles -> Nat] /\ semes \subseteq Articles
  BY DEF IInv, Tables
<1>. DEFINE l == [article[a] EXCEPT !.supprime = TRUE]
<1>2. article' = [article EXCEPT ![a] = l] /\ article[a].statut # Aucun
      /\ UNCHANGED <<aime, commentaire, req, lectures, semes, lancees>>
  BY <1>1 DEF Supprimer, Visible, Existe
<1>3. l \in LignesArticle /\ l.statut = article[a].statut /\ l.date = article[a].date
      /\ l.vues = article[a].vues
  BY <1>1 DEF LignesArticle
<1>. HIDE DEF l
<1>4. l.vues = lectures'[a] /\ (l.statut = "published" => l.date = TRUE)
  BY <1>1, <1>2, <1>3 DEF Lignes
<1>5. Tables' /\ Avancent
  BY <1>1, <1>2, <1>3, <1>4, ArticleEcrit
<1>. QED  BY <1>2, <1>5, SansRequete DEF IInv

LEMMA PasLireSemis ==
  ASSUME IInv, NEW r \in Requetes, NEW a \in Articles, NEW U \in SUBSET Utilisateurs,
         NEW c \in Commentaires \cup {Aucun},
         NEW u \in (IF c = Aucun THEN {Aucun} ELSE Utilisateurs), LireSemis(r, a, U, c, u)
  PROVE  IInv'
<1>1. PICK l \in [U -> Likes] :
        Debuter(r, [Repos EXCEPT !.etape = "ecrire", !.op = "semer", !.a = a, !.champs = TRUE,
            !.qui = u, !.c = c, !.likes = article[a].likes + Cardinality(U),
            !.comments = article[a].comments + (IF c = Aucun THEN 0 ELSE 1),
            !.ecrit = [v \in Utilisateurs |-> IF v \in U THEN {l[v]} ELSE {}]])
  BY DEF LireSemis
<1>2. PICK i \in Nat : i = article[a].likes + Cardinality(U)
  <2>1. Cardinality(U) \in Nat
    BY HypFinis, FS_Subset, FS_CardinalityType
  <2>2. article[a].likes \in Nat
    BY DEF IInv, Tables, LignesArticle
  <2>. QED  BY <2>1, <2>2
<1>3. PICK k \in Nat : k = article[a].comments + (IF c = Aucun THEN 0 ELSE 1)
  <2>1. article[a].comments \in Nat
    BY DEF IInv, Tables, LignesArticle
  <2>. QED  BY <2>1
<1>4. PICK e \in [Utilisateurs -> SUBSET Likes] :
        e = [v \in Utilisateurs |-> IF v \in U THEN {l[v]} ELSE {}]
  OBVIOUS
<1>. DEFINE q == [Repos EXCEPT !.etape = "ecrire", !.op = "semer", !.a = a, !.champs = TRUE,
                    !.qui = u, !.c = c, !.likes = i, !.comments = k, !.ecrit = e]
<1>5. Debuter(r, q) /\ UNCHANGED <<article, aime, commentaire, lectures, semes>>
  BY <1>1, <1>2, <1>3, <1>4 DEF LireSemis
<1>6. /\ q \in EtatsRequete /\ q.etape = "ecrire" /\ q.op = "semer" /\ q.a = a /\ q.c = c
      /\ q.ecrit = e /\ q.lu = {} /\ q.statut = Aucun
  BY DEF EtatsRequete, Repos, Operations
<1>. HIDE DEF q
<1>7. Existe(a) /\ (c # Aucun => commentaire[c] = SansCommentaire /\ \A p \in Requetes : req[p].c # c)
  BY DEF LireSemis, Visible, CommentaireNeuf
<1>8. Controle(q)
  BY <1>6, <1>7, HypAucun DEF Controle, Operations, Statuts, Reserves, Bascule, Moderations, Ajoutent, Comptent
<1>9. LikesFlushes(q)
  BY <1>4, <1>6 DEF LikesFlushes, Ecrits, Comptent
<1>10. ASSUME NEW p \in Requetes \ {r} PROVE Distincts(q, req[p])
  <2>1. req[p].c = Aucun \/ req[p].c # c
    BY <1>7
  <2>. QED  BY <1>6, <1>7, <2>1 DEF Distincts
<1>. QED  BY <1>5, <1>6, <1>8, <1>9, <1>10, PasDebuter

-----------------------------------------------------------------------------
(* The commit                                                                *)

\* The likes of an article once r is committed: still one per user at most.
LEMMA LikesEcrits ==
  ASSUME IInv, NEW r \in Requetes, req[r].etape = "enregistrer"
  PROVE  /\ AimeSelon(r) \in TableLikes
         /\ \A a \in Articles : \A u \in Utilisateurs : \A k, l \in AimeSelon(r)[a][u] : k = l
         /\ \A a \in Articles : a # req[r].a => AimeSelon(r)[a] = aime[a]
         /\ \A u \in Utilisateurs : req[r].ecrit[u] = {} => AimeSelon(r)[req[r].a][u] \subseteq aime[req[r].a][u]
<1>1. PICK q : q = req[r]
  OBVIOUS
<1>2. q \in EtatsRequete /\ LikesFlushes(q) /\ Controle(q) /\ q.etape \in Ecrits
  BY <1>1 DEF IInv, EnCours, Seule, Ecrits, Comptent
<1>3. q.a \in Articles /\ q.a # Aucun
  BY <1>2, HypAucun DEF Controle, Ecrits, Comptent
<1>4. aime \in TableLikes /\ \A a \in Articles : \A u \in Utilisateurs : \A k, l \in aime[a][u] : k = l
  BY DEF IInv, Tables, Lignes
<1>. DEFINE n == [u \in Utilisateurs |-> (aime[q.a][u] \ q.lu) \cup q.ecrit[u]]
<1>5. AimeSelon(r) = [aime EXCEPT ![q.a] = n]
  BY <1>1, <1>3, <1>4 DEF AimeSelon, TableLikes
<1>6. n \in [Utilisateurs -> SUBSET Likes]
  BY <1>2, <1>3, <1>4 DEF TableLikes, EtatsRequete
<1>7. ASSUME NEW u \in Utilisateurs PROVE \A k, l \in n[u] : k = l
  <2>1. CASE q.ecrit[u] = {}
    BY <1>3, <1>4, <2>1
  <2>2. CASE q.ecrit[u] # {}
    <3>1. aime[q.a][u] = {} /\ \E l \in Likes : q.ecrit[u] = {l}
      BY <1>2, <2>2 DEF LikesFlushes
    <3>. QED  BY <3>1
  <2>. QED  BY <2>1, <2>2
<1>8. \A u \in Utilisateurs : q.ecrit[u] = {} => n[u] \subseteq aime[q.a][u]
  OBVIOUS
<1>. HIDE DEF n
<1>9. /\ AimeSelon(r) \in TableLikes /\ AimeSelon(r)[q.a] = n
      /\ \A a \in Articles : a # q.a => AimeSelon(r)[a] = aime[a]
  BY <1>3, <1>4, <1>5, <1>6 DEF TableLikes
<1>. QED  BY <1>1, <1>4, <1>7, <1>8, <1>9

\* The comments once r is committed: only its own row changes, and it is about its
\* article.
LEMMA CommentairesEcrits ==
  ASSUME IInv, NEW r \in Requetes, req[r].etape = "enregistrer"
  PROVE  /\ CommentairesSelon(r) \in [Commentaires -> LignesCommentaire]
         /\ \A c \in Commentaires :
              \/ CommentairesSelon(r)[c] = commentaire[c]
              \/ /\ c = req[r].c /\ CommentairesSelon(r)[c].article = req[r].a
                 /\ \/ req[r].op \in Ajoutent /\ commentaire[c] = SansCommentaire
                    \/ req[r].op = "decommenter" /\ commentaire[c].article = req[r].a
<1>1. PICK q : q = req[r]
  OBVIOUS
<1>2. q \in EtatsRequete /\ Controle(q) /\ q.etape = "enregistrer"
  BY <1>1 DEF IInv, EnCours, Seule
<1>3. commentaire \in [Commentaires -> LignesCommentaire]
  BY DEF IInv, Tables
<1>. DEFINE t == CommentairesSelon(r)
<1>4. CASE q.op \in Ajoutent /\ q.c # Aucun
  <2>. DEFINE l == [article |-> q.a, auteur |-> q.qui, supprime |-> FALSE]
  <2>1. t = [commentaire EXCEPT ![q.c] = l]
    BY <1>1, <1>4 DEF CommentairesSelon, Ajoutent
  <2>2. l \in LignesCommentaire /\ q.c \in Commentaires /\ commentaire[q.c] = SansCommentaire
    BY <1>2, <1>4 DEF LignesCommentaire, EtatsRequete, Controle
  <2>. QED  BY <1>1, <1>3, <1>4, <2>1, <2>2
<1>5. CASE q.op = "decommenter"
  <2>1. t = [commentaire EXCEPT ![q.c].supprime = TRUE]
    BY <1>1, <1>5 DEF CommentairesSelon
  <2>2. q.c \in Commentaires /\ commentaire[q.c].article = q.a
    BY <1>2, <1>5 DEF Controle
  <2>3. [commentaire[q.c] EXCEPT !.supprime = TRUE] \in LignesCommentaire
    BY <1>3, <2>2 DEF LignesCommentaire
  <2>4. t \in [Commentaires -> LignesCommentaire] /\ t[q.c].article = q.a
    BY <1>3, <2>1, <2>2, <2>3 DEF LignesCommentaire
  <2>5. \A c \in Commentaires : c # q.c => t[c] = commentaire[c]
    BY <1>3, <2>1
  <2>. QED  BY <1>1, <1>5, <2>2, <2>4, <2>5
<1>6. CASE q.op # "decommenter" /\ ~(q.op \in Ajoutent /\ q.c # Aucun)
  <2>1. t = commentaire
    BY <1>1, <1>6 DEF CommentairesSelon, Ajoutent
  <2>. QED  BY <1>3, <2>1
<1>. QED  BY <1>4, <1>5, <1>6

\* What the commit of r does to the article.
LEMMA ArticleEnregistre ==
  ASSUME IInv, NEW r \in Requetes, Enregistrer(r)
  PROVE  /\ article' \in [Articles -> LignesArticle] /\ Avancent
         /\ \A b \in Articles : /\ article'[b].statut = Aucun => article'[b] = SansArticle
                                /\ article'[b].vues = lectures'[b]
                                /\ article'[b].statut = "published" => article'[b].date = TRUE
                                /\ Existe(b) => article'[b].statut # Aucun
                                /\ \/ article'[b].statut = article[b].statut
                                   \/ b = req[r].a /\ article'[b].statut = req[r].statut
         /\ ~article[req[r].a].supprime /\ req[r].op # "semer" =>
              article'[req[r].a].likes = req[r].likes /\ article'[req[r].a].comments = req[r].comments
<1>1. PICK q : q = req[r]
  OBVIOUS
<1>2. q \in EtatsRequete /\ Controle(q) /\ q.etape = "enregistrer"
  BY <1>1 DEF IInv, EnCours, Seule, Enregistrer
<1>3. q.a \in Articles /\ Existe(q.a)
  BY <1>2 DEF Controle
<1>4. article \in [Articles -> LignesArticle] /\ \A b \in Articles : Lignes(b)
  BY DEF IInv, Tables
<1>5. CASE article[q.a].supprime /\ q.op # "semer"
  <2>1. article' = article /\ lectures' = lectures
    BY <1>1, <1>5 DEF Enregistrer
  <2>. QED  BY <1>1, <1>4, <1>5, <2>1 DEF Lignes, Existe, Avancent
<1>6. CASE ~(article[q.a].supprime /\ q.op # "semer")
  <2>1. PICK t \in Statuts : t = IF q.statut = Aucun THEN article[q.a].statut ELSE q.statut
    BY <1>2, <1>3, <1>4 DEF EtatsRequete, LignesArticle, Existe
  <2>2. PICK d \in BOOLEAN : d = (article[q.a].date \/ q.date)
    OBVIOUS
  <2>3. PICK i \in Nat : i = IF Ajoute(r, Aimeurs(r) = {}) THEN q.likes ELSE article[q.a].likes
    BY <1>2, <1>3, <1>4 DEF EtatsRequete, LignesArticle
  <2>4. PICK k \in Nat : k = IF Ajoute(r, q.c = Aucun) THEN q.comments ELSE article[q.a].comments
    BY <1>2, <1>3, <1>4 DEF EtatsRequete, LignesArticle
  <2>. DEFINE l == [article[q.a] EXCEPT !.statut = t, !.date = d, !.likes = i, !.comments = k]
  <2>5. article' = [article EXCEPT ![q.a] = l]
    <3>1. article' = [article EXCEPT ![q.a].statut = IF q.statut = Aucun THEN @ ELSE q.statut,
                       ![q.a].date = @ \/ q.date,
                       ![q.a].likes = IF Ajoute(r, Aimeurs(r) = {}) THEN q.likes ELSE @,
                       ![q.a].comments = IF Ajoute(r, q.c = Aucun) THEN q.comments ELSE @]
      BY <1>1, <1>6 DEF Enregistrer
    <3>. QED  BY <1>3, <1>4, <2>1, <2>2, <2>3, <2>4, <3>1 DEF LignesArticle
  <2>6. article[q.a] \in LignesArticle
    BY <1>3, <1>4
  <2>7. /\ l \in LignesArticle /\ l.statut = t /\ l.date = d /\ l.vues = article[q.a].vues
        /\ l.likes = i /\ l.comments = k
    BY <2>6 DEF LignesArticle
  <2>. HIDE DEF l
  <2>8. article[q.a].date = TRUE => d = TRUE
    BY <2>2
  <2>9. t = "published" => d = TRUE
    <3>1. CASE q.statut = Aucun
      BY <1>3, <1>4, <2>1, <2>8, <3>1 DEF Lignes
    <3>2. CASE q.statut # Aucun
      <4>1. t = "published" => q.date = TRUE \/ article[q.a].date = TRUE
        BY <1>2, <2>1, <3>2 DEF Controle
      <4>2. q.date = TRUE => d = TRUE
        BY <2>2
      <4>. QED  BY <2>8, <4>1, <4>2
    <3>. QED  BY <3>1, <3>2
  <2>10. lectures' = lectures /\ semes' = semes /\ lancees' = lancees /\ lectures \in [Articles -> Nat]
         /\ semes \subseteq Articles /\ lancees \in 0..MaxLancees /\ l.vues = lectures[q.a]
    BY <1>3, <1>4, <2>7 DEF Enregistrer, IInv, Tables, Lignes
  <2>11. article' \in [Articles -> LignesArticle] /\ Avancent
         /\ \A b \in Articles : /\ article'[b].statut = Aucun => article'[b] = SansArticle
                                /\ article'[b].vues = lectures'[b]
                                /\ article'[b].statut = "published" => article'[b].date = TRUE
                                /\ Existe(b) => article'[b].statut # Aucun
    BY <1>3, <2>1, <2>5, <2>7, <2>8, <2>9, <2>10, HypAucun, LigneEcrite
  <2>12. \A b \in Articles : article'[b] = IF b = q.a THEN l ELSE article[b]
    BY <1>4, <2>5
  <2>13. \A b \in Articles : \/ article'[b].statut = article[b].statut
                             \/ b = q.a /\ article'[b].statut = q.statut
    BY <1>3, <2>1, <2>7, <2>12
  <2>14. q.op # "semer" => article'[q.a].likes = q.likes /\ article'[q.a].comments = q.comments
    BY <1>1, <1>3, <2>3, <2>4, <2>7, <2>12 DEF Ajoute
  <2>. QED  BY <1>1, <2>11, <2>13, <2>14
<1>. QED  BY <1>5, <1>6

\* The other requests, once r is committed.
LEMMA AutresEnregistre ==
  ASSUME IInv, NEW r \in Requetes, Enregistrer(r), NEW p \in Requetes \ {r}, NEW o, o = req[p]
  PROVE  Seule(o)'
<1>1. o \in EtatsRequete /\ Controle(o) /\ LikesFlushes(o) /\ Comptes(o)
  BY DEF IInv, EnCours, Seule
<1>2. PICK q : q = req[r]
  OBVIOUS
<1>3. q \in EtatsRequete /\ Controle(q) /\ LikesFlushes(q) /\ q.etape = "enregistrer"
  BY <1>2 DEF IInv, EnCours, Seule, Enregistrer
<1>4. Paire(o, q) /\ Paire(q, o)
  BY <1>2 DEF IInv, EnCours
<1>5. aime' = AimeSelon(r) /\ commentaire' = CommentairesSelon(r) /\ Avancent
  BY ArticleEnregistre DEF Enregistrer
<1>6. \A c \in Commentaires :
        \/ commentaire'[c] = commentaire[c]
        \/ /\ c = q.c /\ commentaire'[c].article = q.a
           /\ \/ q.op \in Ajoutent /\ commentaire[c] = SansCommentaire
              \/ q.op = "decommenter" /\ commentaire[c].article = q.a
  BY <1>2, <1>3, <1>5, CommentairesEcrits
<1>7. Controle(o)'
  <2>1. o.op = "decommenter" => commentaire'[o.c].article = o.a
    BY <1>1, <1>4, <1>6, HypAucun DEF Controle, Paire
  <2>2. o.op \in Ajoutent /\ o.c # Aucun => commentaire'[o.c] = SansCommentaire
    <3>1. o.c \in Commentaires \cup {Aucun}
      BY <1>1 DEF EtatsRequete
    <3>. QED  BY <1>1, <1>4, <1>6, <3>1 DEF Controle, Paire
  <2>3. o.a \in Articles /\ Existe(o.a) =>
          article'[o.a].statut # Aucun /\ (article[o.a].date = TRUE => article'[o.a].date = TRUE)
    BY <1>5 DEF Avancent
  <2>4. o.statut = "published" => o.etape # "repos"
    BY <1>1, HypAucun DEF Controle, Repos, Statuts, Reserves
  <2>. QED  BY <1>1, <2>1, <2>2, <2>3, <2>4 DEF Controle, Existe
<1>8. ASSUME NEW u \in Utilisateurs, o.ecrit[u] # {}, o.etape \in Ecrits
      PROVE  aime'[o.a][u] = {}
  <2>1. aime[o.a][u] = {} /\ o.a \in Articles
    BY <1>1, <1>8 DEF LikesFlushes, Controle, Ecrits, Comptent
  <2>2. CASE o.a # q.a
    BY <1>2, <1>3, <1>5, <2>1, <2>2, LikesEcrits
  <2>3. CASE o.a = q.a
    <3>1. Touche(o, u)
      BY <1>1, <1>8 DEF LikesFlushes, Touche, Bascule
    <3>2. ~Touche(q, u)
      BY <1>3, <1>4, <1>8, <2>3, <3>1 DEF Paire, Ecrits, Comptent
    <3>3. q.ecrit[u] = {}
      BY <1>3, <3>2 DEF LikesFlushes, Touche, Bascule
    <3>. QED  BY <1>2, <1>3, <1>5, <2>1, <2>3, <3>3, LikesEcrits
  <2>. QED  BY <2>2, <2>3
<1>9. LikesFlushes(o)'
  BY <1>1, <1>8 DEF LikesFlushes
<1>10. Comptes(o)'
  <2>. SUFFICES ASSUME o.seul, o.op # "semer", o.etape \in {"compter_comments", "enregistrer"}
                PROVE  /\ o.likes = LikesApres(o)'
                       /\ o.etape = "enregistrer" => o.comments = CommentairesApres(o)'
    BY DEF Comptes
  <2>1. o.a # q.a /\ o.a \in Articles
    BY <1>1, <1>3, <1>4 DEF Paire, Comptent, Controle
  <2>2. aime'[o.a] = aime[o.a]
    BY <1>2, <1>3, <1>5, <2>1, LikesEcrits
  <2>3. LikesApres(o)' = LikesApres(o)
    BY <2>2 DEF LikesApres
  <2>4. \A c \in Commentaires : (commentaire'[c].article = o.a /\ ~commentaire'[c].supprime) <=>
                                (commentaire[c].article = o.a /\ ~commentaire[c].supprime)
    <3>1. SansCommentaire.article = Aucun
      BY DEF SansCommentaire
    <3>. QED  BY <1>6, <2>1, <3>1, HypAucun
  <2>5. CommentairesApres(o)' = CommentairesApres(o)
    BY <2>4 DEF CommentairesApres
  <2>. QED  BY <1>1, <2>3, <2>5 DEF Comptes
<1>. QED  BY <1>7, <1>9, <1>10 DEF Seule

LEMMA PasEnregistrer ==
  ASSUME IInv, NEW r \in Requetes, Enregistrer(r)
  PROVE  IInv'
<1>1. /\ req[r].etape = "enregistrer" /\ req[r].a \in Articles /\ Existe(req[r].a)
      /\ aime' = AimeSelon(r) /\ commentaire' = CommentairesSelon(r)
      /\ req' = [req EXCEPT ![r] = Repos] /\ UNCHANGED <<lectures, semes, lancees>>
  BY DEF Enregistrer, Finir, IInv, EnCours, Seule, Controle
<1>2. Tables'
  <2>1. ASSUME NEW a \in Articles PROVE Lignes(a)'
    <3>1. \A u \in Utilisateurs : \A k, l \in aime'[a][u] : k = l
      BY <1>1, LikesEcrits
    <3>. QED  BY <3>1, ArticleEnregistre DEF Lignes, Existe
  <2>2. ASSUME NEW c \in Commentaires PROVE Reelles(c)'
    <3>1. CASE commentaire'[c] = commentaire[c]
      <4>1. Reelles(c)
        BY DEF IInv, Tables
      <4>. QED  BY <3>1, <4>1, ArticleEnregistre DEF Reelles, Existe
    <3>2. CASE commentaire'[c] # commentaire[c]
      <4>1. commentaire'[c].article = req[r].a
        BY <1>1, <3>2, CommentairesEcrits
      <4>2. article'[req[r].a].statut # Aucun
        BY <1>1, ArticleEnregistre
      <4>. QED  BY <1>1, <4>1, <4>2 DEF Reelles, Existe
    <3>. QED  BY <3>1, <3>2
  <2>3. aime' \in TableLikes /\ commentaire' \in [Commentaires -> LignesCommentaire]
    BY <1>1, LikesEcrits, CommentairesEcrits
  <2>4. lectures' \in [Articles -> Nat] /\ semes' \subseteq Articles /\ lancees' \in 0..MaxLancees
    BY <1>1 DEF IInv, Tables
  <2>5. article' \in [Articles -> LignesArticle]
    BY ArticleEnregistre
  <2>. QED  BY <2>1, <2>2, <2>3, <2>4, <2>5 DEF Tables
<1>3. req' \in [Requetes -> EtatsRequete] /\ req'[r] = Repos /\ \A p \in Requetes \ {r} : req'[p] = req[p]
  BY <1>1, ReposType DEF IInv, EnCours
<1>4. ASSUME NEW p \in Requetes PROVE Seule(req[p])'
  <2>1. CASE p = r
    <3>1. PICK o : o = Repos
      OBVIOUS
    <3>2. Seule(o)'
      BY <3>1, ReposSeul
    <3>. QED  BY <1>3, <2>1, <3>1, <3>2
  <2>2. CASE p # r
    <3>1. PICK o : o = req[p]
      OBVIOUS
    <3>2. Seule(o)'
      BY <2>2, <3>1, AutresEnregistre
    <3>. QED  BY <1>3, <2>2, <3>1, <3>2
  <2>. QED  BY <2>1, <2>2
<1>5. ASSUME NEW p \in Requetes, NEW o \in Requetes, p # o PROVE Paire(req'[p], req'[o])
  <2>1. Aucun \notin Ajoutent /\ Repos.etape = "repos" /\ Repos.op = Aucun /\ Repos.c = Aucun
    BY HypAucun DEF Ajoutent, Operations, Repos
  <2>2. CASE p # r /\ o # r
    BY <1>3, <1>5, <2>2 DEF IInv, EnCours
  <2>3. CASE p = r \/ o = r
    BY <1>3, <1>5, <2>1, <2>3 DEF Paire, Comptent, Ecrits
  <2>. QED  BY <2>2, <2>3
<1>6. EnCours'
  BY <1>3, <1>4, <1>5 DEF EnCours, Paire, Touche
<1>. QED  BY <1>2, <1>6 DEF IInv

\* One step of the system keeps the invariant.
LEMMA Pas ==
  ASSUME IInv, [Next]_vars
  PROVE  IInv'
<1>1. CASE UNCHANGED vars
  BY <1>1, TablesFixes, SansRequete DEF vars, IInv
<1>2. ASSUME NEW r \in Requetes, NEW u \in Utilisateurs, Lire(r, u) PROVE IInv'
  BY <1>2, PasLireModification, PasLireModeration, PasLireLike, PasLireCommenter, PasLireDecommenter
     DEF Lire
<1>3. ASSUME NEW r \in Requetes, Abandonner(r) PROVE IInv'
  BY <1>3, TablesFixes, PasFinir DEF Abandonner
<1>4. ASSUME NEW r \in Requetes, Avancer(r) PROVE IInv'
  <2>1. CASE \E a \in Articles, U \in SUBSET Utilisateurs, c \in Commentaires \cup {Aucun} :
               \E u \in (IF c = Aucun THEN {Aucun} ELSE Utilisateurs) : LireSemis(r, a, U, c, u)
    BY <2>1, PasLireSemis
  <2>2. CASE \/ EcrireSemis(r) \/ InsererSemis(r)
             \/ EcrireModification(r) \/ EcrireDecommenter(r) \/ Moderer(r) \/ Voir(r)
             \/ CompterLikes(r) \/ CompterCommentaires(r) \/ Enregistrer(r) \/ Abandonner(r)
    BY <1>3, <2>2, PasEcrireSemis, PasInsererSemis, PasEcrireModification, PasEcrireDecommenter,
       PasModerer, PasVoir, PasCompterLikes, PasCompterCommentaires, PasEnregistrer
  <2>. QED
    BY <1>2, <1>4, <2>1, <2>2, PasLireArticle, PasEcrireLike, PasEcrireCommentaire DEF Avancer
<1>. QED  BY <1>1, <1>4, PasSupprimer, PasCreer, PasSemer DEF Next

\* The strengthening holds in every reachable state.
THEOREM Invariant == Spec => []IInv
<1>1. Init => IInv
  BY Depart
<1>2. IInv /\ [Next]_vars => IInv'
  BY Pas
<1>. QED  BY <1>1, <1>2, PTL DEF Spec

\* Types; and a user likes an article at most once, however many times at once he
\* asks, whatever the scripts insert meanwhile (toggle_like, uq_article_like_user).
THEOREM TypeCorrect == Spec => []TypeOK
<1>1. IInv => TypeOK
  <2>. SUFFICES ASSUME IInv PROVE TypeOK
    OBVIOUS
  <2>1. ASSUME NEW a \in Articles, NEW u \in Utilisateurs PROVE Cardinality(aime[a][u]) <= 1
    <3>1. \A k, l \in aime[a][u] : k = l
      BY DEF IInv, Tables, Lignes
    <3>2. CASE aime[a][u] = {}
      BY <3>2, FS_EmptySet
    <3>3. CASE aime[a][u] # {}
      <4>1. PICK k : aime[a][u] = {k}
        BY <3>1, <3>3
      <4>. QED  BY <4>1, FS_Singleton
    <3>. QED  BY <3>2, <3>3
  <2>. QED  BY <2>1 DEF TypeOK, IInv, Tables, LignesArticle, LignesCommentaire, TableLikes
<1>. QED  BY <1>1, Invariant, PTL

\* No public read of an article is lost, whatever edits and moderations write the
\* same row meanwhile (increment_view_count adds one in the database).
THEOREM VuesCorrectes == Spec => []VuesComptees
<1>1. IInv => VuesComptees
  BY DEF IInv, Tables, Lignes, VuesComptees
<1>. QED  BY <1>1, Invariant, PTL

\* A published article has a date of publication, though whoever publishes decides
\* on the date he read before others wrote (update_article, moderate_article).
THEOREM DateCorrecte == Spec => []PublieDate
<1>1. IInv => PublieDate
  BY DEF IInv, Tables, Lignes, PublieDate
<1>. QED  BY <1>1, Invariant, PTL

\* set_counters repairs: a like, a comment or an edit that wrote alone leaves exact
\* counters, whatever was wrong before it.
THEOREM CompteursCorrects == Spec => CompteursRepares
<1>1. ASSUME IInv, NEW r \in Requetes, Enregistrer(r), req[r].seul, req[r].op # "semer",
             ~article[req[r].a].supprime
      PROVE  /\ article'[req[r].a].likes = NbLikes(aime', req[r].a)
             /\ article'[req[r].a].comments = NbComments(commentaire', req[r].a)
  <2>1. PICK q : q = req[r]
    OBVIOUS
  <2>2. /\ q \in EtatsRequete /\ q.etape = "enregistrer" /\ q.a \in Articles /\ Comptes(q)
        /\ article \in [Articles -> LignesArticle]
    BY <1>1, <2>1 DEF IInv, EnCours, Tables, Seule, Controle, Enregistrer
  <2>3. article'[q.a].likes = q.likes /\ article'[q.a].comments = q.comments
    BY <1>1, <2>1, ArticleEnregistre
  <2>4. q.likes = LikesApres(q) /\ q.comments = CommentairesApres(q)
    BY <1>1, <2>1, <2>2 DEF Comptes
  <2>5. aime' = AimeSelon(r) /\ commentaire' = CommentairesSelon(r)
    BY <1>1 DEF Enregistrer
  <2>6. NbLikes(aime', q.a) = LikesApres(q)
    BY <1>1, <2>1, <2>2, <2>5, CompteLikes DEF LikesVus
  <2>7. NbComments(commentaire', q.a) = CommentairesApres(q)
    BY <1>1, <2>1, <2>2, <2>5, CompteCommentaires DEF Ecrits, Comptent
  <2>. QED  BY <2>1, <2>3, <2>4, <2>6, <2>7
<1>2. IInv => [\A r \in Requetes :
                 (Enregistrer(r) /\ req[r].seul /\ req[r].op # "semer" /\ ~article[req[r].a].supprime) =>
                   /\ article'[req[r].a].likes = NbLikes(aime', req[r].a)
                   /\ article'[req[r].a].comments = NbComments(commentaire', req[r].a)]_vars
  BY <1>1
<1>. QED  BY <1>2, Invariant, PTL DEF CompteursRepares

\* What a step that publishes article a may be.
Publication(a) ==
  \/ article[a] = SansArticle /\ (article'[a].auteur \in Staff \/ a \in semes')
  \/ \E r \in Requetes : /\ req[r].a = a /\ req'[r] = Repos /\ req[r].qui \in Staff
                         /\ req[r].op \in {"approuver", "modifier"}

LEMMA PublicationNouvelle ==
  ASSUME IInv, NEW a \in Articles, article[a].statut # "published", article'[a].statut = "published",
         NEW b \in Articles, NEW u \in Utilisateurs, NEW t \in Statuts, ~Existe(b), NEW l,
         article' = [article EXCEPT ![b] = l], l.statut = t, l.auteur = u,
         t = "published" => u \in Staff \/ b \in semes'
  PROVE  Publication(a)
<1>1. article \in [Articles -> LignesArticle] /\ Lignes(b)
  BY DEF IInv, Tables
<1>2. a = b
  BY <1>1
<1>3. article[a] = SansArticle
  BY <1>1, <1>2 DEF Lignes
<1>4. article'[a].statut = t /\ article'[a].auteur = u
  BY <1>1, <1>2
<1>. QED  BY <1>2, <1>3, <1>4 DEF Publication

LEMMA PublicationRequete ==
  ASSUME IInv, NEW a \in Articles, article[a].statut # "published", article'[a].statut = "published",
         NEW r \in Requetes, Moderer(r) \/ Voir(r) \/ Enregistrer(r)
  PROVE  Publication(a)
<1>1. PICK q : q = req[r]
  OBVIOUS
<1>2. q \in EtatsRequete /\ Controle(q) /\ q.a \in Articles /\ req'[r] = Repos
      /\ article \in [Articles -> LignesArticle]
  BY <1>1 DEF IInv, EnCours, Tables, Seule, Controle, Moderer, Voir, Enregistrer, Finir
<1>3. CASE Voir(r)
  <2>1. article'[a].statut = article[a].statut
    BY <1>1, <1>2, <1>3 DEF Voir, LignesArticle
  <2>. QED  BY <2>1
<1>4. CASE Moderer(r)
  <2>1. article' = [article EXCEPT ![q.a].statut = Verdict(q.op), ![q.a].date = @ \/ q.op = "approuver"]
    BY <1>1, <1>4 DEF Moderer
  <2>2. a = q.a /\ Verdict(q.op) = "published"
    BY <1>2, <2>1 DEF LignesArticle
  <2>3. q.op = "approuver" /\ q.qui \in Staff
    BY <1>1, <1>2, <1>4, <2>2 DEF Controle, Moderer, Verdict, Moderations
  <2>. QED  BY <1>1, <1>2, <2>2, <2>3 DEF Publication
<1>5. CASE Enregistrer(r)
  <2>1. a = q.a /\ q.statut = "published"
    BY <1>1, <1>5, ArticleEnregistre
  <2>2. q.op = "modifier" /\ q.qui \in Staff
    BY <1>2, <2>1, HypAucun DEF Controle, Statuts, Reserves
  <2>. QED  BY <1>1, <1>2, <2>1, <2>2 DEF Publication
<1>. QED  BY <1>3, <1>4, <1>5

\* An article becomes published only by the staff: an author who edits, creates or
\* resubmits, at whatever moment of a moderation, does not publish it (the scripts
\* do).
THEOREM PublicationCorrecte == Spec => PublieParStaff
<1>1. ASSUME IInv, Next, NEW a \in Articles,
             article[a].statut # "published", article'[a].statut = "published"
      PROVE  Publication(a)
  <2>1. article' # article
    BY <1>1
  <2>2. ASSUME NEW r \in Requetes, Avancer(r) PROVE Moderer(r) \/ Voir(r) \/ Enregistrer(r)
    <3>1. \A u \in Utilisateurs : ~Lire(r, u)
      BY <2>1 DEF Lire, LireModification, LireModeration, LireLike, LireCommenter, LireDecommenter
    <3>2. ~\E b \in Articles, U \in SUBSET Utilisateurs, c \in Commentaires \cup {Aucun} :
             \E u \in (IF c = Aucun THEN {Aucun} ELSE Utilisateurs) : LireSemis(r, b, U, c, u)
      BY <2>1 DEF LireSemis
    <3>3. (\A b \in Articles : ~LireArticle(r, b)) /\ ~EcrireSemis(r) /\ ~InsererSemis(r)
      BY <2>1 DEF LireArticle, EcrireSemis, InsererSemis
    <3>4. (\A l \in Likes : ~EcrireLike(r, l)) /\ (\A c \in Commentaires : ~EcrireCommentaire(r, c))
      BY <2>1 DEF EcrireLike, EcrireCommentaire
    <3>5. ~EcrireModification(r) /\ ~EcrireDecommenter(r) /\ ~CompterLikes(r)
          /\ ~CompterCommentaires(r) /\ ~Abandonner(r)
      BY <2>1 DEF EcrireModification, EcrireDecommenter, CompterLikes, CompterCommentaires, Abandonner
    <3>. QED  BY <2>2, <3>1, <3>2, <3>3, <3>4, <3>5 DEF Avancer
  <2>3. CASE \E r \in Requetes : Avancer(r)
    BY <1>1, <2>2, <2>3, PublicationRequete
  <2>4. ASSUME NEW b \in Articles, NEW u \in Utilisateurs, Supprimer(u, b) PROVE FALSE
    BY <1>1, <2>4 DEF Supprimer, IInv, Tables, LignesArticle
  <2>5. ASSUME NEW b \in Articles, NEW u \in Utilisateurs, NEW s \in Statuts, Creer(b, u, s)
        PROVE  Publication(a)
    <3>1. StatutCree(u, s) \in Statuts /\ (StatutCree(u, s) = "published" => u \in Staff)
      BY DEF StatutCree, Statuts, Reserves
    <3>. DEFINE t == StatutCree(u, s)
                l == Nouveau(u, t, 0)
    <3>2. article' = [article EXCEPT ![b] = l] /\ l.statut = t /\ l.auteur = u /\ ~Existe(b)
      BY <2>5 DEF Creer, Nouveau, SansArticle
    <3>. HIDE DEF l, t
    <3>3. t \in Statuts /\ (t = "published" => u \in Staff)
      BY <3>1 DEF t
    <3>. QED  BY <1>1, <3>2, <3>3, PublicationNouvelle
  <2>6. ASSUME NEW b \in Articles, NEW u \in Utilisateurs, NEW s \in {"draft", "published"},
             NEW v \in VuesSemees, Semer(b, u, s, v)
        PROVE  Publication(a)
    <3>1. s \in Statuts /\ b \in semes'
      BY <2>6 DEF Statuts, Reserves, Semer
    <3>. DEFINE l == Nouveau(u, s, v)
    <3>2. article' = [article EXCEPT ![b] = l] /\ l.statut = s /\ l.auteur = u /\ ~Existe(b)
      BY <2>6 DEF Semer, Nouveau, SansArticle
    <3>. HIDE DEF l
    <3>. QED  BY <1>1, <3>1, <3>2, PublicationNouvelle
  <2>. QED  BY <1>1, <2>3, <2>4, <2>5, <2>6 DEF Next
<1>2. IInv /\ [Next]_vars =>
        [\A a \in Articles : article[a].statut # "published" /\ article'[a].statut = "published" =>
           \/ article[a] = SansArticle /\ (article'[a].auteur \in Staff \/ a \in semes')
           \/ \E r \in Requetes : /\ req[r].a = a /\ req'[r] = Repos /\ req[r].qui \in Staff
                                  /\ req[r].op \in {"approuver", "modifier"}]_vars
  BY <1>1 DEF Publication
<1>. QED  BY <1>2, Invariant, PTL DEF Spec, PublieParStaff
=============================================================================
