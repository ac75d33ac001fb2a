---------------------------- MODULE StructuralDeck ----------------------------
(***************************************************************************)
(* From a body to a solver deck (structural/geometry.py, mesh.py, deck.py, *)
(* preflight.py): the regions of a definition are found among the faces of *)
(* the body, then among those of its mesh; supports become node sets and   *)
(* loads become forces on nodes.  And back (results.py): the forces a deck *)
(* must hold are worked out a second time from the mesh.                   *)
(*                                                                         *)
(* A body is [solids, valid, faces, nodes, tets, skin]: its faces in the   *)
(* order of the CAD kernel; the nodes of its mesh with their coordinates,  *)
(* the ten nodes of every tetrahedron and, for every face of the mesh, the *)
(* triangles that make it up, with six nodes each.  A face is              *)
(* [planar, area, centroid, normal].  Areas are in units of the sum of the *)
(* components of the cross product of two edges, which within one plane is *)
(* in proportion to the area; centroids are three times the centroid.      *)
(* The mesh is written twice, and the writings differ in one thing: an MSH *)
(* file, which is kept and read when results are, has the names of regions *)
(* as they are; an INP file, which decks are built from, has what is left  *)
(* of them.                                                                *)
(*                                                                         *)
(* A definition is [regions, supports, loads, criteria, material]: regions *)
(* to fix and to load, supports and, for every load case, its loads.       *)
(***************************************************************************)
EXTENDS Integers, SequencesExt

CONSTANTS
  None,
  AreaTolerance,          \* between a face of the body and one of its mesh
  CentroidTolerance,
  PlanarityTolerance,     \* of a face of the mesh, in thirds as that of centroids
  Elset,                  \* the name a region has in an INP file, None if there is none
  Scale,                  \* a common multiple of the areas of loaded faces
  ConservationTolerance   \* of the force a deck applies, in one over 3 * Scale

ASSUME ToleranceAssumption ==
  /\ AreaTolerance \in Nat /\ CentroidTolerance \in Nat /\ PlanarityTolerance \in Nat
  /\ ConservationTolerance \in Nat /\ Scale \in Nat

\* Names are put in lower case and cut at the first letter that is not one of a word:
\* what is left of a name stays what it is.
ASSUME SpellingAssumption ==
  /\ None \notin DOMAIN Elset
  /\ \A id \in DOMAIN Elset :
       Elset[id] # None => Elset[id] \in DOMAIN Elset /\ Elset[Elset[id]] = Elset[id]

Axes == 1..3
Plus(u, v) == [k \in Axes |-> u[k] + v[k]]
Minus(u, v) == [k \in Axes |-> u[k] - v[k]]
Times(n, v) == [k \in Axes |-> n * v[k]]
Cross(u, v) == <<u[2] * v[3] - u[3] * v[2], u[3] * v[1] - u[1] * v[3],
                 u[1] * v[2] - u[2] * v[1]>>
Dot(u, v) == u[1] * v[1] + u[2] * v[2] + u[3] * v[3]
Size(n) == IF n < 0 THEN -n ELSE n
Norm(v) == Size(v[1]) + Size(v[2]) + Size(v[3])
Zero == <<0, 0, 0>>

Total(vectors) == FoldFunction(Plus, Zero, vectors)

-----------------------------------------------------------------------------
(* Regions on the body *)

\* The planar faces whose centroid is the outermost one on the side asked for.
Outermost(body, region) ==
  LET planar == {i \in DOMAIN body.faces : body.faces[i].planar}
      place(i) == body.faces[i].centroid[region.axis]
  IN  {i \in planar : \A j \in planar :
         IF region.side = "min" THEN place(i) <= place(j) ELSE place(i) >= place(j)}

Resolvable(body, region) ==
  /\ Outermost(body, region) # {}
  /\ Cardinality(Outermost(body, region)) = region.cardinality

\* However many faces a region has, it is the first of them from here on.
FaceOf(body, region) ==
  CHOOSE i \in Outermost(body, region) : \A j \in Outermost(body, region) : i <= j

RegionsResolve(body, regions) == \A r \in regions : Resolvable(body, r)

-----------------------------------------------------------------------------
(* Regions on the mesh *)

Corners(triangle) == {triangle.nodes[k] : k \in 1..3}
CrossOf(body, triangle) ==
  LET at(k) == body.nodes[triangle.nodes[k]]
  IN  Cross(Minus(at(2), at(1)), Minus(at(3), at(1)))
AreaOf(body, triangle) == Norm(CrossOf(body, triangle))
CentreOf(body, triangle) ==
  Plus(body.nodes[triangle.nodes[1]],
       Plus(body.nodes[triangle.nodes[2]], body.nodes[triangle.nodes[3]]))

Areas(body, triangles) == [i \in DOMAIN triangles |-> AreaOf(body, triangles[i])]
Area(body, triangles) == SumFunction(Areas(body, triangles))
\* The area times three times the centroid.
Moment(body, triangles) ==
  Total([i \in DOMAIN triangles |-> Times(AreaOf(body, triangles[i]), CentreOf(body, triangles[i]))])

\* The normal of a face of the mesh, as long as its triangles are large.
NormalOf(body, triangles) == Total([i \in DOMAIN triangles |-> CrossOf(body, triangles[i])])

\* How far a node is from the plane through the centroid, by that normal; in units of
\* three times the area times the length of the normal.
Rise(body, triangles, node) ==
  Size(Dot(NormalOf(body, triangles),
           Minus(Times(3 * Area(body, triangles), body.nodes[node]), Moment(body, triangles))))

\* The faces of the mesh that could be the face of the body: planar, about its
\* area, about its place, and parallel to it.
Candidates(body, face) ==
  {tag \in DOMAIN body.skin :
     LET triangles == body.skin[tag]
         area == Area(body, triangles)
         normal == NormalOf(body, triangles)
     IN  /\ normal # Zero /\ Cross(normal, face.normal) = Zero
         /\ \A i \in DOMAIN triangles : \A n \in Corners(triangles[i]) :
              Rise(body, triangles, n) < PlanarityTolerance * area * Norm(normal)
         /\ Size(area - face.area) <= AreaTolerance
         /\ Norm(Minus(Moment(body, triangles), Times(area, face.centroid)))
              <= CentroidTolerance * area}

RegionsMatch(body, regions) ==
  \A r \in regions : Cardinality(Candidates(body, body.faces[FaceOf(body, r)])) = 1

\* The triangles of a region.
Surface(body, region) ==
  body.skin[CHOOSE tag \in Candidates(body, body.faces[FaceOf(body, region)]) : TRUE]

\* Gmsh numbers the last two midside nodes of a tetrahedron the other way round.
Canonical(ten) == [k \in 1..10 |-> IF k = 9 THEN ten[10] ELSE IF k = 10 THEN ten[9] ELSE ten[k]]

MidsideEdges == <<<<1, 2>>, <<2, 3>>, <<1, 3>>, <<1, 4>>, <<2, 4>>, <<3, 4>>>>

\* _validate_mesh, of the INP file: every midside node is the midpoint of its edge, and
\* something is left of a region.
MeshIsSound(body, definition) ==
  /\ DOMAIN body.tets # {}
  /\ \A e \in DOMAIN body.tets :
       LET ten == Canonical(body.tets[e])
       IN  \A k \in DOMAIN MidsideEdges :
             Times(2, body.nodes[ten[k + 4]]) =
               Plus(body.nodes[ten[MidsideEdges[k][1]]], body.nodes[ten[MidsideEdges[k][2]]])
  /\ \E r \in definition.regions : Elset[r.id] # None
  /\ \A r \in definition.regions :
       LET triangles == Surface(body, r)
       IN  triangles # << >> /\ \A i \in DOMAIN triangles : Len(triangles[i].nodes) = 6

\* What comes of the body, its regions and its mesh.
Outcome(body, definition) ==
  IF ~body.valid \/ body.solids # 1 THEN "GEOMETRY_REJECTED"
  ELSE IF ~RegionsResolve(body, definition.regions) THEN "REGION_RESOLUTION_FAILED"
  ELSE IF ~RegionsMatch(body, definition.regions) \/ ~MeshIsSound(body, definition)
  THEN "MESH_FAILED"
  ELSE "SUCCEEDED"

-----------------------------------------------------------------------------
(* Faces of tetrahedra *)

\* Corners, then midside nodes, of the faces a solver knows a tetrahedron by.
LocalFaces ==
  [S1 |-> <<1, 3, 2, 7, 6, 5>>, S2 |-> <<1, 2, 4, 5, 9, 8>>,
   S3 |-> <<2, 3, 4, 6, 10, 9>>, S4 |-> <<1, 4, 3, 8, 10, 7>>]

NodesOf(body, place) ==
  [k \in 1..6 |-> Canonical(body.tets[place[1]])[LocalFaces[place[2]][k]]]

\* The faces of tetrahedra with the corners of a triangle.
Places(body, triangle) ==
  {p \in (DOMAIN body.tets) \X (DOMAIN LocalFaces) :
     {NodesOf(body, p)[k] : k \in 1..3} = Corners(triangle)}

Mappable(body, triangles) ==
  \A i \in DOMAIN triangles : Cardinality(Places(body, triangles[i])) = 1

\* map_surface_to_volume_faces: the face of every triangle.
Mapped(body, triangles) ==
  [i \in DOMAIN triangles |-> CHOOSE p \in Places(body, triangles[i]) : TRUE]

Midsides(body, place) == {NodesOf(body, place)[k] : k \in 4..6}

-----------------------------------------------------------------------------
(* Regions by name *)

RegionNames(definition) == {r.id : r \in definition.regions}
Region(definition, id) == CHOOSE r \in definition.regions : r.id = id
\* Every name is in an INP file what it is.
NamesSurvive(definition) == \A id \in RegionNames(definition) : Elset[id] = id

\* The triangles an INP file has under a name: those of every region of which it is
\* what is left.
Extracted(body, definition, name) ==
  LET ids == SetToSeq({id \in RegionNames(definition) : Elset[id] = name})
  IN  FlattenSeq([i \in DOMAIN ids |-> Surface(body, Region(definition, ids[i]))])

NodesAmong(triangles) == UNION {Range(t.nodes) : t \in Range(triangles)}

-----------------------------------------------------------------------------
(* Resultant forces *)

NoForces == << >>
Touched(body, places) == UNION {Midsides(body, places[i]) : i \in DOMAIN places}

\* The forces on nodes that stand for a force on a face: each triangle gives a
\* third of its share to every one of its midside nodes.  In units of one over
\* three times Scale; share is the area the force is spread over.
Spread(body, areas, places, force, share) ==
  [n \in Touched(body, places) |->
     Total([i \in {k \in DOMAIN places : n \in Midsides(body, places[k])} |->
              Times(areas[i] * (Scale \div share), force)])]

\* Faulty: a force replaces the one a node has.
AddedReplacing(forces, more) == more @@ forces

Added(forces, more) ==
  [n \in DOMAIN forces \union DOMAIN more |->
     Plus(IF n \in DOMAIN forces THEN forces[n] ELSE Zero,
          IF n \in DOMAIN more THEN more[n] ELSE Zero)]
\* The forces of loads one after the other.
Together(nodals) == FoldLeft(Added, NoForces, nodals)

\* The forces on the nodes add up to the force, and turn the body as the force
\* at the centroid of the face does.
Conserved(body, triangles, force, nodal) ==
  LET area == Area(body, triangles)
      sum == Total(nodal)
      turn == Total([n \in DOMAIN nodal |-> Cross(body.nodes[n], nodal[n])])
  IN  /\ Norm(Minus(sum, Times(3 * Scale, force))) <= ConservationTolerance
      /\ Norm(Minus(Times(area, turn), Times(Scale, Cross(Moment(body, triangles), force))))
           <= ConservationTolerance * area

\* The triangles a load is on, in the mesh a deck is built from, and the area the kernel
\* saw its region have.
Under(body, definition, load) == Extracted(body, definition, load.region)
Observed(body, definition, load) ==
  body.faces[FaceOf(body, Region(definition, load.region))].area

\* The forces on nodes of a resultant, spread over the area of the face of its region.
NodalForces(body, definition, load) ==
  LET triangles == Under(body, definition, load)
  IN  Spread(body, Areas(body, triangles), Mapped(body, triangles), load.force,
             Observed(body, definition, load))

\* Faulty: the record of a load names the forces of no other.
LoweredAlone(body, definition, load, before) ==
  LET nodal == NodalForces(body, definition, load)
  IN  [load |-> load, area |-> Observed(body, definition, load),
       forces |-> Together(<<nodal>>),
       conserved |-> Conserved(body, Under(body, definition, load), load.force, nodal)]

\* _lower_resultant_force, for a load on a region; the record it leaves names the
\* forces of this load and of those before it.
Lowered(body, definition, load, before) ==
  LET triangles == Under(body, definition, load)
      nodal == NodalForces(body, definition, load)
  IN  [load |-> load, area |-> Observed(body, definition, load),
       forces |-> Together(Append(before, nodal)),
       conserved |-> /\ load.force # Zero /\ Area(body, triangles) > 0
                     /\ Conserved(body, triangles, load.force, nodal)]

\* _reconstruct_resultant_lowering: the triangles are the faces a deck names, as the
\* mesh has them.
Seen(body, places) == [i \in DOMAIN places |-> [nodes |-> NodesOf(body, places[i])]]
ForcesSeen(body, places, load, area) ==
  Spread(body, Areas(body, Seen(body, places)), places, load.force, area)
\* A record that claims an area agrees with what is worked out from the mesh; none of
\* the triangles may be flat, which the deck was built without a look at.
Agrees(body, region, places, load, area) ==
  /\ Range(places) = Range(Mapped(body, Surface(body, region)))
  /\ \A i \in DOMAIN places : Areas(body, Seen(body, places))[i] > 0
  /\ area = Area(body, Seen(body, places))
  /\ Conserved(body, Seen(body, places), load.force, ForcesSeen(body, places, load, area))

-----------------------------------------------------------------------------
(* The deck of a load case *)

Supports(definition, case) == SelectSeq(definition.supports, LAMBDA s : case \in s.cases)

NodesOfRegion(body, definition, id) == NodesAmong(Surface(body, Region(definition, id)))

\* What is kept of a mesh: its nodes; for every region, as an MSH file has it, the nodes
\* it has, its area there, the one the kernel saw, and whether a triangle of it is
\* flat; and the groups its manifest names, which are the names of an INP file that
\* are those of regions too.
Meshed(body, definition) ==
  [nodes |-> DOMAIN body.nodes,
   regions |-> [id \in RegionNames(definition) |->
     LET triangles == Surface(body, Region(definition, id))
     IN  [nodes |-> NodesAmong(triangles),
          area |-> Area(body, triangles),
          observed |-> body.faces[FaceOf(body, Region(definition, id))].area,
          flat |-> \E i \in DOMAIN triangles : Areas(body, triangles)[i] = 0]],
   groups |-> {Elset[id] : id \in RegionNames(definition)} \intersect RegionNames(definition)]

\* The node sets of a deck: supports of one region share a set, that of the first.
FixedRegions(definition, case) ==
  LET supports == Supports(definition, case)
      firsts == {i \in DOMAIN supports :
                   \A j \in DOMAIN supports : j < i => supports[j].region # supports[i].region}
      place(k) == CHOOSE i \in firsts : Cardinality({j \in firsts : j <= i}) = k
  IN  [k \in 1..Cardinality(firsts) |-> supports[place(k)].region]
FixedNodes(body, definition, case) ==
  UNION {NodesAmong(Extracted(body, definition, id)) : id \in Range(FixedRegions(definition, case))}

OfKind(loads, kind) == SelectSeq(loads, LAMBDA load : load.kind = kind)
Loads(definition, case) == definition.loads[case]
LoadedRegions(definition, case) ==
  {load.region : load \in {l \in Range(Loads(definition, case)) : l.kind # "acceleration"}}

Resultants(definition, case) == OfKind(Loads(definition, case), "resultant")

\* The forces on nodes of the resultants of a case, and their records, in order.
Nodals(body, definition, case) ==
  LET loads == Resultants(definition, case)
  IN  [i \in DOMAIN loads |-> NodalForces(body, definition, loads[i])]
LoweredLoads(body, definition, case) ==
  LET loads == Resultants(definition, case)
      nodals == Nodals(body, definition, case)
  IN  [i \in DOMAIN loads |-> Lowered(body, definition, loads[i], SubSeq(nodals, 1, i - 1))]

\* build and validate: what they need to get to a deck.
Buildable(body, definition, case) ==
  /\ {"elastic_modulus", "poisson_ratio"} \subseteq definition.material.known
  /\ \A load \in Range(OfKind(Loads(definition, case), "acceleration")) :
       "density" \in definition.material.known /\ load.force # Zero
  /\ Supports(definition, case) # << >>
  /\ \A s \in Range(Supports(definition, case)) : Extracted(body, definition, s.region) # << >>
  /\ \A id \in LoadedRegions(definition, case) :
       Extracted(body, definition, id) # << >> /\ Mappable(body, Extracted(body, definition, id))
  /\ \A lowered \in Range(LoweredLoads(body, definition, case)) : lowered.conserved

\* What a deck says, apart from the fields it asks for.
Deck(body, definition, case) ==
  LET lowered == LoweredLoads(body, definition, case)
      fixed == FixedRegions(definition, case)
  IN  [sets |-> [i \in DOMAIN fixed |->
                   [region |-> fixed[i], nodes |-> NodesAmong(Extracted(body, definition, fixed[i]))]],
       pressures |-> OfKind(Loads(definition, case), "pressure"),
       gravity |-> OfKind(Loads(definition, case), "acceleration"),
       surfaces |-> [id \in LoadedRegions(definition, case) |->
                       Mapped(body, Extracted(body, definition, id))],
       forces |-> Together(Nodals(body, definition, case)),
       lowered |-> lowered]

\* The deck an execution kept holds the forces its definition asks for: its
\* records, and what is on its nodes, are what they are worked out to be.
DeckVerifies(body, definition, case, deck) ==
  LET loads == Resultants(definition, case)
      places(i) == deck.surfaces[loads[i].region]
      nodals == [i \in DOMAIN loads |-> ForcesSeen(body, places(i), loads[i], deck.lowered[i].area)]
  IN  /\ Len(deck.lowered) = Len(loads)
      /\ \A i \in DOMAIN loads :
           /\ deck.lowered[i].load = loads[i]
           /\ Agrees(body, Region(definition, loads[i].region), places(i), loads[i],
                     deck.lowered[i].area)
           /\ deck.lowered[i].forces = Together(SubSeq(nodals, 1, i))
      /\ deck.forces = Together(nodals)

\* The rigid-body modes the fixed nodes hold back have rank six: three of the
\* nodes are not on one line.
Adequate(body, nodes) ==
  \E a, b, c \in nodes :
    Cross(Minus(body.nodes[b], body.nodes[a]), Minus(body.nodes[c], body.nodes[a])) # Zero
=============================================================================
