----------------------------- MODULE MCStructural -----------------------------
(***************************************************************************)
(* Structural analyses of a body of two tetrahedra that share a face: the  *)
(* bottom is held, and what is at the back and at the right is loaded.     *)
(***************************************************************************)
EXTENDS StructuralEvidence

-----------------------------------------------------------------------------
(* The body *)

Node == <<<<0, 0, 0>>, <<4, 0, 0>>, <<0, 4, 0>>, <<0, 0, 4>>, <<-4, 0, 0>>,
          <<2, 0, 0>>, <<0, 2, 0>>, <<0, 0, 2>>, <<-2, 0, 0>>,
          <<2, 2, 0>>, <<2, 0, 2>>, <<0, 2, 2>>, <<-2, 2, 0>>, <<-2, 0, 2>>>>
\* As gmsh writes them, the last two midside nodes the other way round.
Tet == <<<<1, 2, 3, 4, 6, 10, 7, 8, 12, 11>>, <<1, 3, 5, 4, 7, 13, 9, 8, 14, 12>>>>
Triangle(six) == [nodes |-> six]
Skin ==
  [bottom |-> <<Triangle(<<1, 3, 2, 7, 10, 6>>), Triangle(<<1, 5, 3, 9, 13, 7>>)>>,
   back |-> <<Triangle(<<1, 2, 4, 6, 11, 8>>), Triangle(<<1, 4, 5, 8, 14, 9>>)>>,
   right |-> <<Triangle(<<2, 3, 4, 10, 12, 11>>)>>,
   left |-> <<Triangle(<<3, 5, 4, 13, 14, 12>>)>>]
Face(area, centroid, normal) ==
  [planar |-> TRUE, area |-> area, centroid |-> centroid, normal |-> normal]

\* The area and the place of the back are what the kernel says they are.
BodyWith(area, height) ==
  [solids |-> 1, valid |-> TRUE,
   faces |-> <<Face(32, <<0, 4, 0>>, <<0, 0, -4>>), Face(area, <<0, 0, height>>, <<0, -4, 0>>),
               Face(48, <<4, 4, 4>>, <<4, 4, 4>>), Face(48, <<-4, 4, 4>>, <<-4, 4, 4>>)>>,
   nodes |-> Node, tets |-> Tet, skin |-> Skin]

\* Exact; near enough for the deck and not for the results; too small for the
\* deck; too large to be found; not a body; with a back that is not planar, so
\* that three faces are the furthest back.
Exact == BodyWith(32, 4)
\* The middle of the back is pushed in, and the mesh of the back is not planar.
Dented ==
  [Exact EXCEPT
     !.nodes = [n \in 1..14 |-> CASE n = 1 -> <<0, 2, 0>> [] n = 6 -> <<2, 1, 0>> [] n = 7 -> <<0, 3, 0>>
                               [] n = 8 -> <<0, 1, 2>> [] n = 9 -> <<-2, 1, 0>> [] OTHER -> Node[n]],
     !.faces[1] = Face(16, <<0, 6, 0>>, <<0, 0, -4>>),
     !.faces[2] = Face(64, <<0, 2, 4>>, <<0, -2, -1>>)]
\* The same body as the exporter of assemblies, and another kernel, publish it.
MCBodies ==
  [exact |-> Exact, near |-> BodyWith(33, 5), small |-> BodyWith(16, 4),
   large |-> BodyWith(80, 4),
   broken |-> [Exact EXCEPT !.valid = FALSE],
   curved |-> [Exact EXCEPT !.faces[2].planar = FALSE],
   dented |-> Dented, assembled |-> Exact, foreign |-> Exact]
MCOrigins ==
  [g \in DOMAIN MCBodies |->
    [provider |-> IF g = "foreign" THEN "another" ELSE "freecad",
     tool |-> IF g = "assembled" THEN "assembly" ELSE "part", program |-> "p"]]

-----------------------------------------------------------------------------
(* What is asked of it *)

RegionOf(id, axis, side) == [id |-> id, axis |-> axis, side |-> side, cardinality |-> 1]
Force(region, force) == [kind |-> "resultant", region |-> region, force |-> force]
Elastic == {"elastic_modulus", "poisson_ratio"}
Limit(id, kind, case, region, limit) ==
  [id |-> id, kind |-> kind, case |-> case, region |-> region, limit |-> limit,
   sampling |-> IF kind = "stress" THEN "element_nodal_extrapolated" ELSE "nodal",
   consumes |-> IF kind = "stress" THEN Elastic \union {"yield_strength"} ELSE Elastic]

\* A pulls two faces that share an edge; B presses and accelerates; C is held on
\* two faces that share an edge; nothing holds D.
Plain ==
  [regions |-> {RegionOf("fixed", 3, "min"), RegionOf("loaded", 2, "min"), RegionOf("free", 1, "max")},
   supports |-> <<[region |-> "fixed", cases |-> {"A", "B", "C"}], [region |-> "free", cases |-> {"C"}]>>,
   loads |-> [A |-> <<Force("loaded", <<0, 1, 0>>), Force("free", <<0, 0, -1>>)>>,
              B |-> <<[kind |-> "pressure", region |-> "loaded", force |-> <<0, 1, 0>>],
                      [kind |-> "acceleration", region |-> "fixed", force |-> <<0, 0, -1>>]>>,
              C |-> <<Force("loaded", <<1, 0, 0>>)>>,
              D |-> <<Force("loaded", <<1, 0, 0>>)>>],
   criteria |-> {Limit("bend", "displacement", "A", "free", 15), Limit("yield", "stress", "A", "fixed", 2)},
   material |-> [known |-> Elastic \union {"density", "yield_strength"},
                 trusted |-> Elastic \union {"yield_strength"}, yield |-> 20]]
\* Its yield strength is of nobody, and B has a limit too.
Doubted ==
  [Plain EXCEPT !.material.trusted = Elastic,
                !.criteria = @ \union {Limit("settle", "displacement", "B", "free", 15)}]

\* The back and the right have one name in an INP file, where the free end has lost a part
\* of its own: A pulls and B presses what goes by that name.
Respelled ==
  [regions |-> {RegionOf("fixed", 3, "min"), RegionOf("loaded", 2, "min"),
                RegionOf("Loaded", 1, "max"), RegionOf("free-end", 1, "min")},
   supports |-> <<[region |-> "fixed", cases |-> {"A", "B"}]>>,
   loads |-> [A |-> <<Force("loaded", <<0, 1, 0>>)>>,
              B |-> <<[kind |-> "pressure", region |-> "loaded", force |-> <<0, 1, 0>>]>>],
   criteria |-> {Limit("bend", "displacement", "B", "free-end", 15)},
   material |-> Plain.material]
\* Held by a region whose name starts with a figure; its stresses are taken where a result
\* has none.
Numbered ==
  [regions |-> {RegionOf("1st", 3, "min"), RegionOf("loaded", 2, "min")},
   supports |-> <<[region |-> "1st", cases |-> {"A"}]>>,
   loads |-> [A |-> <<Force("loaded", <<0, 1, 0>>)>>],
   criteria |-> {[Limit("yield", "stress", "A", "loaded", 2) EXCEPT
                    !.sampling = "element_integration_point"]},
   material |-> Plain.material]
MCDefinitions ==
  [plain |-> Plain, doubted |-> Doubted, respelled |-> Respelled, numbered |-> Numbered]

MCElset ==
  [id \in {"fixed", "loaded", "Loaded", "free", "free-end", "1st"} |->
    CASE id = "Loaded" -> "loaded" [] id = "free-end" -> "free" [] OTHER -> id]
MCPrinted == {"fixed", "loaded", "Loaded", "free"}

All == {"displacement", "stress", "reactions"}
Ask(definition, geometry, cases, mesh, fields, policy) ==
  [revision |-> 1, definition |-> definition, geometry |-> geometry, program |-> "p",
   cases |-> cases, mesh |-> mesh, fields |-> fields, policy |-> policy]
Level(mesh) == Ask("plain", "exact", <<"A">>, mesh, All, "free")
Both == {"displacement", "stress"}
Oddities ==
  {Ask("plain", g, <<"A">>, "coarse", All, "free") : g \in DOMAIN MCBodies \ {"exact"}}
  \union {Ask("plain", "exact", cases, "coarse", All, None) : cases \in {<<"A", "C">>, <<"A", "D">>}}
  \union {Ask("respelled", "exact", <<case>>, "coarse", Both, None) : case \in {"A", "B"}}
  \union {Ask("numbered", "exact", <<"A">>, "coarse", fields, None) : fields \in {All, Both}}
  \union {Ask("plain", "exact", <<"A">>, "coarse", {"stress"}, None),
          Ask("doubted", "exact", <<"A", "B">>, "coarse", Both, None),
          [Level("coarse") EXCEPT !.program = "q"]}
\* The levels of a study, the same request twice, and each of the oddities.
MCPlans ==
  {<<Level("coarse"), Level("medium"), Level("fine")>>, <<Level("coarse"), Level("coarse")>>}
  \union {<<r>> : r \in Oddities}

MCFields == {[displacement |-> 10, stress |-> 5], [displacement |-> 20, stress |-> 30]}
MCStudies ==
  {[case |-> "A", specs |-> <<"coarse", "medium", "fine">>, threshold |-> 60],
   [case |-> "A", specs |-> <<"coarse", "medium", "coarse">>, threshold |-> 60]}

-----------------------------------------------------------------------------
(* What is worked out once *)

\* A function, worked out at once.
Tabulated(f) == f @@ << >>

MCOutcomes == LET table == OutcomesOf IN Tabulated(table)
MCMeshes == LET table == MeshesOf IN Tabulated(table)
MCDecks == LET table == DecksOf IN Tabulated(table)
MCSupported == LET table == SupportedOf IN Tabulated(table)
MCFaithful == LET table == FaithfulOf IN Tabulated(table)
MCHolding == LET table == HoldingOf IN Tabulated(table)
=============================================================================
