SPECIFICATION Spec
CONSTANTS
    Matrices <- MCMatrices
    Turns <- MCTurns
    Arrows <- MCArrows
    Cameras <- MCCameras
    Spots <- MCSpots
    Width = 4
    Height = 2
    Colors <- MCColors
    Pictures <- MCPictures
    Drawings <- MCDrawings
    Margin = 5
    Divisions = 4
    Figures <- MCFigures
    Controls <- MCControls
    Recs <- MCRecs
    Places <- MCPlaces
    Bodies <- MCBodies
    Maps <- MCMaps
    Sources <- MCSources
    Headings <- MCHeadings
    Stances <- MCStances
    Steps <- MCSteps
    Codepoints <- MCCodepoints
    Octets <- MCOctets
    Letters = {97, 98, 10}
    Delimiter = 98
    Words <- MCWords
    Names <- MCNames
    Extensions <- MCExtensions
    Fonts <- MCFonts
    Glyphs = {65, 66, 32, 10, 233, 776, 103}
    Widths = {1, 2, 4}
    Ty <- MCTy
    Types <- MCTypes
    Terms <- MCTerms
    Programs <- MCPrograms
    Locals = {"x", "y"}
    MaxItems = 3
    SettleRounds = 3
    OpenEnd = 100
    None = None
INVARIANTS
    TransformsAgree
    PicturesSurvive
    ShapesFillTheirOutlines
    CurvesJoin
    CollisionsAgree
    SolidsAreClosed
    RaysMeetTheSame
    SkinsFollowBones
    TextsReturn
    TextIsLaidOut
    RangesHold
