SPECIFICATION AppSpec
CONSTANTS
    t1 = t1
    t2 = t2
    t3 = t3
    Tabs = {t1, t2, t3}
    Scenes <- ThemesOrMoves
    MaxUnderWay = 2
INVARIANTS
    TabsAgree
    ShownIsTheTheme
    SectionIsMarked
    LabelOrTooltip
PROPERTY
    KeyFlipsWhatIsShown
